------------------------ MODULE Orchestration_proofs ------------------------
(***************************************************************************)
(* One Orchestration, for any number of callers and subtasks, any bound on *)
(* concurrency and any number of crashes, with a store that works or that  *)
(* may fail at every append.                                               *)
(*                                                                         *)
(* The record in memory may run ahead of the saved one only on the way to  *)
(* the end of the execution (Synced).  Children are admitted in the order  *)
(* of the plan, each after the one before it was saved, so the Jobs that a *)
(* dead process leaves are those of its record and at most the next one:   *)
(* this is what bounds the concurrency after a restart and lets the next   *)
(* process find the Job it has to take over (LaunchInv, JobsInv).  What is *)
(* bounded are the children that work and that the record has not given up *)
(* (Counted): no record takes an outcome back (Synced), and while the      *)
(* store works every outcome is that of the Job (Agrees), so that no other *)
(* child works.  That a parent ends after all its work is a matter of the  *)
(* first process only: Undisturbed says which Jobs and which evidence it   *)
(* still has open.                                                         *)
(*                                                                         *)
(* The last part shows that every step is one that OrchestrationContract   *)
(* allows, or leaves what the contract reads as it is.                     *)
(***************************************************************************)
EXTENDS Orchestration, FiniteSetTheorems, TLAPS

Numbered == 0..MaxSubtasks
Underway == {"queued", "dispatching"}

\* Some Job of subtask k has not ended.
Works(js, k) == \E i \in DOMAIN js[k] : js[k][i].status = "active"
Working(js) == {k \in Subtasks : Works(js, k)}
Counted(p, js) == {k \in Subtasks : Works(js, k) /\ p.child[k] \notin Final}

\* One Job at most for each subtask and for the reviewer.
JobsTyped(js) ==
    /\ js = [k \in Numbered |-> js[k]]
    /\ \A k \in Numbered : js[k] = <<>> \/ \E job \in Job : js[k] = <<job>>

\* A record names the Jobs of exactly the children it has.
NamesJobs(rec, js) ==
    /\ rec \in OrchestrationRecord
    /\ \A k \in Subtasks :
         IF rec.child[k] = "none" THEN rec.childJob[k] = 0
         ELSE rec.childJob[k] = 1 /\ js[k] # <<>>

\* What a settled child is said to have come to, its Job came to.
Agrees(rec, js) ==
    \A k \in Subtasks : rec.child[k] \in Final => js[k][1].status = rec.child[k]

EnvInv ==
    /\ input \in Inputs
    /\ broker \in {"down", "jobs", "parents", "up"} /\ crashes \in 0..input.crashes
    /\ requested \in BOOLEAN /\ answer \in {"none", "rejected"} \cup Final
    /\ crashes = 0 => broker = "up"

\* The callers: who wrote the snapshot that was admitted, and who is still to be answered.
CallsInv ==
    /\ calls \in [Callers -> {"idle", "captured", "done"}] /\ snapshots \subseteq Callers
    /\ parent.status = "none" => parent = NoParent
    /\ \A c \in parent.owner : calls[c] = "done" /\ (input.plan > 0 => c \in snapshots)
    /\ \A c \in Callers : calls[c] = "captured" => broker = "up" /\ (input.plan > 0 => c \in snapshots)

\* The Jobs under record p: children are admitted in their order, each after the one before
\* it was saved.
JobsInv(p, js) ==
    /\ JobsTyped(js)
    /\ \A k, i \in Subtasks : js[k] # <<>> /\ i < k => p.child[i] # "none"
    /\ p.status = "none" => \A k \in Numbered : js[k] = <<>>
    /\ ~ input.faults /\ broker \in {"parents", "up"} =>
         \A k \in Numbered : \A i \in DOMAIN js[k] : js[k][i].status = "active" => js[k][i].running
    /\ Cardinality(Counted(p, js)) <= input.concurrency

\* The saved record p.
ParentInv(p, js) ==
    /\ NamesJobs(p, js)
    /\ ~ input.faults => Agrees(p, js)
    /\ p.status = "succeeded" => \A k \in Subtasks : k <= input.plan => p.child[k] = "succeeded"
    /\ ~ input.faults /\ p.status = "cancelled" => requested /\ p.evidence
    /\ answer \in {"succeeded", "cancelled"} => p.status = answer

\* The process at r and the saved record.
Synced(r, p) ==
    /\ r.pc = "none" => r = NoRun
    /\ r.pc # "none" =>
         /\ broker = "up" /\ p.status \in Underway
         /\ r.record.status # "none" /\ r.record.owner = p.owner
         /\ \A k \in Subtasks : p.child[k] # "none" => r.record.child[k] # "none"
         /\ \A k \in Subtasks : p.child[k] \in Final => r.record.child[k] \in Final
         /\ r.pc \notin {"orphan", "unwind", "catch"} \/ ~ input.faults => r.record = p
    /\ r.pc \notin {"none", "catch"} => r.record.status \in Underway
    /\ r.pc \in {"orphan", "unwind"} \/ r.error = "persistence" \/ r.rv = "orphan" => input.faults

\* What it launched, and what is at work without it.
LaunchInv(r, js) ==
    /\ r.next # 0
    /\ r.pc \in {"handoff", "plan", "skip"} => r.next = 1 /\ r.active = {}
    /\ \A k \in r.active : k <= input.plan /\ r.record.child[k] # "none"
    /\ r.pc \in {"admit", "record", "follow", "orphan"} => r.next <= input.plan
    /\ r.pc \in {"loop", "admit", "record", "follow"} =>
         \A k \in Subtasks :
            /\ k < r.next => r.record.child[k] # "none"
            /\ Works(js, k) /\ r.record.child[k] \notin Final => k \in r.active \/ k >= r.next
    /\ r.pc \in {"admit", "record"} => r.record.child[r.next] = "none"
    /\ r.pc = "admit" => Cardinality(r.active) < input.concurrency
    /\ r.pc = "record" => js[r.next] # <<>>
    /\ r.pc \in {"follow", "orphan"} => r.record.child[r.next] # "none"

RunInv(r, js) ==
    /\ r \in Run /\ NamesJobs(r.record, js)
    /\ LaunchInv(r, js)
    /\ r.rv \notin {"idle", "done", "threw"} \/ r.vl \notin {"idle", "done", "threw"} => r.pc = "evidence"
    /\ r.rv \in {"record", "wait", "orphan"} => js[0] # <<>>
    /\ ~ input.faults /\ r.aborted => requested /\ r.record.evidence
    /\ r.pc = "refused" => requested

\* The first process, undisturbed: what it launched it follows, and what it began it ends.
Undisturbed(r, p, js) ==
    crashes = 0 /\ ~ input.faults =>
        /\ r.pc \in {"handoff", "plan", "skip"} => \A k \in Numbered : js[k] = <<>>
        /\ r.pc \in {"loop", "admit"} => \A k \in Subtasks : k >= r.next => js[k] = <<>>
        /\ r.pc \in {"record", "follow"} => \A k \in Subtasks : k > r.next => js[k] = <<>>
        /\ r.pc \in {"post", "evidence", "finish", "refused", "catch"} =>
             \A k \in Subtasks : ~ Works(js, k)
        /\ Works(js, 0) => r.pc = "evidence" /\ r.rv \in {"record", "wait"}
        /\ p.status \in Final => \A k \in Numbered : ~ Works(js, k)
        /\ p.review = "pending" => r.pc = "evidence" /\ r.rv = "wait"
        /\ p.validation = "pending" => r.pc = "evidence" /\ r.vl \in {"slot", "work"}

StateInv(r, p, js) ==
    /\ JobsInv(p, js) /\ ParentInv(p, js)
    /\ Synced(r, p) /\ RunInv(r, js) /\ Undisturbed(r, p, js)

OrchInv == EnvInv /\ CallsInv /\ StateInv(run, parent, jobs)

-----------------------------------------------------------------------------
(* Facts every step reads.                                                 *)

LEMMA InputFacts ==
    ASSUME EnvInv
    PROVE  /\ MaxSubtasks \in Nat /\ Subtasks \subseteq Numbered /\ 0 \in Numbered /\ 0 \notin Subtasks
           /\ input.plan \in 0..MaxSubtasks /\ input.concurrency \in Nat /\ input.concurrency # 0
           /\ input.faults \in BOOLEAN /\ input.review \in BOOLEAN /\ input.validation \in BOOLEAN
           /\ \A k \in Nat : k # 0 /\ k <= input.plan => k \in Subtasks
           /\ IsFiniteSet(Subtasks)
<1>1. MaxSubtasks \in Nat /\ IsFiniteSet(Subtasks)
  BY OrchestrationAssumption, FS_Interval DEF Subtasks
<1>2. input \in [plan: 0..MaxSubtasks, concurrency: Nat \ {0}, review: BOOLEAN,
                 validation: BOOLEAN, faults: BOOLEAN, crashes: Nat]
  BY OrchestrationAssumption DEF EnvInv
<1>. QED BY <1>1, <1>2 DEF Subtasks, Numbered

\* The fields of the process's state.
LEMMA RunFields ==
    ASSUME NEW r \in Run
    PROVE  /\ r.pc \in Steps /\ r.record \in OrchestrationRecord /\ r.next \in Nat
           /\ r.active \in SUBSET Subtasks /\ r.started \in SUBSET (0..MaxSubtasks)
           /\ r.aborted \in BOOLEAN /\ r.error \in {"none", "plain", "persistence"}
           /\ r.rv \in Threads /\ r.vl \in Threads
BY DEF Run

LEMMA RecordFields ==
    ASSUME NEW r \in OrchestrationRecord
    PROVE  /\ r.status \in {"none", "queued", "dispatching"} \cup Final /\ r.owner \in SUBSET Callers
           /\ r.accepted \in BOOLEAN /\ r.dispatched \in BOOLEAN
           /\ r.child \in [Subtasks -> {"none", "active"} \cup Final]
           /\ r.childJob \in [Subtasks -> Nat] /\ r.evidence \in BOOLEAN
           /\ r.review \in Evidence /\ r.validation \in Evidence
BY DEF OrchestrationRecord

\* A Job that ended, and a subtask that has a Job.
LEMMA JobFacts ==
    ASSUME NEW js, JobsTyped(js), NEW k \in Numbered
    PROVE  /\ js[k] # <<>> => js[k] = <<js[k][1]>> /\ js[k][1] \in Job /\ DOMAIN js[k] = {1} /\ Len(js[k]) = 1
           /\ js[k] = <<>> => DOMAIN js[k] = {} /\ Len(js[k]) = 0
           /\ Works(js, k) <=> js[k] # <<>> /\ js[k][1].status = "active"
<1>1. CASE js[k] = <<>>
  BY <1>1 DEF Works
<1>2. CASE js[k] # <<>>
  <2>1. PICK job \in Job : js[k] = <<job>>
    BY <1>2 DEF JobsTyped
  <2>. QED BY <1>2, <2>1 DEF Works
<1>. QED BY <1>1, <1>2

LEMMA WorkingFinite ==
    ASSUME EnvInv, NEW S, S \subseteq Subtasks
    PROVE  IsFiniteSet(S) /\ Cardinality(S) \in Nat
BY InputFacts, FS_Subset, FS_CardinalityType

\* What no record takes back and no Job that ended counts again.
LEMMA CountedShrinks ==
    ASSUME EnvInv, NEW p, NEW js, NEW q, NEW ks,
           Cardinality(Counted(p, js)) <= input.concurrency,
           \A k \in Subtasks : Works(ks, k) => Works(js, k),
           \A k \in Subtasks : p.child[k] \in Final => q.child[k] \in Final
    PROVE  Cardinality(Counted(q, ks)) <= input.concurrency
<1>1. Counted(q, ks) \subseteq Counted(p, js) /\ Counted(p, js) \subseteq Subtasks
  BY DEF Counted
<1>2. IsFiniteSet(Counted(p, js)) /\ Cardinality(Counted(p, js)) \in Nat
  BY <1>1, WorkingFinite
<1>3. Cardinality(Counted(q, ks)) <= Cardinality(Counted(p, js)) /\ Cardinality(Counted(q, ks)) \in Nat
  BY <1>1, <1>2, FS_Subset, FS_CardinalityType
<1>. QED BY <1>2, <1>3, InputFacts

-----------------------------------------------------------------------------
(* What the invariant says of the properties.                              *)

LEMMA InvGivesPlan == OrchInv => JobsWithinPlan
<1> SUFFICES ASSUME OrchInv PROVE JobsWithinPlan
  OBVIOUS
<1>1. /\ EnvInv /\ CallsInv /\ JobsInv(parent, jobs) /\ ParentInv(parent, jobs)
      /\ RunInv(run, jobs) /\ JobsTyped(jobs) /\ NamesJobs(parent, jobs)
  BY DEF OrchInv, StateInv, JobsInv, ParentInv
<1>2. ASSUME NEW k \in Numbered PROVE jobs[k] \in Seq(Job) /\ Len(jobs[k]) <= 1
  <2>1. CASE jobs[k] = <<>>
    BY <2>1
  <2>2. CASE jobs[k] # <<>>
    <3>1. PICK job \in Job : jobs[k] = <<job>>
      BY <1>1, <2>2 DEF JobsTyped
    <3>. QED BY <3>1
  <2>. QED BY <2>1, <2>2
<1>3. jobs \in [0..MaxSubtasks -> Seq(Job)]
  BY <1>1, <1>2 DEF JobsTyped, Numbered
<1>4. OrchTypeOK
  BY <1>1, <1>3 DEF OrchTypeOK, EnvInv, CallsInv, RunInv, NamesJobs
<1>5. AdmittedSnapshotKept
  <2>1. parent.owner \subseteq Callers
    BY <1>1, RecordFields DEF NamesJobs
  <2>. QED BY <1>1, <2>1 DEF AdmittedSnapshotKept, CallsInv
<1>6. OneJobPerSubtask
  <2>1. ASSUME NEW k \in Subtasks PROVE parent.childJob[k] \in {0} \cup DOMAIN jobs[k]
    BY <1>1, InputFacts, JobFacts DEF NamesJobs
  <2>. QED BY <1>2, <2>1 DEF OneJobPerSubtask, Numbered
<1>7. ConcurrencyBound
  <2>1. \A k \in Subtasks : Active(k) # {} <=> Works(jobs, k)
    BY DEF Active, Works
  <2>2. /\ {k \in Subtasks : Active(k) # {}} = Working(jobs)
        /\ {k \in Subtasks : Active(k) # {} /\ parent.child[k] \notin Final} = Counted(parent, jobs)
    BY <2>1 DEF Working, Counted
  <2>3. ~ input.faults => Working(jobs) = Counted(parent, jobs)
    <3>1. ASSUME ~ input.faults, NEW k \in Subtasks, Works(jobs, k), parent.child[k] \in Final
          PROVE  FALSE
      BY <1>1, <3>1, InputFacts, JobFacts DEF ParentInv, Agrees, Final
    <3>. QED BY <3>1 DEF Working, Counted
  <2>. QED BY <1>1, <2>2, <2>3 DEF ConcurrencyBound, JobsInv
<1>. QED BY <1>4, <1>5, <1>6, <1>7 DEF JobsWithinPlan

LEMMA InvGivesRest == OrchInv => ChildrenAgree /\ UninterruptedLeavesNothing /\ OutcomeOnRecord
<1> SUFFICES ASSUME OrchInv PROVE ChildrenAgree /\ UninterruptedLeavesNothing /\ OutcomeOnRecord
  OBVIOUS
<1>1. /\ EnvInv /\ JobsInv(parent, jobs) /\ ParentInv(parent, jobs) /\ Undisturbed(run, parent, jobs)
      /\ RunInv(run, jobs) /\ Synced(run, parent) /\ NamesJobs(parent, jobs)
  BY DEF OrchInv, StateInv, ParentInv
<1>2. ChildrenAgree
  <2>1. ASSUME ~ input.faults, NEW k \in Subtasks, parent.child[k] \in Final
        PROVE  jobs[k][parent.childJob[k]].status = parent.child[k]
    BY <1>1, <2>1 DEF ParentInv, NamesJobs, Agrees, Final
  <2>2. ASSUME parent.status = "succeeded", NEW k \in 1..input.plan
        PROVE  parent.child[k] = "succeeded"
    BY <1>1, <2>2, InputFacts DEF ParentInv
  <2>. QED BY <2>1, <2>2 DEF ChildrenAgree
<1>3. UninterruptedLeavesNothing
  <2> SUFFICES ASSUME crashes = 0, ~ input.faults, parent.status \in Final
               PROVE  SettlesAfterItsJobs /\ "pending" \notin {parent.review, parent.validation}
    BY DEF UninterruptedLeavesNothing
  <2>1. run.pc = "none"
    BY <1>1 DEF Synced, Underway, Final
  <2>2. \A k \in 0..MaxSubtasks : Active(k) = {}
    BY <1>1 DEF Undisturbed, Numbered, Works, Active
  <2>. QED BY <1>1, <2>1, <2>2 DEF Undisturbed, SettlesAfterItsJobs
<1>4. OutcomeOnRecord
  BY <1>1 DEF ParentInv, OutcomeOnRecord, CancelledWithEvidence, AnswerRecorded
<1>. QED BY <1>2, <1>3, <1>4

-----------------------------------------------------------------------------
(* Frames: what is left to show of a step.                                 *)

\* The environment stays: what remains is the invariant of the new state.
LEMMA Moves ==
    ASSUME OrchInv, UNCHANGED envVars, NEW r, NEW p, NEW js, run' = r, parent' = p, jobs' = js,
           StateInv(r, p, js), p.owner = parent.owner, p.status = "none" => p = parent
    PROVE  OrchInv'
<1>1. EnvInv'
  BY DEF OrchInv, EnvInv, envVars
<1>2. CallsInv'
  BY DEF OrchInv, CallsInv, envVars
<1>3. StateInv(run, parent, jobs)'
  BY DEF StateInv, JobsInv, ParentInv, Synced, RunInv, LaunchInv, Undisturbed, envVars
<1>. QED BY <1>1, <1>2, <1>3 DEF OrchInv

\* Only the process goes on.
LEMMA RunMoves ==
    ASSUME OrchInv, UNCHANGED <<envVars, parent, jobs>>, NEW r, run' = r,
           Synced(r, parent), RunInv(r, jobs), Undisturbed(r, parent, jobs)
    PROVE  OrchInv'
<1>1. StateInv(r, parent, jobs)
  BY DEF OrchInv, StateInv
<1>. QED BY <1>1, Moves

\* The process goes on and saves its record rec, with the children it had.
LEMMA RunSaves ==
    ASSUME OrchInv, UNCHANGED <<envVars, jobs>>, NEW r, NEW rec, run' = r, parent' = rec,
           run.pc # "none", r.pc # "none", r.record = rec, rec \in OrchestrationRecord,
           rec.owner = mem.owner, rec.child = mem.child, rec.childJob = mem.childJob,
           rec.status \in Underway,
           r.pc \in {"orphan", "unwind"} \/ r.error = "persistence" \/ r.rv = "orphan" => input.faults,
           RunInv(r, jobs), Undisturbed(r, rec, jobs)
    PROVE  OrchInv'
<1>1. /\ JobsInv(parent, jobs) /\ ParentInv(parent, jobs) /\ Synced(run, parent) /\ broker = "up"
      /\ NamesJobs(rec, jobs) /\ (~ input.faults => mem = parent)
  BY DEF OrchInv, StateInv, Synced, RunInv, mem
<1>2. /\ rec.owner = parent.owner
      /\ \A k \in Subtasks : parent.child[k] # "none" => rec.child[k] # "none"
      /\ \A k \in Subtasks : parent.child[k] \in Final => rec.child[k] \in Final
  BY <1>1 DEF Synced, mem
<1>3. JobsInv(rec, jobs)
  <2>1. Cardinality(Counted(rec, jobs)) <= input.concurrency
    BY <1>1, <1>2, CountedShrinks DEF JobsInv, OrchInv
  <2>. QED BY <1>1, <1>2, <2>1 DEF JobsInv, Underway
<1>4. ParentInv(rec, jobs)
  <2>1. ~ input.faults => Agrees(rec, jobs)
    BY <1>1 DEF ParentInv, Agrees
  <2>. QED BY <1>1, <2>1 DEF ParentInv, Underway, Synced
<1>5. Synced(r, rec)
  <2>1. /\ r.record.owner = rec.owner /\ r.record.status \in Underway /\ r.record.status # "none"
        /\ \A k \in Subtasks : rec.child[k] # "none" => r.record.child[k] # "none"
        /\ \A k \in Subtasks : rec.child[k] \in Final => r.record.child[k] \in Final
    BY DEF Underway
  <2>. QED BY <1>1, <2>1 DEF Synced
<1>6. StateInv(r, rec, jobs)
  BY <1>3, <1>4, <1>5 DEF StateInv
<1>7. rec.owner = parent.owner /\ rec.status # "none"
  BY <1>2 DEF Underway
<1>. QED BY <1>6, <1>7, Moves

-----------------------------------------------------------------------------
(* The Jobs go on by themselves.                                           *)

\* In js every subtask has the Job it had, and none works that did not.
Eases(js) ==
    /\ JobsTyped(js)
    /\ \A k \in Numbered :
         /\ js[k] = <<>> <=> jobs[k] = <<>>
         /\ Works(js, k) => Works(jobs, k)
         /\ jobs[k] # <<>> /\ jobs[k][1].status \in Final => js[k][1].status = jobs[k][1].status
         /\ ~ input.faults /\ broker \in {"parents", "up"} /\ Works(js, k) => js[k][1].running

LEMMA JobsEase ==
    ASSUME EnvInv, NEW r, NEW p, StateInv(r, p, jobs), NEW js, Eases(js)
    PROVE  StateInv(r, p, js)
<1>1. /\ JobsInv(p, jobs) /\ ParentInv(p, jobs) /\ RunInv(r, jobs) /\ JobsTyped(jobs) /\ JobsTyped(js)
      /\ NamesJobs(p, jobs) /\ NamesJobs(r.record, jobs) /\ r \in Run
  BY DEF StateInv, JobsInv, ParentInv, RunInv, Eases
<1>2. ASSUME NEW k \in Subtasks
      PROVE  /\ k \in Numbered /\ (js[k] = <<>> <=> jobs[k] = <<>>)
             /\ Works(js, k) => Works(jobs, k)
             /\ jobs[k] # <<>> /\ jobs[k][1].status \in Final => js[k][1].status = jobs[k][1].status
  BY InputFacts DEF Eases
<1>3. JobsInv(p, js)
  <2>1. Cardinality(Counted(p, js)) <= input.concurrency
    BY <1>1, <1>2, CountedShrinks DEF JobsInv
  <2>2. ~ input.faults /\ broker \in {"parents", "up"} =>
           \A k \in Numbered : \A i \in DOMAIN js[k] : js[k][i].status = "active" => js[k][i].running
    <3> SUFFICES ASSUME ~ input.faults, broker \in {"parents", "up"}, NEW k \in Numbered,
                        NEW i \in DOMAIN js[k], js[k][i].status = "active"
                 PROVE  js[k][i].running
      OBVIOUS
    <3>1. i = 1 /\ Works(js, k)
      BY <1>1, JobFacts
    <3>. QED BY <3>1 DEF Eases
  <2>3. p.status = "none" => \A k \in Numbered : js[k] = <<>>
    BY <1>1 DEF JobsInv, Eases
  <2>. QED BY <1>1, <1>2, <2>1, <2>2, <2>3 DEF JobsInv
<1>4. NamesJobs(p, js) /\ NamesJobs(r.record, js)
  BY <1>1, <1>2 DEF NamesJobs
<1>5. ParentInv(p, js)
  <2>1. Agrees(p, jobs) => Agrees(p, js)
    BY <1>1, <1>2 DEF Agrees, NamesJobs, Final
  <2>. QED BY <1>1, <1>4, <2>1 DEF ParentInv
<1>6. RunInv(r, js)
  <2>1. r.next \in Nat /\ (r.pc = "record" => r.next \in Subtasks)
    BY <1>1, InputFacts, RunFields DEF RunInv, LaunchInv
  <2>2. LaunchInv(r, js)
    BY <1>1, <1>2, <2>1 DEF RunInv, LaunchInv
  <2>3. js[0] = <<>> <=> jobs[0] = <<>>
    BY InputFacts DEF Eases
  <2>. QED BY <1>1, <1>4, <2>2, <2>3 DEF RunInv
<1>7. Undisturbed(r, p, js)
  <2>1. \A k \in Numbered : (js[k] = <<>> <=> jobs[k] = <<>>) /\ (Works(js, k) => Works(jobs, k))
    BY DEF Eases
  <2>2. Undisturbed(r, p, jobs) /\ Subtasks \subseteq Numbered /\ 0 \in Numbered
    BY InputFacts DEF StateInv
  <2>. QED BY <2>1, <2>2 DEF Undisturbed
<1>. QED BY <1>3, <1>5, <1>6, <1>7 DEF StateInv

\* The process goes to r, if anywhere, while the Jobs go on.
LEMMA EasesMoves ==
    ASSUME OrchInv, UNCHANGED <<envVars, parent>>, NEW js, jobs' = js, Eases(js),
           NEW r, run' = r, StateInv(r, parent, jobs)
    PROVE  OrchInv'
<1>1. StateInv(r, parent, js)
  BY JobsEase DEF OrchInv
<1>. QED BY <1>1, Moves

LEMMA EasesKeeps ==
    ASSUME OrchInv, UNCHANGED <<envVars, parent, run>>, NEW js, jobs' = js, Eases(js)
    PROVE  OrchInv'
<1>1. StateInv(run, parent, jobs)
  BY DEF OrchInv
<1>. QED BY <1>1, EasesMoves

\* The Job of subtask k becomes job.
LEMMA OneJobEases ==
    ASSUME OrchInv, NEW k \in Numbered, jobs[k] # <<>>, NEW job \in Job,
           NEW js, js = [jobs EXCEPT ![k] = <<job>>],
           job.status = "active" => jobs[k][1].status = "active",
           jobs[k][1].status \in Final => job.status = jobs[k][1].status,
           ~ input.faults /\ broker \in {"parents", "up"} /\ job.status = "active" => job.running
    PROVE  Eases(js)
<1>1. JobsTyped(jobs)
  BY DEF OrchInv, StateInv, JobsInv
<1>2. js[k] = <<job>> /\ \A i \in Numbered \ {k} : js[i] = jobs[i]
  BY <1>1 DEF JobsTyped
<1>3. JobsTyped(js)
  BY <1>1, <1>2 DEF JobsTyped
<1>4. ASSUME NEW i \in Numbered, i # k
      PROVE  ~ input.faults /\ broker \in {"parents", "up"} /\ Works(js, i) => js[i][1].running
  <2>1. DOMAIN jobs[i] = {1} \/ DOMAIN jobs[i] = {}
    BY <1>1, JobFacts
  <2>. QED BY <1>2, <1>4, <2>1 DEF OrchInv, StateInv, JobsInv, Works
<1>5. /\ Works(js, k) => job.status = "active"
      /\ jobs[k][1].status = "active" => Works(jobs, k)
  <2>1. js[k][1] = job
    BY <1>2
  <2>2. Works(js, k) => js[k][1].status = "active"
    BY <1>3, JobFacts
  <2>3. jobs[k][1].status = "active" => Works(jobs, k)
    BY <1>1, JobFacts
  <2>. QED BY <2>1, <2>2, <2>3
<1>6. \A i \in Numbered \ {k} : Works(js, i) <=> Works(jobs, i)
  BY <1>2 DEF Works
<1>7. ASSUME NEW i \in Numbered
      PROVE  /\ js[i] = <<>> <=> jobs[i] = <<>>
             /\ Works(js, i) => Works(jobs, i)
             /\ jobs[i] # <<>> /\ jobs[i][1].status \in Final => js[i][1].status = jobs[i][1].status
             /\ ~ input.faults /\ broker \in {"parents", "up"} /\ Works(js, i) => js[i][1].running
  <2>1. CASE i = k
    <3>1. js[i] # <<>> /\ jobs[i] # <<>> /\ js[i][1] = job
      BY <1>2, <2>1
    <3>. QED BY <1>5, <2>1, <3>1
  <2>2. CASE i # k
    BY <1>2, <1>4, <1>6, <2>2
  <2>. QED BY <2>1, <2>2
<1>. QED BY <1>3, <1>7 DEF Eases

\* An abort asks the Job of subtask k to end, if it has one and it works.
LEMMA AbortEases ==
    ASSUME OrchInv, NEW k \in Numbered, Abort(k), NEW js, js = jobs'
    PROVE  Eases(js)
<1>1. JobsTyped(jobs)
  BY DEF OrchInv, StateInv, JobsInv
<1>2. js = [jobs EXCEPT ![k] = [i \in DOMAIN jobs[k] |->
              IF jobs[k][i].status = "active" THEN [jobs[k][i] EXCEPT !.cancel = TRUE] ELSE jobs[k][i]]]
  BY DEF Abort
<1>3. CASE jobs[k] = <<>>
  <2>1. js[k] = <<>> /\ \A i \in Numbered : i # k => js[i] = jobs[i]
    BY <1>1, <1>2, <1>3 DEF JobsTyped
  <2>2. js = jobs
    BY <1>1, <1>2, <1>3, <2>1 DEF JobsTyped
  <2>3. ASSUME NEW i \in Numbered, ~ input.faults, broker \in {"parents", "up"}, Works(jobs, i)
        PROVE  jobs[i][1].running
    <3>1. 1 \in DOMAIN jobs[i] /\ jobs[i][1].status = "active"
      BY <1>1, <2>3, JobFacts
    <3>. QED BY <2>3, <3>1 DEF OrchInv, StateInv, JobsInv
  <2>. QED BY <1>1, <2>2, <2>3 DEF Eases
<1>4. CASE jobs[k] # <<>>
  <2>1. jobs[k][1] \in Job /\ DOMAIN jobs[k] = {1}
    BY <1>1, <1>4, JobFacts
  <2>2. PICK job : job = IF jobs[k][1].status = "active" THEN [jobs[k][1] EXCEPT !.cancel = TRUE]
                         ELSE jobs[k][1]
    OBVIOUS
  <2>3. job \in Job /\ job.status = jobs[k][1].status /\ job.running = jobs[k][1].running
    BY <2>1, <2>2 DEF Job
  <2>4. [i \in DOMAIN jobs[k] |->
           IF jobs[k][i].status = "active" THEN [jobs[k][i] EXCEPT !.cancel = TRUE] ELSE jobs[k][i]] = <<job>>
    <3>1. DOMAIN jobs[k] = {1} /\ \A i \in {1} :
            (IF jobs[k][i].status = "active" THEN [jobs[k][i] EXCEPT !.cancel = TRUE] ELSE jobs[k][i]) = job
      BY <2>1, <2>2
    <3>2. [i \in {1} |-> job] = <<job>>
      OBVIOUS
    <3>. QED BY <3>1, <3>2, Zenon
  <2>5. js = [jobs EXCEPT ![k] = <<job>>]
    BY <1>2, <2>4
  <2>6. ~ input.faults /\ broker \in {"parents", "up"} /\ job.status = "active" => job.running
    BY <2>1, <2>3 DEF OrchInv, StateInv, JobsInv
  <2>. QED BY <1>4, <2>3, <2>5, <2>6, OneJobEases
<1>. QED BY <1>3, <1>4

\* A Job that no execution works on runs on, or settles.
LEMMA RecoverStoppedEases ==
    ASSUME OrchInv, NEW k \in Numbered, NEW mayRun, RecoverStopped(k, mayRun), NEW js, js = jobs'
    PROVE  Eases(js)
<1>1. JobsTyped(jobs)
  BY DEF OrchInv, StateInv, JobsInv
<1>2. PICK i \in Active(k) :
        \/ js = [jobs EXCEPT ![k] = [jobs[k] EXCEPT ![i] = [jobs[k][i] EXCEPT !.running = TRUE]]]
        \/ js = [jobs EXCEPT ![k] = [jobs[k] EXCEPT ![i] = Settled(jobs[k][i])]]
  BY DEF RecoverStopped
<1>3. i = 1 /\ jobs[k] # <<>> /\ jobs[k][1] \in Job /\ jobs[k] = <<jobs[k][1]>>
      /\ jobs[k][1].status = "active"
  BY <1>1, JobFacts DEF Active
<1>4. CASE js = [jobs EXCEPT ![k] = [jobs[k] EXCEPT ![i] = [jobs[k][i] EXCEPT !.running = TRUE]]]
  <2>1. PICK job : job = [jobs[k][i] EXCEPT !.running = TRUE]
    OBVIOUS
  <2>2. job \in Job /\ job.status = "active" /\ job.running
    BY <1>3, <2>1 DEF Job
  <2>3. [jobs[k] EXCEPT ![i] = job] = <<job>>
    BY <1>3
  <2>4. js = [jobs EXCEPT ![k] = <<job>>]
    BY <1>4, <2>1, <2>3
  <2>. QED BY <1>3, <2>2, <2>4, OneJobEases DEF Final
<1>5. CASE js = [jobs EXCEPT ![k] = [jobs[k] EXCEPT ![i] = Settled(jobs[k][i])]]
  <2>1. PICK job : job = Settled(jobs[k][i])
    OBVIOUS
  <2>2. job \in Job /\ job.status \in Final
    BY <1>3, <2>1 DEF Job, Settled, Final
  <2>3. [jobs[k] EXCEPT ![i] = job] = <<job>>
    BY <1>3
  <2>4. js = [jobs EXCEPT ![k] = <<job>>]
    BY <1>5, <2>1, <2>3
  <2>. QED BY <1>3, <2>2, <2>4, OneJobEases DEF Final
<1>. QED BY <1>2, <1>4, <1>5

\* The process goes to r and leaves the Job of subtask k alone, or takes it over, or aborts it.
LEMMA StepWithJob ==
    ASSUME OrchInv, NEW k \in Numbered, UNCHANGED <<envVars, parent>>,
           UNCHANGED jobs \/ Abort(k) \/ RecoverStopped(k, TRUE) \/ RecoverStopped(k, FALSE),
           NEW r, run' = r, StateInv(r, parent, jobs)
    PROVE  OrchInv'
<1>1. CASE UNCHANGED jobs
  BY <1>1, Moves
<1>2. CASE Abort(k) \/ RecoverStopped(k, TRUE) \/ RecoverStopped(k, FALSE)
  <2>1. PICK js : js = jobs'
    OBVIOUS
  <2>2. Eases(js)
    BY <1>2, <2>1, AbortEases, RecoverStoppedEases
  <2>. QED BY <2>1, <2>2, EasesMoves
<1>. QED BY <1>1, <1>2

\* The Jobs run, end, fail and are recovered.
LEMMA JobsGoOn ==
    ASSUME OrchInv, NEW k \in Numbered,
           CancelJob(k) \/ JobSettles(k) \/ JobGivesUp(k) \/ RecoverJob(k)
    PROVE  OrchInv'
<1>1. JobsTyped(jobs)
  BY DEF OrchInv, StateInv, JobsInv
<1>2. PICK js : js = jobs'
  OBVIOUS
<1>11. ASSUME NEW i \in Active(k)
       PROVE  jobs[k] # <<>> /\ i = 1 /\ jobs[k][i] \in Job /\ jobs[k][i].status = "active"
  BY <1>1, JobFacts DEF Active
<1>3. CASE CancelJob(k)
  <2>1. Eases(js)
    BY <1>2, <1>3, AbortEases DEF CancelJob
  <2>. QED BY <1>2, <1>3, <2>1, EasesKeeps DEF CancelJob
<1>4. ASSUME NEW i \in Active(k), NEW status \in Final, NEW patch \in BOOLEAN,
             js = [jobs EXCEPT ![k] = [jobs[k] EXCEPT ![i] =
                      [jobs[k][i] EXCEPT !.status = status, !.running = FALSE, !.patch = patch]]]
      PROVE  Eases(js)
  <2>1. i = 1 /\ jobs[k] # <<>> /\ jobs[k][1] \in Job /\ jobs[k] = <<jobs[k][1]>>
        /\ jobs[k][1].status = "active"
    BY <1>1, JobFacts DEF Active
  <2>2. PICK job : job = [jobs[k][i] EXCEPT !.status = status, !.running = FALSE, !.patch = patch]
    OBVIOUS
  <2>3. job \in Job /\ job.status = status
    BY <2>1, <2>2 DEF Job
  <2>4. [jobs[k] EXCEPT ![i] = job] = <<job>>
    BY <2>1
  <2>. QED BY <1>4, <2>1, <2>2, <2>3, <2>4, OneJobEases DEF Final
<1>5. ASSUME NEW i \in Active(k), NEW job \in Job, job.status = "active", input.faults,
             js = [jobs EXCEPT ![k] = [jobs[k] EXCEPT ![i] = job]]
      PROVE  Eases(js)
  <2>1. i = 1 /\ jobs[k] # <<>> /\ jobs[k] = <<jobs[k][1]>> /\ jobs[k][1].status = "active"
    BY <1>1, JobFacts DEF Active
  <2>2. [jobs[k] EXCEPT ![i] = job] = <<job>>
    BY <2>1
  <2>. QED BY <1>5, <2>1, <2>2, OneJobEases DEF Final
<1>7. CASE JobSettles(k)
  <2>1. PICK i \in Active(k), status \in Final, patch \in BOOLEAN :
          js = [jobs EXCEPT ![k] = [jobs[k] EXCEPT ![i] =
                  [jobs[k][i] EXCEPT !.status = status, !.running = FALSE, !.patch = patch]]]
    BY <1>2, <1>7, Zenon DEF JobSettles
  <2>2. Eases(js)
    BY <1>4, <2>1
  <2>3. UNCHANGED <<envVars, parent, run>>
    BY <1>7, Zenon DEF JobSettles
  <2>. QED BY <1>2, <2>2, <2>3, EasesKeeps
<1>8. CASE JobGivesUp(k)
  <2>1. PICK i \in Active(k) :
          js = [jobs EXCEPT ![k] = [jobs[k] EXCEPT ![i] = [jobs[k][i] EXCEPT !.running = FALSE]]]
    BY <1>2, <1>8 DEF JobGivesUp
  <2>2. PICK job : job = [jobs[k][i] EXCEPT !.running = FALSE]
    OBVIOUS
  <2>3. job \in Job /\ job.status = "active"
    BY <1>11, <2>2 DEF Job
  <2>4. Eases(js)
    BY <1>5, <1>8, <2>1, <2>2, <2>3 DEF JobGivesUp
  <2>. QED BY <1>2, <1>8, <2>4, EasesKeeps DEF JobGivesUp
<1>9. CASE RecoverJob(k)
  <2>1. Eases(js)
    BY <1>2, <1>9, RecoverStoppedEases DEF RecoverJob
  <2>. QED BY <1>2, <1>9, <2>1, EasesKeeps DEF RecoverJob
<1>. QED BY <1>3, <1>7, <1>8, <1>9

-----------------------------------------------------------------------------
(* Steps of the process that save nothing.                                 *)

\* What holds of a living process.
LEMMA Living ==
    ASSUME OrchInv, run.pc # "none"
    PROVE  /\ EnvInv /\ JobsTyped(jobs) /\ run \in Run /\ mem \in OrchestrationRecord
           /\ broker = "up" /\ parent.status \in Underway
           /\ NamesJobs(mem, jobs) /\ NamesJobs(parent, jobs)
           /\ Synced(run, parent) /\ RunInv(run, jobs) /\ LaunchInv(run, jobs)
           /\ Undisturbed(run, parent, jobs) /\ JobsInv(parent, jobs) /\ ParentInv(parent, jobs)
           /\ ~ input.faults => mem = parent
           /\ run.pc \notin {"orphan", "unwind", "catch"} => mem = parent
BY RunFields DEF OrchInv, StateInv, Synced, RunInv, JobsInv, ParentInv, NamesJobs, mem

LEMMA ThrowIfAbortedKeeps == OrchInv /\ ThrowIfAborted => OrchInv'
<1> SUFFICES ASSUME OrchInv, ThrowIfAborted PROVE OrchInv'
  OBVIOUS
<1>1. PICK r : r = [run EXCEPT !.pc = "catch", !.error = "plain"]
  OBVIOUS
<1>2. run' = r /\ UNCHANGED <<envVars, parent, jobs>> /\ run.pc \in {"handoff", "plan", "post", "finish"}
  BY <1>1 DEF ThrowIfAborted, Throw, RunAt
<1>3. /\ r \in Run /\ r.pc = "catch" /\ r.error = "plain" /\ r.record = mem /\ r.next = run.next
      /\ r.active = run.active /\ r.aborted = run.aborted /\ r.rv = run.rv /\ r.vl = run.vl
  BY <1>1, <1>2, Living DEF Run, Steps, mem
<1>4. Synced(r, parent)
  BY <1>2, <1>3, Living DEF Synced, mem
<1>5. RunInv(r, jobs)
  BY <1>2, <1>3, Living DEF RunInv, LaunchInv, mem
<1>6. Undisturbed(r, parent, jobs)
  BY <1>2, <1>3, Living, InputFacts, JobFacts DEF Undisturbed, RunInv
<1>. QED BY <1>2, <1>4, <1>5, <1>6, RunMoves

LEMMA MonitorFailsKeeps == OrchInv /\ MonitorFails => OrchInv'
<1> SUFFICES ASSUME OrchInv, MonitorFails PROVE OrchInv'
  OBVIOUS
<1>1. PICK r : r = [run EXCEPT !.aborted = TRUE]
  OBVIOUS
<1>2. run' = r /\ UNCHANGED <<envVars, parent, jobs>> /\ run.pc # "none" /\ input.faults
  BY <1>1 DEF MonitorFails
<1>3. /\ r \in Run /\ r.pc = run.pc /\ r.error = run.error /\ r.record = mem /\ r.next = run.next
      /\ r.active = run.active /\ r.rv = run.rv /\ r.vl = run.vl
  BY <1>1, <1>2, Living DEF Run, mem
<1>4. Synced(r, parent)
  BY <1>2, <1>3, Living DEF Synced, mem
<1>5. RunInv(r, jobs)
  BY <1>2, <1>3, Living DEF RunInv, LaunchInv, mem
<1>6. Undisturbed(r, parent, jobs)
  BY <1>2 DEF Undisturbed
<1>. QED BY <1>2, <1>4, <1>5, <1>6, RunMoves

\* Where the loop launches, the next subtask is one of the plan.
LEMMA LaunchFacts ==
    ASSUME OrchInv, MayLaunch
    PROVE  /\ run.pc = "loop" /\ run.next \in Subtasks /\ run.next + 1 \in Nat /\ run.next <= input.plan
           /\ Cardinality(run.active) < input.concurrency
           /\ mem.child[run.next] # "none" => ChildJob(run.next) = jobs[run.next][1] /\ jobs[run.next] # <<>>
<1>1. run.pc = "loop" /\ run.next \in Nat /\ run.next # 0 /\ run.next <= input.plan
  BY Living, RunFields DEF MayLaunch, RunAt, LaunchInv
<1>2. run.next \in Subtasks
  BY <1>1, Living, InputFacts
<1>. QED BY <1>1, <1>2, Living DEF MayLaunch, ChildJob, NamesJobs

LEMMA LaunchSettledKeeps == OrchInv /\ LaunchSettled => OrchInv'
<1> SUFFICES ASSUME OrchInv, LaunchSettled PROVE OrchInv'
  OBVIOUS
<1>1. /\ run.pc = "loop" /\ run.next \in Subtasks /\ run.next \in Numbered /\ mem.child[run.next] \in Final
      /\ ChildJob(run.next) = jobs[run.next][1] /\ UNCHANGED <<envVars, parent, jobs>>
  BY Living, LaunchFacts, InputFacts DEF LaunchSettled, MayLaunch, RunAt, Final
<1>2. CASE run' = [run EXCEPT !.next = @ + 1]
  <2>1. PICK r : r = [run EXCEPT !.next = @ + 1]
    OBVIOUS
  <2>2. run' = r
    BY <1>2, <2>1 DEF LaunchSettled
  <2>3. /\ r \in Run /\ r.pc = "loop" /\ r.error = run.error /\ r.record = mem /\ r.next = run.next + 1
        /\ r.active = run.active /\ r.rv = run.rv /\ r.vl = run.vl /\ r.aborted = run.aborted
    BY <1>1, <2>1, Living, LaunchFacts DEF Run, mem, LaunchSettled
  <2>4. Synced(r, parent)
    BY <1>1, <2>3, Living DEF Synced, mem
  <2>6. LaunchInv(r, jobs)
    <3>1. \A k \in Subtasks : k \in Nat
      BY DEF Subtasks
    <3>2. \A k \in Subtasks : k < r.next => r.record.child[k] # "none"
      BY <1>1, <2>3, <3>1, Living, RunFields DEF LaunchInv, mem, Final
    <3>3. \A k \in Subtasks :
            Works(jobs, k) /\ r.record.child[k] \notin Final => k \in r.active \/ k >= r.next
      BY <1>1, <2>3, <3>1, Living, RunFields DEF LaunchInv, mem
    <3>. QED BY <1>1, <2>3, <3>1, <3>2, <3>3, Living, RunFields DEF LaunchInv, mem
  <2>7. RunInv(r, jobs)
    BY <1>1, <2>3, <2>6, Living DEF RunInv, mem
  <2>8. Undisturbed(r, parent, jobs)
    <3>1. \A k \in Subtasks : k \in Nat
      BY DEF Subtasks
    <3>. QED BY <1>1, <2>3, <3>1, Living, RunFields DEF Undisturbed
  <2>. QED BY <1>1, <2>2, <2>4, <2>7, <2>8, RunMoves
<1>3. CASE /\ ChildJob(run.next).status # mem.child[run.next] \/ input.faults
           /\ run' = Throw("unwind", "plain")
  <2>1. input.faults
    BY <1>1, <1>3, Living DEF ParentInv, Agrees
  <2>2. PICK r : r = [run EXCEPT !.pc = "unwind", !.error = "plain"]
    OBVIOUS
  <2>3. run' = r
    BY <1>3, <2>2 DEF Throw
  <2>4. /\ r \in Run /\ r.pc = "unwind" /\ r.error = "plain" /\ r.record = mem /\ r.next = run.next
        /\ r.active = run.active /\ r.rv = run.rv /\ r.vl = run.vl /\ r.aborted = run.aborted
    BY <1>1, <2>2, Living DEF Run, Steps, mem
  <2>5. Synced(r, parent)
    BY <1>1, <2>1, <2>4, Living DEF Synced, mem
  <2>6. RunInv(r, jobs)
    BY <1>1, <2>1, <2>4, Living DEF RunInv, LaunchInv, mem
  <2>7. Undisturbed(r, parent, jobs)
    BY <2>1 DEF Undisturbed
  <2>. QED BY <1>1, <2>3, <2>5, <2>6, <2>7, RunMoves
<1>. QED BY <1>2, <1>3 DEF LaunchSettled

LEMMA LaunchKnownKeeps == OrchInv /\ LaunchKnown => OrchInv'
<1> SUFFICES ASSUME OrchInv, LaunchKnown PROVE OrchInv'
  OBVIOUS
<1>1. /\ run.pc = "loop" /\ run.next \in Subtasks /\ run.next \in Nat /\ run.next <= input.plan
      /\ mem.child[run.next] # "none" /\ UNCHANGED <<envVars, parent, jobs>>
  BY LaunchFacts, Living, RunFields DEF LaunchKnown
<1>2. PICK r : r = [run EXCEPT !.pc = "follow"]
  OBVIOUS
<1>3. run' = r
  BY <1>2 DEF LaunchKnown
<1>4. /\ r \in Run /\ r.pc = "follow" /\ r.error = run.error /\ r.record = mem /\ r.next = run.next
      /\ r.active = run.active /\ r.rv = run.rv /\ r.vl = run.vl /\ r.aborted = run.aborted
  BY <1>1, <1>2, Living DEF Run, Steps, mem
<1>5. Synced(r, parent)
  BY <1>1, <1>4, Living DEF Synced, mem
<1>6. RunInv(r, jobs)
  BY <1>1, <1>4, Living DEF RunInv, LaunchInv, mem
<1>7. Undisturbed(r, parent, jobs)
  <2>1. \A k \in Subtasks : k \in Nat
    BY DEF Subtasks
  <2>. QED BY <1>1, <1>4, <2>1, Living, RunFields DEF Undisturbed
<1>. QED BY <1>1, <1>3, <1>5, <1>6, <1>7, RunMoves

LEMMA FollowChildKeeps == OrchInv /\ FollowChild => OrchInv'
<1> SUFFICES ASSUME OrchInv, FollowChild PROVE OrchInv'
  OBVIOUS
<1>1. /\ run.pc = "follow" /\ run.next \in Subtasks /\ run.next \in Nat /\ run.next <= input.plan
      /\ run.next # 0 /\ run.next \in Numbered /\ mem.child[run.next] # "none" /\ run \in Run
      /\ UNCHANGED <<envVars, parent>>
  BY Living, RunFields, InputFacts DEF FollowChild, RunAt, LaunchInv, mem
<1>2. CASE /\ run' = [run EXCEPT !.pc = "loop", !.active = @ \cup {run.next}, !.next = @ + 1]
           /\ TakeOver(run.next, ChildJob(run.next))
  <2>1. PICK r : r = [run EXCEPT !.pc = "loop", !.active = @ \cup {run.next}, !.next = @ + 1]
    OBVIOUS
  <2>2. /\ r \in Run /\ r.pc = "loop" /\ r.error = run.error /\ r.record = mem /\ r.next = run.next + 1
        /\ r.active = run.active \cup {run.next} /\ r.rv = run.rv /\ r.vl = run.vl
        /\ r.aborted = run.aborted
    <3>1. run.active \cup {run.next} \in SUBSET Subtasks /\ run.next + 1 \in Nat
      BY <1>1, RunFields
    <3>. QED BY <1>1, <2>1, <3>1 DEF Run, Steps, mem
  <2>3. Synced(r, parent)
    BY <1>1, <2>2, Living DEF Synced, mem
  <2>4. \A k \in Subtasks : k \in Nat
    BY DEF Subtasks
  <2>5. LaunchInv(r, jobs)
    <3>1. \A k \in Subtasks : k < r.next => r.record.child[k] # "none"
      BY <1>1, <2>2, <2>4, Living, RunFields DEF LaunchInv, mem
    <3>2. \A k \in Subtasks :
            Works(jobs, k) /\ r.record.child[k] \notin Final => k \in r.active \/ k >= r.next
      BY <1>1, <2>2, <2>4, Living, RunFields DEF LaunchInv, mem
    <3>3. \A k \in r.active : k <= input.plan /\ r.record.child[k] # "none"
      BY <1>1, <2>2, Living DEF LaunchInv, mem
    <3>. QED BY <1>1, <2>2, <3>1, <3>2, <3>3 DEF LaunchInv
  <2>6. RunInv(r, jobs)
    BY <1>1, <2>2, <2>5, Living DEF RunInv, mem
  <2>7. Undisturbed(r, parent, jobs)
    BY <1>1, <2>2, <2>4, Living, RunFields DEF Undisturbed
  <2>8. StateInv(r, parent, jobs)
    BY <1>1, <2>3, <2>6, <2>7, Living DEF StateInv
  <2>. QED BY <1>1, <1>2, <2>1, <2>8, StepWithJob DEF TakeOver
<1>3. ASSUME TakeOverFails(run.next), NEW error \in TakeOverErrors(ChildJob(run.next)),
             run' = Throw("unwind", error)
      PROVE  OrchInv'
  <2>1. input.faults /\ error \in {"plain", "persistence"}
    BY <1>3 DEF TakeOverFails, TakeOverErrors
  <2>2. PICK r : r = [run EXCEPT !.pc = "unwind", !.error = error]
    OBVIOUS
  <2>3. run' = r
    BY <1>3, <2>2 DEF Throw
  <2>4. /\ r \in Run /\ r.pc = "unwind" /\ r.record = mem /\ r.next = run.next
        /\ r.active = run.active /\ r.rv = run.rv /\ r.vl = run.vl /\ r.aborted = run.aborted
    BY <1>1, <2>1, <2>2 DEF Run, Steps, mem
  <2>5. Synced(r, parent)
    BY <1>1, <2>1, <2>4, Living DEF Synced, mem
  <2>6. RunInv(r, jobs)
    BY <1>1, <2>1, <2>4, Living DEF RunInv, LaunchInv, mem
  <2>7. Undisturbed(r, parent, jobs)
    BY <2>1 DEF Undisturbed
  <2>8. StateInv(r, parent, jobs)
    BY <1>1, <2>5, <2>6, <2>7, Living DEF StateInv
  <2>. QED BY <1>1, <1>3, <2>3, <2>8, StepWithJob DEF TakeOverFails
<1>. QED BY <1>2, <1>3 DEF FollowChild

LEMMA LaunchNewKeeps == OrchInv /\ LaunchNew => OrchInv'
<1> SUFFICES ASSUME OrchInv, LaunchNew PROVE OrchInv'
  OBVIOUS
<1>1. /\ run.pc = "loop" /\ run.next \in Subtasks /\ run.next <= input.plan
      /\ Cardinality(run.active) < input.concurrency
      /\ mem.child[run.next] = "none" /\ UNCHANGED <<envVars, parent, jobs>>
  BY LaunchFacts DEF LaunchNew
<1>2. PICK r : r = [run EXCEPT !.pc = "admit"]
  OBVIOUS
<1>3. run' = r
  BY <1>2 DEF LaunchNew
<1>4. /\ r \in Run /\ r.pc = "admit" /\ r.error = run.error /\ r.record = mem /\ r.next = run.next
      /\ r.active = run.active /\ r.rv = run.rv /\ r.vl = run.vl /\ r.aborted = run.aborted
  BY <1>1, <1>2, Living DEF Run, Steps, mem
<1>5. Synced(r, parent)
  BY <1>1, <1>4, Living DEF Synced, mem
<1>6. RunInv(r, jobs)
  BY <1>1, <1>4, Living DEF RunInv, LaunchInv, mem
<1>7. Undisturbed(r, parent, jobs)
  BY <1>1, <1>4, Living DEF Undisturbed
<1>. QED BY <1>1, <1>3, <1>5, <1>6, <1>7, RunMoves

LEMMA OrphanSettlesKeeps == OrchInv /\ OrphanSettles => OrchInv'
<1> SUFFICES ASSUME OrchInv, OrphanSettles PROVE OrchInv'
  OBVIOUS
<1>1. /\ run.pc = "orphan" /\ input.faults /\ run.next \in Subtasks /\ run.next \in Numbered
      /\ mem.child[run.next] # "none" /\ UNCHANGED <<envVars, parent, jobs>>
  BY Living, RunFields, InputFacts DEF OrphanSettles, RunAt, Synced, LaunchInv, mem
<1>2. PICK status : status = IF run' = [run EXCEPT !.pc = "unwind"] THEN mem.child[run.next]
                             ELSE ChildJob(run.next).status
  OBVIOUS
<1>3. /\ status = mem.child[run.next] \/ status \in Final
      /\ status \in {"active"} \cup Final
  BY <1>1, <1>2, Living, RecordFields DEF OrphanSettles
<1>4. PICK rec : rec = [mem EXCEPT !.child = [mem.child EXCEPT ![run.next] = status]]
  OBVIOUS
<1>5. /\ rec \in OrchestrationRecord /\ rec.status = mem.status /\ rec.owner = mem.owner
      /\ rec.childJob = mem.childJob /\ rec.child = [mem.child EXCEPT ![run.next] = status]
      /\ rec.evidence = mem.evidence
  BY <1>1, <1>3, <1>4, Living, RecordFields DEF OrchestrationRecord
<1>6. PICK r : r = [run EXCEPT !.pc = "unwind", !.record = rec]
  OBVIOUS
<1>7. run' = r
  <2>1. CASE run' = [run EXCEPT !.pc = "unwind"]
    <3>1. rec = mem
      <4>1. [mem.child EXCEPT ![run.next] = status] = mem.child
        BY <1>1, <1>2, <2>1, Living, RecordFields
      <4>. QED BY <1>1, <1>4, <4>1, Living DEF OrchestrationRecord
    <3>. QED BY <1>1, <1>6, <2>1, <3>1, Living DEF Run, mem
  <2>2. CASE run' # [run EXCEPT !.pc = "unwind"]
    BY <1>1, <1>2, <1>4, <1>6, <2>2, Living DEF OrphanSettles, Run, mem
  <2>. QED BY <2>1, <2>2
<1>8. /\ r \in Run /\ r.pc = "unwind" /\ r.error = run.error /\ r.record = rec /\ r.next = run.next
      /\ r.active = run.active /\ r.rv = run.rv /\ r.vl = run.vl /\ r.aborted = run.aborted
  BY <1>1, <1>5, <1>6, Living DEF Run, Steps, mem
<1>9. \A k \in Subtasks : /\ rec.child[k] = "none" <=> mem.child[k] = "none"
                          /\ mem.child[k] \in Final => rec.child[k] \in Final
  BY <1>1, <1>3, <1>5, Living, RecordFields DEF Final
<1>10. Synced(r, parent)
  BY <1>1, <1>5, <1>8, <1>9, Living DEF Synced, mem
<1>11. NamesJobs(rec, jobs)
  <2>1. NamesJobs(mem, jobs)
    BY <1>1, Living
  <2>2. ASSUME NEW k \in Subtasks
        PROVE  IF rec.child[k] = "none" THEN rec.childJob[k] = 0 ELSE rec.childJob[k] = 1 /\ jobs[k] # <<>>
    BY <1>5, <1>9, <2>1, <2>2 DEF NamesJobs
  <2>. QED BY <1>5, <2>2 DEF NamesJobs
<1>12. LaunchInv(r, jobs)
  BY <1>1, <1>8, <1>9, Living, RunFields DEF LaunchInv, mem
<1>13. RunInv(r, jobs)
  BY <1>1, <1>8, <1>11, <1>12, Living DEF RunInv
<1>14. Undisturbed(r, parent, jobs)
  BY <1>1 DEF Undisturbed
<1>. QED BY <1>1, <1>7, <1>10, <1>13, <1>14, RunMoves

LEMMA DispatchedKeeps == OrchInv /\ Dispatched => OrchInv'
<1> SUFFICES ASSUME OrchInv, Dispatched PROVE OrchInv'
  OBVIOUS
<1>1. run.active = {} /\ ~ MayLaunch /\ run.pc \in {"loop", "unwind"} /\ UNCHANGED <<envVars, parent, jobs>>
  BY DEF Dispatched, RunAt
<1>2. PICK r : r = [run EXCEPT !.pc = IF run.pc = "loop" THEN "post" ELSE "catch"]
  OBVIOUS
<1>3. run' = r
  BY <1>1, <1>2 DEF Dispatched, RunAt
<1>4. /\ r \in Run /\ r.pc = (IF run.pc = "loop" THEN "post" ELSE "catch") /\ r.error = run.error
      /\ r.record = mem /\ r.next = run.next
      /\ r.active = run.active /\ r.rv = run.rv /\ r.vl = run.vl /\ r.aborted = run.aborted
  BY <1>1, <1>2, Living DEF Run, Steps, mem
<1>5. Synced(r, parent)
  BY <1>1, <1>4, Living DEF Synced, mem
<1>6. RunInv(r, jobs)
  BY <1>1, <1>4, Living DEF RunInv, LaunchInv, mem
<1>7. Undisturbed(r, parent, jobs)
  <2>1. CASE run.pc = "unwind"
    BY <2>1, Living DEF Undisturbed, Synced
  <2>2. CASE run.pc = "loop" /\ crashes = 0 /\ ~ input.faults
    <3>1. ASSUME NEW k \in Subtasks, Works(jobs, k) PROVE FALSE
      <4>1. JobsTyped(jobs) /\ k \in Numbered
        BY <2>2, Living, InputFacts
      <4>3. jobs[k] # <<>> /\ jobs[k][1].status = "active"
        BY <3>1, <4>1, JobFacts
      <4>4. mem.child[k] \notin Final
        BY <2>2, <4>3, Living DEF ParentInv, Agrees, Final
      <4>2. k >= run.next
        BY <1>1, <2>2, <3>1, <4>4, Living DEF LaunchInv, mem
      <4>. QED BY <2>2, <4>2, <4>3, Living DEF Undisturbed
    <3>. QED BY <1>4, <2>2, <3>1, Living DEF Undisturbed
  <2>. QED BY <1>1, <2>1, <2>2 DEF Undisturbed
<1>. QED BY <1>1, <1>3, <1>5, <1>6, <1>7, RunMoves

LEMMA PostChildKeeps == OrchInv /\ PostChild => OrchInv'
<1> SUFFICES ASSUME OrchInv, PostChild PROVE OrchInv'
  OBVIOUS
<1>1. run.pc = "post" /\ UNCHANGED <<envVars, parent, jobs>>
  BY DEF PostChild, RunAt
<1>2. PICK r : r = [run EXCEPT !.pc = "evidence",
                               !.rv = IF input.review THEN "check" ELSE "done",
                               !.vl = IF input.validation THEN "check" ELSE "done"]
  OBVIOUS
<1>3. run' = r
  BY <1>2 DEF PostChild
<1>4. /\ r \in Run /\ r.pc = "evidence" /\ r.error = run.error /\ r.record = mem /\ r.next = run.next
      /\ r.active = run.active /\ r.rv \in {"check", "done"} /\ r.vl \in {"check", "done"}
      /\ r.aborted = run.aborted
  BY <1>1, <1>2, Living DEF Run, Steps, Threads, mem
<1>5. Synced(r, parent)
  BY <1>1, <1>4, Living DEF Synced, mem
<1>6. RunInv(r, jobs)
  BY <1>1, <1>4, Living DEF RunInv, LaunchInv, mem
<1>7. Undisturbed(r, parent, jobs)
  BY <1>1, <1>4, Living DEF Undisturbed
<1>. QED BY <1>1, <1>3, <1>5, <1>6, <1>7, RunMoves

LEMMA EvidenceSettledKeeps == OrchInv /\ EvidenceSettled => OrchInv'
<1> SUFFICES ASSUME OrchInv, EvidenceSettled PROVE OrchInv'
  OBVIOUS
<1>1. /\ run.pc = "evidence" /\ run.rv \in {"done", "threw"} /\ run.vl \in {"done", "threw"}
      /\ UNCHANGED <<envVars, parent, jobs>>
  BY DEF EvidenceSettled, RunAt
<1>2. PICK r : r = run'
  OBVIOUS
<1>3. /\ r \in Run /\ r.pc \in {"catch", "finish"} /\ r.error \in {"plain", run.error}
      /\ r.record = mem /\ r.next = run.next
      /\ r.active = run.active /\ r.rv = run.rv /\ r.vl = run.vl /\ r.aborted = run.aborted
  <2>1. CASE "threw" \in {run.rv, run.vl}
    <3>1. r = [run EXCEPT !.pc = "catch",
                       !.error = IF run.error = "persistence" THEN "persistence" ELSE "plain"]
      BY <1>2, <2>1 DEF EvidenceSettled, Throw
    <3>. QED BY <1>1, <3>1, Living DEF Run, Steps, mem
  <2>2. CASE "threw" \notin {run.rv, run.vl}
    <3>1. r = [run EXCEPT !.pc = "finish"]
      BY <1>2, <2>2 DEF EvidenceSettled, Throw
    <3>. QED BY <1>1, <3>1, Living DEF Run, Steps, mem
  <2>. QED BY <2>1, <2>2
<1>4. Synced(r, parent)
  BY <1>1, <1>3, Living DEF Synced, mem
<1>5. RunInv(r, jobs)
  BY <1>1, <1>3, Living DEF RunInv, LaunchInv, mem
<1>6. Undisturbed(r, parent, jobs)
  BY <1>1, <1>3, Living DEF Undisturbed
<1>. QED BY <1>1, <1>2, <1>4, <1>5, <1>6, RunMoves

-----------------------------------------------------------------------------
(* Steps of the process that save its record.                              *)

LEMMA ObserveRequestKeeps == OrchInv /\ ObserveRequest => OrchInv'
<1> SUFFICES ASSUME OrchInv, ObserveRequest PROVE OrchInv'
  OBVIOUS
<1>1. /\ run.pc # "none" /\ requested /\ mem.status \notin Final /\ UNCHANGED <<envVars, jobs>>
      /\ mem \in OrchestrationRecord /\ mem.status # "none"
  BY Living DEF ObserveRequest, Synced, mem
<1>2. PICK rec : rec = [mem EXCEPT !.evidence = TRUE]
  OBVIOUS
<1>3. /\ rec \in OrchestrationRecord /\ rec.status = mem.status /\ rec.status \in Underway
      /\ rec.owner = mem.owner /\ rec.child = mem.child /\ rec.childJob = mem.childJob
      /\ rec.evidence = TRUE /\ rec.review = mem.review /\ rec.validation = mem.validation
  BY <1>1, <1>2, RecordFields DEF OrchestrationRecord, Underway
<1>4. \/ parent' = rec /\ run' = [[run EXCEPT !.aborted = TRUE] EXCEPT !.record = rec]
      \/ input.faults /\ run' = [[run EXCEPT !.aborted = TRUE] EXCEPT !.record = mem] /\ UNCHANGED parent
  BY <1>2 DEF ObserveRequest, Appends
<1>5. CASE parent' = rec /\ run' = [[run EXCEPT !.aborted = TRUE] EXCEPT !.record = rec]
  <2>1. PICK r : r = [run EXCEPT !.aborted = TRUE, !.record = rec]
    OBVIOUS
  <2>2. run' = r
    BY <1>5, <2>1
  <2>3. /\ r \in Run /\ r.pc = run.pc /\ r.error = run.error /\ r.record = rec /\ r.next = run.next
        /\ r.active = run.active /\ r.rv = run.rv /\ r.vl = run.vl /\ r.aborted = TRUE
    BY <1>1, <1>3, <2>1, Living DEF Run
  <2>4. RunInv(r, jobs)
    BY <1>1, <1>3, <2>3, Living DEF RunInv, LaunchInv, NamesJobs, mem
  <2>5. Undisturbed(r, rec, jobs)
    BY <1>1, <1>3, <2>3, Living DEF Undisturbed, Underway, Final
  <2>6. r.pc \in {"orphan", "unwind"} \/ r.error = "persistence" \/ r.rv = "orphan" => input.faults
    BY <1>1, <2>3, Living DEF Synced
  <2>. QED BY <1>1, <1>3, <1>5, <2>2, <2>3, <2>4, <2>5, <2>6, RunSaves
<1>6. CASE input.faults /\ run' = [[run EXCEPT !.aborted = TRUE] EXCEPT !.record = mem] /\ UNCHANGED parent
  <2>1. PICK r : r = [run EXCEPT !.aborted = TRUE, !.record = mem]
    OBVIOUS
  <2>2. run' = r
    BY <1>6, <2>1
  <2>3. /\ r \in Run /\ r.pc = run.pc /\ r.error = run.error /\ r.record = mem /\ r.next = run.next
        /\ r.active = run.active /\ r.rv = run.rv /\ r.vl = run.vl /\ r.aborted = TRUE
    BY <1>1, <2>1, Living DEF Run
  <2>4. Synced(r, parent)
    BY <1>1, <2>3, Living DEF Synced, mem
  <2>5. RunInv(r, jobs)
    BY <1>1, <1>6, <2>3, Living DEF RunInv, LaunchInv, mem
  <2>6. Undisturbed(r, parent, jobs)
    BY <1>6 DEF Undisturbed
  <2>. QED BY <1>1, <1>6, <2>2, <2>4, <2>5, <2>6, RunMoves
<1>. QED BY <1>4, <1>5, <1>6

\* An append before the first child that fails or not: the process goes on at pc with the
\* record rec, or throws with a record that differs from the saved one in nothing.
LEMMA EarlyAppendKeeps ==
    ASSUME OrchInv, run.pc \in {"handoff", "plan", "skip"}, NEW rec \in OrchestrationRecord,
           rec.owner = mem.owner, rec.child = mem.child, rec.childJob = mem.childJob,
           rec.evidence = mem.evidence, rec.status \in Underway, rec.review \in {mem.review, "skipped"},
           rec.validation \in {mem.validation, "skipped"},
           NEW kept \in OrchestrationRecord, kept.owner = mem.owner, kept.child = mem.child,
           kept.childJob = mem.childJob, kept.status \in Underway,
           NEW pc \in {"plan", "skip", "loop"},
           Appends(rec, [run EXCEPT !.pc = pc], kept, Throw("catch", "plain")),
           UNCHANGED <<envVars, jobs>>
    PROVE  OrchInv'
<1>1. /\ run \in Run /\ mem = parent /\ run.pc # "none"
      /\ run.rv \in {"idle", "done", "threw"} /\ run.vl \in {"idle", "done", "threw"}
  BY Living DEF RunInv
<1>2. CASE parent' = rec /\ run' = [[run EXCEPT !.pc = pc] EXCEPT !.record = rec]
  <2>1. PICK r : r = [run EXCEPT !.pc = pc, !.record = rec]
    OBVIOUS
  <2>2. run' = r
    BY <1>2, <2>1
  <2>3. /\ r \in Run /\ r.pc = pc /\ r.error = run.error /\ r.record = rec /\ r.next = run.next
        /\ r.active = run.active /\ r.rv = run.rv /\ r.vl = run.vl /\ r.aborted = run.aborted
    BY <1>1, <2>1 DEF Run, Steps
  <2>4. LaunchInv(r, jobs)
    <3>1. run.next = 1 /\ run.active = {}
      BY <1>1, Living DEF LaunchInv
    <3>2. \A k \in Subtasks : k \in Nat /\ ~ k < 1 /\ k >= 1
      BY DEF Subtasks
    <3>. QED BY <2>3, <3>1, <3>2 DEF LaunchInv
  <2>5. RunInv(r, jobs)
    BY <1>1, <2>3, <2>4, Living DEF RunInv, NamesJobs, mem
  <2>6. Undisturbed(r, rec, jobs)
    <3>1. CASE crashes = 0 /\ ~ input.faults
      <4>1. \A k \in Numbered : jobs[k] = <<>> /\ ~ Works(jobs, k)
        BY <1>1, <3>1, Living, JobFacts DEF Undisturbed
      <4>2. mem.review # "pending" /\ mem.validation # "pending"
        BY <1>1, <3>1, Living DEF Undisturbed
      <4>. QED BY <2>3, <4>1, <4>2, Living, InputFacts DEF Undisturbed
    <3>. QED BY <3>1 DEF Undisturbed
  <2>7. r.pc \in {"orphan", "unwind"} \/ r.error = "persistence" \/ r.rv = "orphan" => input.faults
    BY <1>1, <2>3, Living DEF Synced
  <2>. QED BY <1>1, <1>2, <2>2, <2>3, <2>5, <2>6, <2>7, RunSaves
<1>3. CASE input.faults /\ run' = [Throw("catch", "plain") EXCEPT !.record = kept] /\ UNCHANGED parent
  <2>1. PICK r : r = [run EXCEPT !.pc = "catch", !.error = "plain", !.record = kept]
    OBVIOUS
  <2>2. run' = r
    BY <1>3, <2>1 DEF Throw
  <2>3. /\ r \in Run /\ r.pc = "catch" /\ r.error = "plain" /\ r.record = kept /\ r.next = run.next
        /\ r.active = run.active /\ r.rv = run.rv /\ r.vl = run.vl /\ r.aborted = run.aborted
    BY <1>1, <2>1 DEF Run, Steps
  <2>4. Synced(r, parent)
    BY <1>1, <1>3, <2>3, Living DEF Synced, Underway, mem
  <2>5. RunInv(r, jobs)
    BY <1>1, <1>3, <2>3, Living DEF RunInv, LaunchInv, NamesJobs, mem
  <2>6. Undisturbed(r, parent, jobs)
    BY <1>3 DEF Undisturbed
  <2>. QED BY <1>1, <1>3, <2>2, <2>4, <2>5, <2>6, RunMoves
<1>. QED BY <1>2, <1>3 DEF Appends

\* The process goes on to pc without an append.
LEMMA EarlyStepKeeps ==
    ASSUME OrchInv, run.pc \in {"handoff", "plan", "skip"}, NEW pc \in {"plan", "skip", "loop", "finish"},
           run' = [run EXCEPT !.pc = pc], UNCHANGED <<envVars, parent, jobs>>
    PROVE  OrchInv'
<1>1. /\ run \in Run /\ mem = parent /\ run.pc # "none"
      /\ run.rv \in {"idle", "done", "threw"} /\ run.vl \in {"idle", "done", "threw"}
  BY Living DEF RunInv
<1>2. PICK r : r = [run EXCEPT !.pc = pc]
  OBVIOUS
<1>3. /\ r \in Run /\ r.pc = pc /\ r.error = run.error /\ r.record = mem /\ r.next = run.next
      /\ r.active = run.active /\ r.rv = run.rv /\ r.vl = run.vl /\ r.aborted = run.aborted
  BY <1>1, <1>2 DEF Run, Steps, mem
<1>4. Synced(r, parent)
  BY <1>1, <1>3, Living DEF Synced, mem
<1>5. LaunchInv(r, jobs)
  <2>1. run.next = 1 /\ run.active = {}
    BY <1>1, Living DEF LaunchInv
  <2>2. \A k \in Subtasks : k \in Nat /\ ~ k < 1 /\ k >= 1
    BY DEF Subtasks
  <2>. QED BY <1>3, <2>1, <2>2 DEF LaunchInv
<1>6. RunInv(r, jobs)
  BY <1>1, <1>3, <1>5, Living DEF RunInv, mem
<1>7. Undisturbed(r, parent, jobs)
  <2>1. CASE crashes = 0 /\ ~ input.faults
    <3>1. \A k \in Numbered : jobs[k] = <<>> /\ ~ Works(jobs, k)
      BY <1>1, <2>1, Living, JobFacts DEF Undisturbed
    <3>2. mem.review # "pending" /\ mem.validation # "pending"
      BY <1>1, <2>1, Living DEF Undisturbed
    <3>. QED BY <1>1, <1>3, <3>1, <3>2, Living, InputFacts DEF Undisturbed
  <2>. QED BY <2>1 DEF Undisturbed
<1>. QED BY <1>1, <1>2, <1>4, <1>6, <1>7, RunMoves

LEMMA HandOffKeeps == OrchInv /\ HandOff => OrchInv'
<1> SUFFICES ASSUME OrchInv, HandOff PROVE OrchInv'
  OBVIOUS
<1>1. /\ run.pc = "handoff" /\ UNCHANGED <<envVars, jobs>>
      /\ mem \in OrchestrationRecord /\ mem.status \in Underway
  BY Living DEF HandOff, RunAt, Synced, mem
<1>2. CASE Appends([mem EXCEPT !.accepted = TRUE], [run EXCEPT !.pc = "plan"], mem, Throw("catch", "plain"))
  <2>1. PICK rec : rec = [mem EXCEPT !.accepted = TRUE]
    OBVIOUS
  <2>2. /\ rec \in OrchestrationRecord /\ rec.owner = mem.owner /\ rec.child = mem.child
        /\ rec.childJob = mem.childJob /\ rec.evidence = mem.evidence /\ rec.status = mem.status
        /\ rec.review = mem.review /\ rec.validation = mem.validation
    BY <1>1, <2>1, RecordFields DEF OrchestrationRecord
  <2>. QED BY <1>1, <1>2, <2>1, <2>2, EarlyAppendKeeps
<1>3. CASE run' = [run EXCEPT !.pc = "plan"] /\ UNCHANGED parent
  BY <1>1, <1>3, EarlyStepKeeps
<1>. QED BY <1>2, <1>3 DEF HandOff

LEMMA DispatchingKeeps == OrchInv /\ Dispatching => OrchInv'
<1> SUFFICES ASSUME OrchInv, Dispatching PROVE OrchInv'
  OBVIOUS
<1>1. /\ run.pc = "plan" /\ UNCHANGED <<envVars, jobs>>
      /\ mem \in OrchestrationRecord /\ mem.status \in Underway
  BY Living DEF Dispatching, RunAt, Synced, mem
<1>2. CASE Appends([mem EXCEPT !.status = "dispatching", !.dispatched = TRUE],
                   [run EXCEPT !.pc = "loop"],
                   [mem EXCEPT !.status = "dispatching"], Throw("catch", "plain"))
  <2>1. PICK rec : rec = [mem EXCEPT !.status = "dispatching", !.dispatched = TRUE]
    OBVIOUS
  <2>2. /\ rec \in OrchestrationRecord /\ rec.owner = mem.owner /\ rec.child = mem.child
        /\ rec.childJob = mem.childJob /\ rec.evidence = mem.evidence /\ rec.status \in Underway
        /\ rec.review = mem.review /\ rec.validation = mem.validation
    BY <1>1, <2>1, RecordFields DEF OrchestrationRecord, Underway
  <2>3. PICK kept : kept = [mem EXCEPT !.status = "dispatching"]
    OBVIOUS
  <2>4. /\ kept \in OrchestrationRecord /\ kept.owner = mem.owner /\ kept.child = mem.child
        /\ kept.childJob = mem.childJob /\ kept.status \in Underway
    BY <1>1, <2>3, RecordFields DEF OrchestrationRecord, Underway
  <2>. QED BY <1>1, <1>2, <2>1, <2>2, <2>3, <2>4, EarlyAppendKeeps
<1>3. CASE run' = [run EXCEPT !.pc = "loop"] /\ UNCHANGED parent
  BY <1>1, <1>3, EarlyStepKeeps
<1>. QED BY <1>2, <1>3 DEF Dispatching

LEMMA UpstreamKeeps == OrchInv /\ Upstream => OrchInv'
<1> SUFFICES ASSUME OrchInv, Upstream PROVE OrchInv'
  OBVIOUS
<1>1. /\ run.pc \in {"plan", "skip"} /\ UNCHANGED <<envVars, jobs>>
      /\ mem \in OrchestrationRecord /\ mem.status \in Underway
  BY Living DEF Upstream, RunAt, Synced, mem
<1>2. run.pc = "skip" => run = [run EXCEPT !.pc = "skip"]
  BY <1>1, Living DEF Run
<1>3. CASE run.pc = "skip" /\ Appends([mem EXCEPT !.review = "skipped"], run, mem, Throw("catch", "plain"))
  <2>1. PICK rec : rec = [mem EXCEPT !.review = "skipped"]
    OBVIOUS
  <2>2. /\ rec \in OrchestrationRecord /\ rec.owner = mem.owner /\ rec.child = mem.child
        /\ rec.childJob = mem.childJob /\ rec.evidence = mem.evidence /\ rec.status = mem.status
        /\ rec.review = "skipped" /\ rec.validation = mem.validation
    BY <1>1, <2>1, RecordFields DEF OrchestrationRecord, Evidence
  <2>3. Appends(rec, [run EXCEPT !.pc = "skip"], mem, Throw("catch", "plain"))
    BY <1>2, <1>3, <2>1
  <2>. QED BY <1>1, <2>2, <2>3, EarlyAppendKeeps
<1>4. CASE run.pc = "skip" /\ Appends([mem EXCEPT !.validation = "skipped"], run, mem,
               Throw("catch", "plain"))
  <2>1. PICK rec : rec = [mem EXCEPT !.validation = "skipped"]
    OBVIOUS
  <2>2. /\ rec \in OrchestrationRecord /\ rec.owner = mem.owner /\ rec.child = mem.child
        /\ rec.childJob = mem.childJob /\ rec.evidence = mem.evidence /\ rec.status = mem.status
        /\ rec.review = mem.review /\ rec.validation = "skipped"
    BY <1>1, <2>1, RecordFields DEF OrchestrationRecord, Evidence
  <2>3. Appends(rec, [run EXCEPT !.pc = "skip"], mem, Throw("catch", "plain"))
    BY <1>2, <1>4, <2>1
  <2>. QED BY <1>1, <2>2, <2>3, EarlyAppendKeeps
<1>5. CASE run' = [run EXCEPT !.pc = "skip"] /\ UNCHANGED parent
  BY <1>1, <1>5, EarlyStepKeeps
<1>6. CASE run' = [run EXCEPT !.pc = "finish"] /\ UNCHANGED parent
  BY <1>1, <1>6, EarlyStepKeeps
<1>. QED BY <1>3, <1>4, <1>5, <1>6 DEF Upstream, RunAt

-----------------------------------------------------------------------------
(* Review and validation.                                                  *)

\* The review came to value, or its evidence could not be saved.
LEMMA ReviewedKeeps ==
    ASSUME OrchInv, run.pc = "evidence", NEW value \in Evidence \ {"pending"}, NEW next \in {"done", "threw"},
           crashes = 0 /\ ~ input.faults => ~ Works(jobs, 0),
           Reviewed(value, next), UNCHANGED <<envVars, jobs>>
    PROVE  OrchInv'
<1>1. run \in Run /\ mem = parent /\ mem \in OrchestrationRecord /\ mem.status \in Underway
  BY Living
<1>2. PICK rec : rec = [mem EXCEPT !.review = value]
  OBVIOUS
<1>3. /\ rec \in OrchestrationRecord /\ rec.status = mem.status /\ rec.owner = mem.owner
      /\ rec.child = mem.child /\ rec.childJob = mem.childJob
      /\ rec.evidence = mem.evidence /\ rec.review = value /\ rec.validation = mem.validation
  BY <1>1, <1>2, RecordFields DEF OrchestrationRecord
<1>4. \/ parent' = rec /\ run' = [[run EXCEPT !.rv = next] EXCEPT !.record = rec]
      \/ input.faults /\ run' = [[run EXCEPT !.rv = "threw"] EXCEPT !.record = mem] /\ UNCHANGED parent
  BY <1>2 DEF Reviewed, Appends
<1>5. CASE parent' = rec /\ run' = [[run EXCEPT !.rv = next] EXCEPT !.record = rec]
  <2>1. PICK r : r = [run EXCEPT !.rv = next, !.record = rec]
    OBVIOUS
  <2>2. run' = r
    BY <1>5, <2>1
  <2>3. /\ r \in Run /\ r.pc = "evidence" /\ r.error = run.error /\ r.record = rec /\ r.next = run.next
        /\ r.active = run.active /\ r.rv = next /\ r.vl = run.vl /\ r.aborted = run.aborted
    BY <1>1, <1>3, <2>1 DEF Run, Threads
  <2>4. RunInv(r, jobs)
    BY <1>1, <1>3, <2>3, Living DEF RunInv, LaunchInv, NamesJobs, mem
  <2>5. Undisturbed(r, rec, jobs)
    BY <1>1, <1>3, <2>3, Living DEF Undisturbed, Underway, Final
  <2>6. r.pc \in {"orphan", "unwind"} \/ r.error = "persistence" \/ r.rv = "orphan" => input.faults
    BY <1>1, <2>3, Living DEF Synced
  <2>. QED BY <1>1, <1>3, <1>5, <2>2, <2>3, <2>4, <2>5, <2>6, RunSaves
<1>6. CASE input.faults /\ run' = [[run EXCEPT !.rv = "threw"] EXCEPT !.record = mem] /\ UNCHANGED parent
  <2>1. PICK r : r = [run EXCEPT !.rv = "threw", !.record = mem]
    OBVIOUS
  <2>2. run' = r
    BY <1>6, <2>1
  <2>3. /\ r \in Run /\ r.pc = "evidence" /\ r.error = run.error /\ r.record = mem /\ r.next = run.next
        /\ r.active = run.active /\ r.rv = "threw" /\ r.vl = run.vl /\ r.aborted = run.aborted
    BY <1>1, <2>1 DEF Run, Threads
  <2>4. Synced(r, parent)
    BY <2>3, Living DEF Synced, mem
  <2>5. RunInv(r, jobs)
    BY <1>6, <2>3, Living DEF RunInv, LaunchInv, mem
  <2>6. Undisturbed(r, parent, jobs)
    BY <1>6 DEF Undisturbed
  <2>. QED BY <1>6, <2>2, <2>4, <2>5, <2>6, RunMoves
<1>. QED BY <1>4, <1>5, <1>6

\* The validation came to value, or its evidence could not be saved.
LEMMA ValidatedKeeps ==
    ASSUME OrchInv, run.pc = "evidence", NEW value \in Evidence, NEW next \in {"slot", "done", "threw"},
           value = "pending" => next = "slot",
           Validated(value, next), UNCHANGED <<envVars, jobs>>
    PROVE  OrchInv'
<1>1. run \in Run /\ mem = parent /\ mem \in OrchestrationRecord /\ mem.status \in Underway
  BY Living
<1>2. PICK rec : rec = [mem EXCEPT !.validation = value]
  OBVIOUS
<1>3. /\ rec \in OrchestrationRecord /\ rec.status = mem.status /\ rec.owner = mem.owner
      /\ rec.child = mem.child /\ rec.childJob = mem.childJob
      /\ rec.evidence = mem.evidence /\ rec.review = mem.review /\ rec.validation = value
  BY <1>1, <1>2, RecordFields DEF OrchestrationRecord
<1>4. \/ parent' = rec /\ run' = [[run EXCEPT !.vl = next] EXCEPT !.record = rec]
      \/ input.faults /\ run' = [[run EXCEPT !.vl = "threw"] EXCEPT !.record = mem] /\ UNCHANGED parent
  BY <1>2 DEF Validated, Appends
<1>5. CASE parent' = rec /\ run' = [[run EXCEPT !.vl = next] EXCEPT !.record = rec]
  <2>1. PICK r : r = [run EXCEPT !.vl = next, !.record = rec]
    OBVIOUS
  <2>2. run' = r
    BY <1>5, <2>1
  <2>3. /\ r \in Run /\ r.pc = "evidence" /\ r.error = run.error /\ r.record = rec /\ r.next = run.next
        /\ r.active = run.active /\ r.rv = run.rv /\ r.vl = next /\ r.aborted = run.aborted
    BY <1>1, <1>3, <2>1 DEF Run, Threads
  <2>4. RunInv(r, jobs)
    BY <1>1, <1>3, <2>3, Living DEF RunInv, LaunchInv, NamesJobs, mem
  <2>5. Undisturbed(r, rec, jobs)
    BY <1>1, <1>3, <2>3, Living DEF Undisturbed, Underway, Final
  <2>6. r.pc \in {"orphan", "unwind"} \/ r.error = "persistence" \/ r.rv = "orphan" => input.faults
    BY <1>1, <2>3, Living DEF Synced
  <2>. QED BY <1>1, <1>3, <1>5, <2>2, <2>3, <2>4, <2>5, <2>6, RunSaves
<1>6. CASE input.faults /\ run' = [[run EXCEPT !.vl = "threw"] EXCEPT !.record = mem] /\ UNCHANGED parent
  <2>1. PICK r : r = [run EXCEPT !.vl = "threw", !.record = mem]
    OBVIOUS
  <2>2. run' = r
    BY <1>6, <2>1
  <2>3. /\ r \in Run /\ r.pc = "evidence" /\ r.error = run.error /\ r.record = mem /\ r.next = run.next
        /\ r.active = run.active /\ r.rv = run.rv /\ r.vl = "threw" /\ r.aborted = run.aborted
    BY <1>1, <2>1 DEF Run, Threads
  <2>4. Synced(r, parent)
    BY <2>3, Living DEF Synced, mem
  <2>5. RunInv(r, jobs)
    BY <1>6, <2>3, Living DEF RunInv, LaunchInv, mem
  <2>6. Undisturbed(r, parent, jobs)
    BY <1>6 DEF Undisturbed
  <2>. QED BY <1>6, <2>2, <2>4, <2>5, <2>6, RunMoves
<1>. QED BY <1>4, <1>5, <1>6

\* A thread of the evidence goes on without an append.
LEMMA ThreadMoves ==
    ASSUME OrchInv, run.pc = "evidence", NEW r \in Run, run' = r, UNCHANGED <<envVars, parent, jobs>>,
           r.pc = "evidence", r.record = mem, r.next = run.next, r.active = run.active,
           r.aborted = run.aborted,
           r.error = "persistence" \/ r.rv = "orphan" => input.faults,
           r.rv \in {"record", "wait", "orphan"} => jobs[0] # <<>>,
           crashes = 0 /\ ~ input.faults =>
               /\ Works(jobs, 0) => r.rv \in {"record", "wait"}
               /\ run.rv = "wait" => r.rv = "wait"
               /\ run.vl \in {"slot", "work"} => r.vl \in {"slot", "work"}
    PROVE  OrchInv'
<1>1. Synced(r, parent)
  BY Living DEF Synced, mem
<1>2. RunInv(r, jobs)
  BY Living DEF RunInv, LaunchInv, mem
<1>3. Undisturbed(r, parent, jobs)
  BY Living DEF Undisturbed
<1>. QED BY <1>1, <1>2, <1>3, RunMoves

\* Where the threads run.
LEMMA ThreadsRun ==
    ASSUME OrchInv, run.rv \notin {"idle", "done", "threw"} \/ run.vl \notin {"idle", "done", "threw"}
    PROVE  run.pc = "evidence" /\ run \in Run /\ (run.rv \in {"record", "wait", "orphan"} => jobs[0] # <<>>)
BY DEF OrchInv, StateInv, RunInv

LEMMA SkipReviewKeeps == OrchInv /\ SkipReview => OrchInv'
<1> SUFFICES ASSUME OrchInv, SkipReview PROVE OrchInv'
  OBVIOUS
<1>1. run.rv = "check" /\ run.pc = "evidence" /\ UNCHANGED <<envVars, jobs>> /\ Reviewed("skipped", "done")
  BY ThreadsRun DEF SkipReview
<1>2. crashes = 0 /\ ~ input.faults => ~ Works(jobs, 0)
  BY <1>1, Living DEF Undisturbed
<1>. QED BY <1>1, <1>2, ReviewedKeeps DEF Evidence

LEMMA ReviewerOrphanSettlesKeeps == OrchInv /\ ReviewerOrphanSettles => OrchInv'
<1> SUFFICES ASSUME OrchInv, ReviewerOrphanSettles PROVE OrchInv'
  OBVIOUS
<1>1. run.rv = "orphan" /\ run.pc = "evidence" /\ run \in Run /\ UNCHANGED <<envVars, parent, jobs>>
  BY ThreadsRun DEF ReviewerOrphanSettles
<1>2. input.faults
  BY <1>1, Living DEF Synced
<1>3. PICK r : r = [run EXCEPT !.rv = "threw"]
  OBVIOUS
<1>4. /\ r \in Run /\ r.pc = "evidence" /\ r.error = run.error /\ r.record = mem /\ r.next = run.next
      /\ r.active = run.active /\ r.rv = "threw" /\ r.vl = run.vl /\ r.aborted = run.aborted
  BY <1>1, <1>3 DEF Run, Threads, mem
<1>5. run' = r
  BY <1>3 DEF ReviewerOrphanSettles
<1>. QED BY <1>1, <1>2, <1>4, <1>5, ThreadMoves

\* The reviewer, if there is one, works on or has ended.
LEMMA ReviewerJob ==
    ASSUME OrchInv, jobs[0] # <<>>
    PROVE  jobs[0][1] \in Job /\ (Works(jobs, 0) <=> jobs[0][1].status = "active")
<1>1. EnvInv /\ JobsTyped(jobs)
  BY DEF OrchInv, StateInv, JobsInv
<1>2. 0 \in Numbered
  BY <1>1, InputFacts
<1>. QED BY <1>1, <1>2, JobFacts

LEMMA ReviewerSettlesKeeps == OrchInv /\ ReviewerSettles => OrchInv'
<1> SUFFICES ASSUME OrchInv, ReviewerSettles PROVE OrchInv'
  OBVIOUS
<1>1. /\ run.rv = "wait" /\ run.pc = "evidence" /\ run \in Run /\ jobs[0] # <<>>
      /\ UNCHANGED <<envVars, jobs>>
  BY ThreadsRun DEF ReviewerSettles
<1>2. CASE /\ jobs[0][1].status \in Final
           /\ \/ Reviewed("unavailable", "threw")
              \/ Reviewed("unavailable", "done")
              \/ Reviewed("completed", "done")
  <2>1. ~ Works(jobs, 0)
    BY <1>1, <1>2, ReviewerJob DEF Final
  <2>2. ASSUME NEW value \in {"unavailable", "completed"}, NEW next \in {"done", "threw"},
              Reviewed(value, next)
        PROVE  OrchInv'
    BY <1>1, <2>1, <2>2, ReviewedKeeps DEF Evidence
  <2>3. CASE Reviewed("unavailable", "threw")
    BY <2>2, <2>3
  <2>4. CASE Reviewed("unavailable", "done")
    BY <2>2, <2>4
  <2>5. CASE Reviewed("completed", "done")
    BY <2>2, <2>5
  <2>. QED BY <1>2, <2>3, <2>4, <2>5
<1>3. ASSUME MayReject(0, jobs[0][1]), NEW error \in {"plain", "persistence"}, ReviewThrows(error),
             UNCHANGED parent
      PROVE  OrchInv'
  <2>1. input.faults
    BY <1>3 DEF MayReject
  <2>2. PICK r : r = [run EXCEPT !.rv = "threw", !.error = error]
    OBVIOUS
  <2>3. /\ r \in Run /\ r.pc = "evidence" /\ r.record = mem /\ r.next = run.next
        /\ r.active = run.active /\ r.rv = "threw" /\ r.vl = run.vl /\ r.aborted = run.aborted
    BY <1>1, <2>2 DEF Run, Threads, mem
  <2>4. run' = r
    BY <1>3, <2>2 DEF ReviewThrows
  <2>. QED BY <1>1, <1>3, <2>1, <2>3, <2>4, ThreadMoves
<1>. QED BY <1>2, <1>3 DEF ReviewerSettles

LEMMA CheckValidationKeeps == OrchInv /\ CheckValidation => OrchInv'
<1> SUFFICES ASSUME OrchInv, CheckValidation PROVE OrchInv'
  OBVIOUS
<1>1. run.vl = "check" /\ run.pc = "evidence" /\ UNCHANGED <<envVars, jobs>>
  BY ThreadsRun DEF CheckValidation
<1>2. CASE Validated("skipped", "done")
  BY <1>1, <1>2, ValidatedKeeps DEF Evidence
<1>3. CASE Validated("pending", "slot")
  BY <1>1, <1>3, ValidatedKeeps DEF Evidence
<1>. QED BY <1>2, <1>3 DEF CheckValidation

LEMMA TakeSlotKeeps == OrchInv /\ TakeSlot => OrchInv'
<1> SUFFICES ASSUME OrchInv, TakeSlot PROVE OrchInv'
  OBVIOUS
<1>1. run.vl = "slot" /\ run.pc = "evidence" /\ run \in Run /\ UNCHANGED <<envVars, jobs>>
  BY ThreadsRun DEF TakeSlot
<1>2. CASE Validated("unavailable", "threw")
  BY <1>1, <1>2, ValidatedKeeps DEF Evidence
<1>3. CASE run' = [run EXCEPT !.vl = "work"] /\ UNCHANGED parent
  <2>1. PICK r : r = [run EXCEPT !.vl = "work"]
    OBVIOUS
  <2>2. /\ r \in Run /\ r.pc = "evidence" /\ r.error = run.error /\ r.record = mem /\ r.next = run.next
        /\ r.active = run.active /\ r.rv = run.rv /\ r.vl = "work" /\ r.aborted = run.aborted
    BY <1>1, <2>1 DEF Run, Threads, mem
  <2>3. /\ run.error = "persistence" \/ run.rv = "orphan" => input.faults
        /\ run.rv \in {"record", "wait", "orphan"} => jobs[0] # <<>>
        /\ crashes = 0 /\ ~ input.faults => (Works(jobs, 0) => run.rv \in {"record", "wait"})
    BY <1>1, Living, ThreadsRun DEF Synced, Undisturbed
  <2>. QED BY <1>1, <1>3, <2>1, <2>2, <2>3, ThreadMoves
<1>. QED BY <1>2, <1>3 DEF TakeSlot

LEMMA ValidateKeeps == OrchInv /\ Validate => OrchInv'
<1> SUFFICES ASSUME OrchInv, Validate PROVE OrchInv'
  OBVIOUS
<1>1. run.vl = "work" /\ run.pc = "evidence" /\ UNCHANGED <<envVars, jobs>>
  BY ThreadsRun DEF Validate
<1>2. ASSUME NEW value \in {"completed", "unavailable"}, NEW next \in {"done", "threw"},
            Validated(value, next)
      PROVE  OrchInv'
  BY <1>1, <1>2, ValidatedKeeps DEF Evidence
<1>3. CASE Validated("unavailable", "threw")
  BY <1>2, <1>3
<1>4. CASE \E value \in {"completed", "unavailable"} : Validated(value, "done")
  BY <1>2, <1>4
<1>. QED BY <1>3, <1>4 DEF Validate

LEMMA RecordReviewerKeeps == OrchInv /\ RecordReviewer => OrchInv'
<1> SUFFICES ASSUME OrchInv, RecordReviewer PROVE OrchInv'
  OBVIOUS
<1>1. /\ run.rv = "record" /\ run.pc = "evidence" /\ run \in Run /\ jobs[0] # <<>> /\ UNCHANGED envVars
      /\ mem = parent /\ mem \in OrchestrationRecord /\ mem.status \in Underway
  BY ThreadsRun, Living DEF RecordReviewer
<1>2. CASE parent' = [mem EXCEPT !.review = "pending"]
          /\ run' = [run EXCEPT !.rv = "wait", !.record = parent']
          /\ UNCHANGED jobs
  <2>1. PICK rec : rec = [mem EXCEPT !.review = "pending"]
    OBVIOUS
  <2>2. /\ rec \in OrchestrationRecord /\ rec.status = mem.status /\ rec.owner = mem.owner
        /\ rec.child = mem.child /\ rec.childJob = mem.childJob
        /\ rec.evidence = mem.evidence /\ rec.review = "pending" /\ rec.validation = mem.validation
    BY <1>1, <2>1, RecordFields DEF OrchestrationRecord, Evidence
  <2>3. PICK r : r = [run EXCEPT !.rv = "wait", !.record = rec]
    OBVIOUS
  <2>4. run' = r /\ parent' = rec
    BY <1>2, <2>1, <2>3
  <2>5. /\ r \in Run /\ r.pc = "evidence" /\ r.error = run.error /\ r.record = rec /\ r.next = run.next
        /\ r.active = run.active /\ r.rv = "wait" /\ r.vl = run.vl /\ r.aborted = run.aborted
    BY <1>1, <2>2, <2>3 DEF Run, Threads
  <2>6. RunInv(r, jobs)
    BY <1>1, <2>2, <2>5, Living DEF RunInv, LaunchInv, NamesJobs, mem
  <2>7. Undisturbed(r, rec, jobs)
    BY <1>1, <2>2, <2>5, Living DEF Undisturbed, Underway, Final
  <2>8. r.pc \in {"orphan", "unwind"} \/ r.error = "persistence" \/ r.rv = "orphan" => input.faults
    BY <1>1, <2>5, Living DEF Synced
  <2>. QED BY <1>1, <1>2, <2>2, <2>4, <2>5, <2>6, <2>7, <2>8, RunSaves
<1>3. ASSUME NEW rv \in {"wait", "threw", "orphan"}, NEW error \in {"none", "plain", "persistence"},
             run' = [run EXCEPT !.rv = rv, !.error = error], UNCHANGED parent,
             UNCHANGED jobs \/ Abort(0) \/ RecoverStopped(0, TRUE) \/ RecoverStopped(0, FALSE),
             input.faults \/ (rv = "wait" /\ error = run.error)
      PROVE  OrchInv'
  <2>1. PICK r : r = [run EXCEPT !.rv = rv, !.error = error]
    OBVIOUS
  <2>2. /\ r \in Run /\ r.pc = "evidence" /\ r.error = error /\ r.record = mem /\ r.next = run.next
        /\ r.active = run.active /\ r.rv = rv /\ r.vl = run.vl /\ r.aborted = run.aborted
    BY <1>1, <2>1 DEF Run, Threads, mem
  <2>3. Synced(r, parent)
    BY <1>1, <1>3, <2>2, Living DEF Synced, mem
  <2>4. RunInv(r, jobs)
    BY <1>1, <1>3, <2>2, Living DEF RunInv, LaunchInv, mem
  <2>5. Undisturbed(r, parent, jobs)
    BY <1>1, <1>3, <2>2, Living DEF Undisturbed
  <2>6. StateInv(r, parent, jobs)
    BY <1>1, <2>3, <2>4, <2>5, Living DEF StateInv
  <2>. QED BY <1>1, <1>3, <2>1, <2>6, Living, InputFacts, StepWithJob
<1>4. CASE run' = [run EXCEPT !.rv = "wait"] /\ TakeOver(0, jobs[0][1]) /\ UNCHANGED parent
  <2>1. /\ run' = [run EXCEPT !.rv = "wait", !.error = run.error]
        /\ run.error \in {"none", "plain", "persistence"}
    BY <1>1, <1>4, RunFields DEF Run
  <2>2. UNCHANGED jobs \/ RecoverStopped(0, TRUE)
    BY <1>4 DEF TakeOver
  <2>. QED BY <1>3, <1>4, <2>1, <2>2
<1>5. ASSUME TakeOverFails(0), NEW error \in TakeOverErrors(jobs[0][1]), ReviewThrows(error),
             UNCHANGED parent
      PROVE  OrchInv'
  <2>1. input.faults /\ error \in {"none", "plain", "persistence"}
    BY <1>5 DEF TakeOverFails, TakeOverErrors
  <2>2. UNCHANGED jobs \/ RecoverStopped(0, FALSE)
    BY <1>5 DEF TakeOverFails
  <2>3. run' = [run EXCEPT !.rv = "threw", !.error = error]
    BY <1>5 DEF ReviewThrows
  <2>. QED BY <1>3, <1>5, <2>1, <2>2, <2>3
<1>6. CASE /\ input.faults /\ run' = [run EXCEPT !.rv = "orphan"] /\ UNCHANGED parent
           /\ Abort(0) \/ UNCHANGED jobs
  <2>1. /\ run' = [run EXCEPT !.rv = "orphan", !.error = run.error]
        /\ run.error \in {"none", "plain", "persistence"}
    BY <1>1, <1>6, RunFields DEF Run
  <2>. QED BY <1>3, <1>6, <2>1
<1>. QED BY <1>2, <1>4, <1>5, <1>6 DEF RecordReviewer

-----------------------------------------------------------------------------
(* Admission of a Job.                                                     *)

\* Subtask k has a Job that works, and nothing else changed.
LEMMA EnsuredJob ==
    ASSUME OrchInv, NEW k \in Numbered, EnsureJob(k), NEW js, js = jobs'
    PROVE  /\ JobsTyped(js) /\ js[k] # <<>> /\ (jobs[k] # <<>> => js = jobs)
           /\ \A i \in Numbered : i # k => js[i] = jobs[i] /\ (Works(js, i) <=> Works(jobs, i))
           /\ ~ input.faults /\ broker \in {"parents", "up"} =>
                \A i \in Numbered : \A n \in DOMAIN js[i] : js[i][n].status = "active" => js[i][n].running
<1>1. JobsTyped(jobs) /\ JobsInv(parent, jobs)
  BY DEF OrchInv, StateInv, JobsInv
<1>2. CASE jobs[k] # <<>>
  <2>1. js = jobs
    BY <1>2 DEF EnsureJob
  <2>. QED BY <1>1, <1>2, <2>1 DEF JobsInv
<1>3. CASE jobs[k] = <<>>
  <2>1. js = [jobs EXCEPT ![k] = <<NewJob>>]
    BY <1>3 DEF EnsureJob
  <2>2. NewJob \in Job /\ NewJob.running = TRUE
    BY DEF NewJob, Job
  <2>3. js[k] = <<NewJob>> /\ \A i \in Numbered : i # k => js[i] = jobs[i]
    BY <1>1, <2>1 DEF JobsTyped
  <2>4. JobsTyped(js)
    BY <1>1, <2>1, <2>2, <2>3 DEF JobsTyped
  <2>5. \A i \in Numbered : i # k => (Works(js, i) <=> Works(jobs, i))
    BY <2>3 DEF Works
  <2>6. ASSUME ~ input.faults, broker \in {"parents", "up"}, NEW i \in Numbered, NEW n \in DOMAIN js[i],
               js[i][n].status = "active"
        PROVE  js[i][n].running
    <3>1. CASE i = k
      <4>1. n = 1 /\ js[i][n] = NewJob
        BY <2>3, <2>6, <3>1
      <4>. QED BY <2>2, <4>1
    <3>2. CASE i # k
      BY <1>1, <2>3, <2>6, <3>2 DEF JobsInv
    <3>. QED BY <3>1, <3>2
  <2>. QED BY <1>3, <2>3, <2>4, <2>5, <2>6
<1>. QED BY <1>2, <1>3

LEMMA AdmitReviewerKeeps == OrchInv /\ AdmitReviewer => OrchInv'
<1> SUFFICES ASSUME OrchInv, AdmitReviewer PROVE OrchInv'
  OBVIOUS
<1>1. /\ run.rv = "check" /\ run.pc = "evidence" /\ run \in Run /\ UNCHANGED envVars
      /\ mem = parent /\ parent.status \in Underway /\ 0 \in Numbered /\ EnvInv
      /\ Subtasks \subseteq Numbered /\ 0 \notin Subtasks
  BY ThreadsRun, Living, InputFacts DEF AdmitReviewer
<1>2. CASE /\ EnsureJob(0) /\ UNCHANGED parent
           /\ run' = [run EXCEPT !.rv = "record",
                                 !.started = IF jobs'[0][1].running THEN @ \cup {0} ELSE @]
  <2>1. PICK js : js = jobs'
    OBVIOUS
  <2>2. /\ JobsTyped(js) /\ js[0] # <<>>
        /\ \A k \in Subtasks : js[k] = jobs[k] /\ (Works(js, k) <=> Works(jobs, k))
        /\ ~ input.faults /\ broker \in {"parents", "up"} =>
             \A i \in Numbered : \A n \in DOMAIN js[i] : js[i][n].status = "active" => js[i][n].running
    BY <1>1, <1>2, <2>1, EnsuredJob
  <2>3. PICK r : r = run'
    OBVIOUS
  <2>4. /\ r \in Run /\ r.pc = "evidence" /\ r.error = run.error /\ r.record = mem /\ r.next = run.next
        /\ r.active = run.active /\ r.rv = "record" /\ r.vl = run.vl /\ r.aborted = run.aborted
    <3>1. PICK started : started = IF js[0][1].running THEN run.started \cup {0} ELSE run.started
      OBVIOUS
    <3>2. started \in SUBSET (0..MaxSubtasks)
      BY <1>1, <3>1, RunFields DEF Numbered
    <3>3. r = [run EXCEPT !.rv = "record", !.started = started]
      BY <1>2, <2>1, <2>3, <3>1
    <3>. QED BY <1>1, <3>2, <3>3 DEF Run, Threads, mem
  <2>5. JobsInv(parent, js)
    <3>1. Counted(parent, js) = Counted(parent, jobs)
      BY <2>2 DEF Counted
    <3>. QED BY <1>1, <2>2, <3>1, Living DEF JobsInv, Underway
  <2>6. ParentInv(parent, js)
    BY <1>1, <2>2, Living DEF ParentInv, NamesJobs, Agrees
  <2>7. Synced(r, parent)
    BY <1>1, <2>4, Living DEF Synced, mem
  <2>8. RunInv(r, js)
    BY <1>1, <2>2, <2>4, Living DEF RunInv, LaunchInv, NamesJobs, mem
  <2>9. Undisturbed(r, parent, js)
    BY <1>1, <2>2, <2>4, Living DEF Undisturbed, Underway, Final
  <2>10. StateInv(r, parent, js)
    BY <2>5, <2>6, <2>7, <2>8, <2>9 DEF StateInv
  <2>. QED BY <1>1, <1>2, <2>1, <2>3, <2>10, Moves
<1>3. CASE input.faults /\ Reviewed("unavailable", "done") /\ UNCHANGED jobs
  BY <1>1, <1>3, ReviewedKeeps DEF Evidence
<1>4. CASE /\ input.faults /\ UNCHANGED <<parent, jobs>>
           /\ run' = [run EXCEPT !.rv = "threw", !.error = "persistence"]
  <2>1. PICK r : r = [run EXCEPT !.rv = "threw", !.error = "persistence"]
    OBVIOUS
  <2>2. /\ r \in Run /\ r.pc = "evidence" /\ r.record = mem /\ r.next = run.next
        /\ r.active = run.active /\ r.rv = "threw" /\ r.vl = run.vl /\ r.aborted = run.aborted
    BY <1>1, <2>1 DEF Run, Threads, mem
  <2>. QED BY <1>1, <1>4, <2>1, <2>2, ThreadMoves
<1>. QED BY <1>2, <1>3, <1>4 DEF AdmitReviewer, ReviewThrows

LEMMA AdmitChildKeeps == OrchInv /\ AdmitChild => OrchInv'
<1> SUFFICES ASSUME OrchInv, AdmitChild PROVE OrchInv'
  OBVIOUS
<1>1. /\ run.pc = "admit" /\ run \in Run /\ UNCHANGED <<envVars, parent>>
      /\ mem = parent /\ parent.status \in Underway /\ EnvInv
      /\ run.next \in Nat /\ run.next # 0 /\ run.next <= input.plan
      /\ Subtasks \subseteq Numbered /\ 0 \notin Subtasks /\ 0 \in Numbered
  BY Living, InputFacts, RunFields DEF AdmitChild, RunAt, LaunchInv
<1>2. PICK k : k = run.next
  OBVIOUS
<1>3. /\ k \in Subtasks /\ k \in Numbered /\ parent.child[k] = "none"
      /\ Cardinality(run.active) < input.concurrency /\ run.active \in SUBSET Subtasks
  BY <1>1, <1>2, Living, InputFacts, RunFields DEF LaunchInv, mem
<1>4. CASE EnsureJob(run.next) /\ run' = [run EXCEPT !.pc = "record", !.started = Started(run.next)]
  <2>1. PICK js : js = jobs'
    OBVIOUS
  <2>2. /\ JobsTyped(js) /\ js[k] # <<>>
        /\ \A i \in Numbered : i # k => js[i] = jobs[i] /\ (Works(js, i) <=> Works(jobs, i))
        /\ ~ input.faults /\ broker \in {"parents", "up"} =>
             \A i \in Numbered : \A n \in DOMAIN js[i] : js[i][n].status = "active" => js[i][n].running
    BY <1>2, <1>3, <1>4, <2>1, EnsuredJob
  <2>3. PICK r : r = run'
    OBVIOUS
  <2>4. /\ r \in Run /\ r.pc = "record" /\ r.error = run.error /\ r.record = mem /\ r.next = k
        /\ r.active = run.active /\ r.rv = run.rv /\ r.vl = run.vl /\ r.aborted = run.aborted
    <3>1. PICK started : started = Started(run.next)
      OBVIOUS
    <3>2. started \in SUBSET (0..MaxSubtasks)
      BY <1>1, <1>2, <1>3, <3>1, RunFields DEF Started, Numbered
    <3>3. r = [run EXCEPT !.pc = "record", !.started = started]
      BY <1>4, <2>3, <3>1
    <3>. QED BY <1>1, <1>2, <3>2, <3>3 DEF Run, Steps, mem
  <2>5. \A i \in Subtasks : i \in Nat /\ (jobs[i] # <<>> => i <= k) /\ (i < k => parent.child[i] # "none")
    <3>1. \A i \in Subtasks : i \in Nat
      BY DEF Subtasks
    <3>2. \A i \in Subtasks : i < k => parent.child[i] # "none"
      BY <1>1, <1>2, Living DEF LaunchInv, mem
    <3>3. \A i \in Subtasks : jobs[i] # <<>> /\ k < i => parent.child[k] # "none"
      BY <1>1, <1>3, Living DEF JobsInv
    <3>. QED BY <1>1, <1>2, <1>3, <3>1, <3>2, <3>3
  <2>6. \A i \in Subtasks : Works(js, i) /\ parent.child[i] \notin Final => i \in run.active \/ i >= k
    <3>1. \A i \in Subtasks : i # k /\ Works(js, i) => Works(jobs, i)
      BY <1>1, <2>2
    <3>2. \A i \in Subtasks :
            Works(jobs, i) /\ parent.child[i] \notin Final => i \in run.active \/ i >= k
      BY <1>1, <1>2, Living DEF LaunchInv, mem
    <3>. QED BY <1>1, <1>2, <3>1, <3>2
  <2>7. Cardinality(Counted(parent, js)) <= input.concurrency
    <3>1. Counted(parent, js) \subseteq run.active \cup {k}
      <4>1. ASSUME NEW i \in Subtasks, Works(js, i), parent.child[i] \notin Final, i # k
            PROVE  i \in run.active
        <5>1. Works(jobs, i) /\ i \in Numbered
          BY <1>1, <2>2, <4>1
        <5>2. JobsTyped(jobs)
          BY <1>1, Living
        <5>3. jobs[i] # <<>>
          BY <5>1, <5>2, JobFacts
        <5>. QED BY <1>1, <1>2, <2>5, <2>6, <4>1, <5>3
      <4>. QED BY <4>1 DEF Counted
    <3>2. IsFiniteSet(run.active) /\ Cardinality(run.active) \in Nat
      BY <1>1, <1>3, WorkingFinite
    <3>3. /\ IsFiniteSet(run.active \cup {k}) /\ Cardinality(run.active \cup {k}) \in Nat
          /\ Cardinality(run.active \cup {k}) <= Cardinality(run.active) + 1
      BY <3>2, FS_AddElement, FS_CardinalityType
    <3>4. /\ Cardinality(Counted(parent, js)) <= Cardinality(run.active \cup {k})
          /\ Cardinality(Counted(parent, js)) \in Nat
      BY <3>1, <3>3, FS_Subset, FS_CardinalityType
    <3>. QED BY <1>1, <1>3, <3>2, <3>3, <3>4, InputFacts
  <2>8. JobsInv(parent, js)
    <3>1. \A j, i \in Subtasks : js[j] # <<>> /\ i < j => parent.child[i] # "none"
      <4>1. ASSUME NEW j \in Subtasks, NEW i \in Subtasks, js[j] # <<>>, i < j PROVE parent.child[i] # "none"
        <5>1. CASE j = k
          BY <2>5, <4>1, <5>1
        <5>2. CASE j # k
          <6>1. jobs[j] # <<>>
            BY <1>1, <2>2, <4>1, <5>2
          <6>. QED BY <1>1, <4>1, <6>1, Living DEF JobsInv
        <5>. QED BY <5>1, <5>2
      <4>. QED BY <4>1
    <3>. QED BY <1>1, <2>2, <2>7, <3>1 DEF JobsInv, Underway
  <2>9. NamesJobs(parent, js)
    <3>1. NamesJobs(parent, jobs)
      BY <1>1, Living
    <3>2. \A i \in Subtasks : i # k => js[i] = jobs[i]
      BY <1>1, <2>2
    <3>. QED BY <2>2, <3>1, <3>2 DEF NamesJobs
  <2>10. ParentInv(parent, js)
    <3>1. ~ input.faults => Agrees(parent, js)
      <4>1. ~ input.faults => Agrees(parent, jobs)
        BY <1>1, Living DEF ParentInv
      <4>. QED BY <1>1, <1>3, <2>2, <4>1 DEF Agrees, Final
    <3>. QED BY <1>1, <2>9, <3>1, Living DEF ParentInv
  <2>11. Synced(r, parent)
    BY <1>1, <2>4, Living DEF Synced, mem
  <2>12. LaunchInv(r, js)
    BY <1>1, <1>2, <1>3, <2>2, <2>4, <2>5, <2>6, Living DEF LaunchInv, mem
  <2>13. RunInv(r, js)
    BY <1>1, <2>2, <2>4, <2>9, <2>12, Living DEF RunInv, mem
  <2>14. Undisturbed(r, parent, js)
    <3>1. CASE crashes = 0 /\ ~ input.faults
      <4>1. \A i \in Subtasks : i > k => js[i] = <<>>
        BY <1>1, <1>2, <2>2, <2>5
      <4>2. ~ Works(js, 0) /\ parent.review # "pending" /\ parent.validation # "pending"
        BY <1>1, <1>3, <2>2, <3>1, Living DEF Undisturbed
      <4>. QED BY <1>1, <2>4, <4>1, <4>2 DEF Undisturbed, Underway, Final
    <3>. QED BY <3>1 DEF Undisturbed
  <2>15. StateInv(r, parent, js)
    BY <2>8, <2>10, <2>11, <2>13, <2>14 DEF StateInv
  <2>. QED BY <1>1, <2>1, <2>3, <2>15, Moves
<1>5. CASE input.faults /\ (\E error \in {"plain", "persistence"} : run' = Throw("unwind", error))
          /\ UNCHANGED jobs
  <2>1. PICK error \in {"plain", "persistence"} : run' = Throw("unwind", error)
    BY <1>5
  <2>2. PICK r : r = [run EXCEPT !.pc = "unwind", !.error = error]
    OBVIOUS
  <2>3. run' = r
    BY <2>1, <2>2 DEF Throw
  <2>4. /\ r \in Run /\ r.pc = "unwind" /\ r.record = mem /\ r.next = run.next
        /\ r.active = run.active /\ r.rv = run.rv /\ r.vl = run.vl /\ r.aborted = run.aborted
    BY <1>1, <2>2 DEF Run, Steps, mem
  <2>5. Synced(r, parent)
    BY <1>1, <1>5, <2>4, Living DEF Synced, mem
  <2>6. RunInv(r, jobs)
    BY <1>1, <1>5, <2>4, Living DEF RunInv, LaunchInv, mem
  <2>7. Undisturbed(r, parent, jobs)
    BY <1>5 DEF Undisturbed
  <2>. QED BY <1>1, <1>5, <2>3, <2>5, <2>6, <2>7, RunMoves
<1>. QED BY <1>4, <1>5 DEF AdmitChild

-----------------------------------------------------------------------------
(* Children: their start and their end are saved.                          *)

\* The record in memory once subtask k has its Job and the status of it.
WithChild(k, status) == [mem EXCEPT !.child = [mem.child EXCEPT ![k] = status],
                                    !.childJob = [mem.childJob EXCEPT ![k] = 1]]

\* A record that may be saved or kept: it differs from the one in memory in subtask k.
GoodRecord(rec, k) ==
    /\ rec \in OrchestrationRecord /\ NamesJobs(rec, jobs) /\ rec.status \in Underway
    /\ rec.owner = mem.owner /\ rec.evidence = mem.evidence /\ rec.review = mem.review
    /\ rec.validation = mem.validation
    /\ \A i \in Subtasks : i # k => rec.child[i] = mem.child[i]
    /\ \A i \in Subtasks : rec.child[i] = "none" <=> mem.child[i] = "none" /\ i # k
    /\ \A i \in Subtasks : parent.child[i] \in Final => rec.child[i] \in Final
    /\ JobsInv(rec, jobs) /\ ParentInv(rec, jobs)

LEMMA ChildSaved ==
    ASSUME OrchInv, run.pc \in {"loop", "unwind", "record"}, NEW k \in Subtasks, jobs[k] # <<>>,
           NEW status \in {"active"} \cup Final, status \in Final \/ mem.child[k] = "none",
           NEW rec, rec = WithChild(k, status), ~ input.faults => status = jobs[k][1].status
    PROVE  GoodRecord(rec, k)
<1>1. /\ mem \in OrchestrationRecord /\ mem.status \in Underway /\ parent.status \in Underway
      /\ NamesJobs(mem, jobs) /\ JobsInv(parent, jobs) /\ ParentInv(parent, jobs)
      /\ (~ input.faults => mem = parent) /\ status # "none"
  BY Living DEF Synced, mem, Final
<1>2. \A i \in Subtasks : /\ parent.child[i] # "none" => mem.child[i] # "none"
                          /\ parent.child[i] \in Final => mem.child[i] \in Final
  BY Living DEF Synced, mem
<1>3. /\ mem.child \in [Subtasks -> {"none", "active"} \cup Final]
      /\ mem.childJob \in [Subtasks -> Nat]
  BY <1>1, RecordFields
<1>4. /\ rec \in OrchestrationRecord /\ rec.status = mem.status
      /\ rec.owner = mem.owner /\ rec.evidence = mem.evidence /\ rec.review = mem.review
      /\ rec.validation = mem.validation
      /\ rec.child = [mem.child EXCEPT ![k] = status] /\ rec.childJob = [mem.childJob EXCEPT ![k] = 1]
  <2>1. /\ [mem.child EXCEPT ![k] = status] \in [Subtasks -> {"none", "active"} \cup Final]
        /\ [mem.childJob EXCEPT ![k] = 1] \in [Subtasks -> Nat]
    BY <1>3
  <2>. QED BY <1>1, <2>1 DEF OrchestrationRecord, WithChild
<1>5. /\ rec.child[k] = status /\ rec.childJob[k] = 1
      /\ \A i \in Subtasks : i # k => rec.child[i] = mem.child[i] /\ rec.childJob[i] = mem.childJob[i]
  BY <1>3, <1>4
<1>6. \A i \in Subtasks : rec.child[i] = "none" <=> mem.child[i] = "none" /\ i # k
  BY <1>1, <1>5
<1>10. \A i \in Subtasks : parent.child[i] \in Final => rec.child[i] \in Final
  BY <1>2, <1>5 DEF Final
<1>7. NamesJobs(rec, jobs)
  BY <1>1, <1>4, <1>5 DEF NamesJobs
<1>8. JobsInv(rec, jobs)
  <2>1. Cardinality(Counted(rec, jobs)) <= input.concurrency
    BY <1>1, <1>10, CountedShrinks DEF JobsInv, OrchInv
  <2>. QED BY <1>1, <1>2, <1>4, <1>6, <2>1 DEF JobsInv, Underway
<1>9. ParentInv(rec, jobs)
  <2>1. ~ input.faults => Agrees(rec, jobs)
    BY <1>1, <1>5 DEF ParentInv, Agrees
  <2>2. rec.status \notin Final /\ answer \notin {"succeeded", "cancelled"}
    BY <1>1, <1>4 DEF ParentInv, Underway, Final
  <2>. QED BY <1>7, <2>1, <2>2 DEF ParentInv, Final
<1>. QED BY <1>1, <1>4, <1>5, <1>6, <1>7, <1>8, <1>9, <1>10 DEF GoodRecord

LEMMA RecordChildKeeps == OrchInv /\ RecordChild => OrchInv'
<1> SUFFICES ASSUME OrchInv, RecordChild PROVE OrchInv'
  OBVIOUS
<1>1. /\ run.pc = "record" /\ run \in Run /\ UNCHANGED envVars /\ EnvInv /\ JobsTyped(jobs)
      /\ mem = parent /\ parent.status \in Underway /\ broker = "up"
      /\ run.next \in Nat /\ run.next # 0 /\ run.next <= input.plan /\ mem \in OrchestrationRecord
      /\ jobs[run.next] # <<>> /\ mem.child[run.next] = "none"
  BY Living, RunFields DEF RecordChild, RunAt, LaunchInv, mem
<1>2. PICK k : k = run.next
  OBVIOUS
<1>3. k \in Subtasks /\ k \in Numbered /\ Len(jobs[k]) = 1 /\ jobs[k][1] \in Job
  BY <1>1, <1>2, InputFacts, JobFacts
<1>4. PICK status : status = jobs[k][1].status
  OBVIOUS
<1>5. status \in {"active"} \cup Final
  BY <1>3, <1>4 DEF Job
<1>6. PICK rec : rec = WithChild(k, status)
  OBVIOUS
<1>7. /\ rec \in OrchestrationRecord /\ NamesJobs(rec, jobs) /\ rec.status \in Underway
      /\ rec.owner = mem.owner /\ rec.evidence = mem.evidence /\ rec.review = mem.review
      /\ rec.validation = mem.validation
      /\ \A i \in Subtasks : i # k => rec.child[i] = mem.child[i]
      /\ \A i \in Subtasks : rec.child[i] = "none" <=> mem.child[i] = "none" /\ i # k
      /\ \A i \in Subtasks : parent.child[i] \in Final => rec.child[i] \in Final
      /\ JobsInv(rec, jobs) /\ ParentInv(rec, jobs)
  <2>1. jobs[k] # <<>> /\ run.pc \in {"loop", "unwind", "record"} /\ mem.child[k] = "none"
    BY <1>1, <1>2
  <2>2. GoodRecord(rec, k)
    BY <1>3, <1>4, <1>5, <1>6, <2>1, ChildSaved
  <2>. QED BY <2>2 DEF GoodRecord
<1>8. [mem EXCEPT !.child[k] = jobs[k][Len(jobs[k])].status, !.childJob[k] = Len(jobs[k])] = rec
  BY <1>1, <1>3, <1>4, <1>6 DEF OrchestrationRecord, WithChild
<1>9. \A i \in Subtasks : i \in Nat
  BY DEF Subtasks
<1>10. CASE /\ parent' = rec /\ UNCHANGED jobs
            /\ run' = [run EXCEPT !.pc = "loop", !.record = rec, !.next = @ + 1, !.active = @ \cup {k}]
  <2>1. PICK r : r = [run EXCEPT !.pc = "loop", !.record = rec, !.next = @ + 1, !.active = @ \cup {k}]
    OBVIOUS
  <2>2. /\ r \in Run /\ r.pc = "loop" /\ r.error = run.error /\ r.record = rec /\ r.next = k + 1
        /\ r.active = run.active \cup {k} /\ r.rv = run.rv /\ r.vl = run.vl /\ r.aborted = run.aborted
    <3>1. run.active \cup {k} \in SUBSET Subtasks /\ run.next + 1 \in Nat
      BY <1>1, <1>3, RunFields
    <3>. QED BY <1>1, <1>2, <1>7, <2>1, <3>1 DEF Run, Steps
  <2>3. Synced(r, rec)
    BY <1>1, <1>7, <2>2, Living DEF Synced, mem, Underway
  <2>4. LaunchInv(r, jobs)
    <3>1. \A i \in Subtasks : i < k => mem.child[i] # "none"
      BY <1>1, <1>2, Living DEF LaunchInv, mem
    <3>2. \A i \in Subtasks : i < k + 1 => rec.child[i] # "none"
      BY <1>1, <1>2, <1>7, <1>9, <3>1
    <3>3. \A i \in Subtasks :
            Works(jobs, i) /\ mem.child[i] \notin Final => i \in run.active \/ i >= k
      BY <1>1, <1>2, Living DEF LaunchInv, mem
    <3>4. \A i \in Subtasks :
            Works(jobs, i) /\ rec.child[i] \notin Final => i \in r.active \/ i >= k + 1
      BY <1>1, <1>2, <1>7, <1>9, <2>2, <3>3
    <3>5. \A i \in r.active : i <= input.plan /\ rec.child[i] # "none"
      <4>1. \A i \in run.active : i \in Subtasks /\ i <= input.plan /\ mem.child[i] # "none"
        BY <1>1, Living, RunFields DEF LaunchInv, mem
      <4>. QED BY <1>1, <1>2, <1>3, <1>7, <2>2, <4>1
    <3>6. k + 1 # 0
      BY <1>1, <1>2
    <3>. QED BY <2>2, <3>2, <3>4, <3>5, <3>6 DEF LaunchInv
  <2>5. RunInv(r, jobs)
    BY <1>1, <1>7, <2>2, <2>4, Living DEF RunInv, mem
  <2>6. Undisturbed(r, rec, jobs)
    <3>1. CASE crashes = 0 /\ ~ input.faults
      <4>1. \A i \in Subtasks : i > k => jobs[i] = <<>>
        BY <1>1, <1>2, <3>1, Living DEF Undisturbed
      <4>2. \A i \in Subtasks : i >= k + 1 => jobs[i] = <<>>
        BY <1>1, <1>2, <1>9, <4>1
      <4>3. ~ Works(jobs, 0) /\ parent.review # "pending" /\ parent.validation # "pending"
        BY <1>1, <3>1, Living DEF Undisturbed
      <4>. QED BY <1>1, <1>7, <2>2, <4>2, <4>3 DEF Undisturbed, Underway, Final
    <3>. QED BY <3>1 DEF Undisturbed
  <2>7. StateInv(r, rec, jobs)
    BY <1>7, <2>3, <2>5, <2>6 DEF StateInv
  <2>8. rec.owner = parent.owner /\ rec.status # "none"
    BY <1>1, <1>7 DEF Underway
  <2>. QED BY <1>1, <1>10, <2>1, <2>7, <2>8, Moves
<1>13. CASE /\ parent' = rec /\ UNCHANGED jobs
            /\ run' = [run EXCEPT !.pc = "follow", !.record = rec]
  <2>1. PICK r : r = [run EXCEPT !.pc = "follow", !.record = rec]
    OBVIOUS
  <2>2. /\ r \in Run /\ r.pc = "follow" /\ r.error = run.error /\ r.record = rec /\ r.next = k
        /\ r.active = run.active /\ r.rv = run.rv /\ r.vl = run.vl /\ r.aborted = run.aborted
    BY <1>1, <1>2, <1>7, <2>1 DEF Run, Steps
  <2>3. Synced(r, rec)
    BY <1>1, <1>7, <2>2, Living DEF Synced, mem, Underway
  <2>4. LaunchInv(r, jobs)
    <3>1. \A i \in Subtasks : i < k => rec.child[i] # "none"
      BY <1>1, <1>2, <1>7, <1>9, Living DEF LaunchInv, mem
    <3>2. \A i \in Subtasks :
            Works(jobs, i) /\ mem.child[i] \notin Final => i \in run.active \/ i >= k
      BY <1>1, <1>2, Living DEF LaunchInv, mem
    <3>3. \A i \in Subtasks :
            Works(jobs, i) /\ rec.child[i] \notin Final => i \in r.active \/ i >= k
      BY <1>1, <1>2, <1>7, <1>9, <2>2, <3>2
    <3>4. \A i \in r.active : i <= input.plan /\ rec.child[i] # "none"
      <4>1. \A i \in run.active : i \in Subtasks /\ i <= input.plan /\ mem.child[i] # "none"
        BY <1>1, Living, RunFields DEF LaunchInv, mem
      <4>. QED BY <1>1, <1>7, <2>2, <4>1
    <3>. QED BY <1>1, <1>2, <1>3, <1>7, <2>2, <3>1, <3>3, <3>4 DEF LaunchInv
  <2>5. RunInv(r, jobs)
    BY <1>1, <1>7, <2>2, <2>4, Living DEF RunInv, mem
  <2>6. Undisturbed(r, rec, jobs)
    <3>1. CASE crashes = 0 /\ ~ input.faults
      <4>1. \A i \in Subtasks : i > k => jobs[i] = <<>>
        BY <1>1, <1>2, <3>1, Living DEF Undisturbed
      <4>2. ~ Works(jobs, 0) /\ parent.review # "pending" /\ parent.validation # "pending"
        BY <1>1, <3>1, Living DEF Undisturbed
      <4>. QED BY <1>1, <1>7, <2>2, <4>1, <4>2 DEF Undisturbed, Underway, Final
    <3>. QED BY <3>1 DEF Undisturbed
  <2>7. StateInv(r, rec, jobs)
    BY <1>7, <2>3, <2>5, <2>6 DEF StateInv
  <2>8. rec.owner = parent.owner /\ rec.status # "none"
    BY <1>1, <1>7 DEF Underway
  <2>. QED BY <1>1, <1>13, <2>1, <2>7, <2>8, Moves
<1>11. CASE /\ input.faults /\ UNCHANGED parent
            /\ Abort(k) \/ UNCHANGED jobs
            /\ run' = [run EXCEPT !.pc = "orphan", !.record = rec, !.error = "plain"]
  <2>1. PICK r : r = [run EXCEPT !.pc = "orphan", !.record = rec, !.error = "plain"]
    OBVIOUS
  <2>2. /\ r \in Run /\ r.pc = "orphan" /\ r.error = "plain" /\ r.record = rec /\ r.next = k
        /\ r.active = run.active /\ r.rv = run.rv /\ r.vl = run.vl /\ r.aborted = run.aborted
    BY <1>1, <1>2, <1>7, <2>1 DEF Run, Steps
  <2>3. Synced(r, parent)
    BY <1>1, <1>7, <1>11, <2>2, Living DEF Synced, mem, Underway
  <2>4. LaunchInv(r, jobs)
    <3>1. \A i \in r.active : i <= input.plan /\ rec.child[i] # "none"
      <4>1. \A i \in run.active : i \in Subtasks /\ i <= input.plan /\ mem.child[i] # "none"
        BY <1>1, Living, RunFields DEF LaunchInv, mem
      <4>. QED BY <1>7, <2>2, <4>1
    <3>. QED BY <1>1, <1>2, <1>3, <1>7, <2>2, <3>1 DEF LaunchInv
  <2>5. RunInv(r, jobs)
    BY <1>1, <1>7, <1>11, <2>2, <2>4, Living DEF RunInv, mem
  <2>6. Undisturbed(r, parent, jobs)
    BY <1>11 DEF Undisturbed
  <2>7. StateInv(r, parent, jobs)
    BY <1>1, <2>3, <2>5, <2>6, Living DEF StateInv
  <2>. QED BY <1>1, <1>3, <1>11, <2>1, <2>7, StepWithJob
<1>. QED BY <1>2, <1>8, <1>10, <1>11, <1>13 DEF RecordChild

LEMMA SettleChildKeeps ==
    ASSUME OrchInv, NEW k \in Subtasks, SettleChild(k)
    PROVE  OrchInv'
<1>1. /\ run.pc \in {"loop", "unwind"} /\ run \in Run /\ UNCHANGED <<envVars, jobs>> /\ EnvInv
      /\ JobsTyped(jobs) /\ parent.status \in Underway /\ broker = "up" /\ k \in run.active
      /\ k \in Numbered /\ mem \in OrchestrationRecord /\ mem.child[k] # "none"
  BY Living, InputFacts DEF SettleChild, LaunchInv, mem
<1>2. jobs[k] # <<>> /\ mem.childJob[k] = 1 /\ ChildJob(k) = jobs[k][1]
  BY <1>1, Living DEF NamesJobs, ChildJob
<1>3. PICK active : active = run.active \ {k}
  OBVIOUS
<1>4. PICK after : after = IF run.pc = "loop" THEN "unwind" ELSE "catch"
  OBVIOUS
<1>5. active \in SUBSET Subtasks /\ active \subseteq run.active /\ after \in {"unwind", "catch"}
  BY <1>1, <1>3, <1>4, RunFields
<1>6. [run EXCEPT !.active = @ \ {k}] = [run EXCEPT !.active = active]
  BY <1>3
<1>7. ASSUME NEW status \in ChildOutcomes(k),
             NEW settled, settled = [mem EXCEPT !.child[k] = status],
             Appends(settled, [run EXCEPT !.active = active], settled,
                     [[run EXCEPT !.active = active] EXCEPT !.pc = after, !.error = "plain"])
      PROVE  OrchInv'
  <2>1. status \in Final /\ (~ input.faults => status = jobs[k][1].status)
    BY <1>2, <1>7 DEF ChildOutcomes, MayReject, Final
  <2>2. settled = WithChild(k, status)
    <3>1. mem.childJob = [mem.childJob EXCEPT ![k] = 1]
      BY <1>1, <1>2, RecordFields
    <3>. QED BY <1>1, <1>7, <3>1 DEF OrchestrationRecord, WithChild
  <2>3. /\ settled \in OrchestrationRecord /\ NamesJobs(settled, jobs) /\ settled.status \in Underway
        /\ settled.owner = mem.owner /\ settled.evidence = mem.evidence /\ settled.review = mem.review
        /\ settled.validation = mem.validation
        /\ \A i \in Subtasks : i # k => settled.child[i] = mem.child[i]
        /\ \A i \in Subtasks : settled.child[i] = "none" <=> mem.child[i] = "none" /\ i # k
        /\ \A i \in Subtasks : parent.child[i] \in Final => settled.child[i] \in Final
        /\ JobsInv(settled, jobs) /\ ParentInv(settled, jobs)
    <3>1. run.pc \in {"loop", "unwind", "record"}
      BY <1>1
    <3>2. GoodRecord(settled, k)
      BY <1>2, <2>1, <2>2, <3>1, ChildSaved
    <3>. QED BY <3>2 DEF GoodRecord
  <2>4. \A i \in Subtasks : settled.child[i] = "none" <=> mem.child[i] = "none"
    BY <1>1, <2>3
  <2>5. settled.child[k] \in Final
    BY <1>1, <1>7, <2>1, Living, RecordFields
  <2>6. CASE parent' = settled /\ run' = [[run EXCEPT !.active = active] EXCEPT !.record = settled]
    <3>1. PICK r : r = [run EXCEPT !.active = active, !.record = settled]
      OBVIOUS
    <3>2. run' = r
      BY <2>6, <3>1
    <3>3. /\ r \in Run /\ r.pc = run.pc /\ r.error = run.error /\ r.record = settled /\ r.next = run.next
          /\ r.active = active /\ r.rv = run.rv /\ r.vl = run.vl /\ r.aborted = run.aborted
      BY <1>1, <1>5, <2>3, <3>1 DEF Run
    <3>4. Synced(r, settled)
      BY <1>1, <2>3, <3>3, Living DEF Synced, mem, Underway
    <3>5. LaunchInv(r, jobs)
      <4>1. \A i \in r.active : i \in Subtasks /\ i <= input.plan /\ settled.child[i] # "none"
        BY <1>1, <1>5, <2>4, <3>3, Living DEF LaunchInv, mem
      <4>2. run.pc = "loop" => \A i \in Subtasks :
              /\ i < r.next => settled.child[i] # "none"
              /\ Works(jobs, i) /\ settled.child[i] \notin Final => i \in r.active \/ i >= r.next
        BY <1>1, <1>3, <2>3, <2>4, <2>5, <3>3, Living DEF LaunchInv, mem
      <4>. QED BY <1>1, <3>3, <4>1, <4>2, Living DEF LaunchInv
    <3>6. RunInv(r, jobs)
      BY <1>1, <2>3, <3>3, <3>5, Living DEF RunInv, mem
    <3>7. Undisturbed(r, settled, jobs)
      BY <1>1, <2>3, <3>3, Living DEF Undisturbed, Underway, Final
    <3>8. StateInv(r, settled, jobs)
      BY <2>3, <3>4, <3>6, <3>7 DEF StateInv
    <3>9. settled.owner = parent.owner /\ settled.status # "none"
      BY <1>1, <2>3, Living DEF Synced, mem, Underway
    <3>. QED BY <1>1, <2>6, <3>2, <3>8, <3>9, Moves
  <2>7. CASE /\ input.faults /\ UNCHANGED parent
             /\ run' = [[[run EXCEPT !.active = active] EXCEPT !.pc = after, !.error = "plain"]
                          EXCEPT !.record = settled]
    <3>1. PICK r : r = [run EXCEPT !.active = active, !.pc = after, !.error = "plain", !.record = settled]
      OBVIOUS
    <3>2. run' = r
      BY <2>7, <3>1
    <3>3. /\ r \in Run /\ r.pc = after /\ r.error = "plain" /\ r.record = settled /\ r.next = run.next
          /\ r.active = active /\ r.rv = run.rv /\ r.vl = run.vl /\ r.aborted = run.aborted
      BY <1>1, <1>5, <2>3, <3>1 DEF Run, Steps
    <3>4. Synced(r, parent)
      BY <1>1, <1>5, <2>3, <2>4, <2>7, <3>3, Living DEF Synced, mem, Underway
    <3>5. LaunchInv(r, jobs)
      <4>1. \A i \in r.active : i \in Subtasks /\ i <= input.plan /\ settled.child[i] # "none"
        BY <1>1, <1>5, <2>4, <3>3, Living DEF LaunchInv, mem
      <4>. QED BY <1>1, <1>5, <3>3, <4>1, Living DEF LaunchInv
    <3>6. RunInv(r, jobs)
      <4>1. run.rv \in {"idle", "done", "threw"} /\ run.vl \in {"idle", "done", "threw"}
        BY <1>1, Living DEF RunInv
      <4>. QED BY <1>5, <2>3, <2>7, <3>3, <3>5, <4>1 DEF RunInv
    <3>7. Undisturbed(r, parent, jobs)
      BY <2>7 DEF Undisturbed
    <3>. QED BY <1>1, <2>7, <3>2, <3>4, <3>6, <3>7, RunMoves
  <2>. QED BY <1>7, <2>6, <2>7 DEF Appends
<1>8. ASSUME MayReject(k, ChildJob(k)), UNCHANGED parent,
             run' = [[run EXCEPT !.active = active] EXCEPT !.pc = after, !.error = "persistence"]
      PROVE  OrchInv'
  <2>1. input.faults
    BY <1>8 DEF MayReject
  <2>2. PICK r : r = [run EXCEPT !.active = active, !.pc = after, !.error = "persistence"]
    OBVIOUS
  <2>3. run' = r
    BY <1>8, <2>2
  <2>4. /\ r \in Run /\ r.pc = after /\ r.error = "persistence" /\ r.record = mem /\ r.next = run.next
        /\ r.active = active /\ r.rv = run.rv /\ r.vl = run.vl /\ r.aborted = run.aborted
    BY <1>1, <1>5, <2>2 DEF Run, Steps, mem
  <2>5. Synced(r, parent)
    BY <1>1, <1>5, <2>1, <2>4, Living DEF Synced, mem, Underway
  <2>6. RunInv(r, jobs)
    BY <1>1, <1>5, <2>1, <2>4, Living DEF RunInv, LaunchInv, mem
  <2>7. Undisturbed(r, parent, jobs)
    BY <2>1 DEF Undisturbed
  <2>. QED BY <1>1, <1>8, <2>3, <2>5, <2>6, <2>7, RunMoves
<1>. QED BY <1>4, <1>6, <1>7, <1>8 DEF SettleChild, RunAt

-----------------------------------------------------------------------------
(* The end of the execution.                                               *)

\* No process holds the parent.
LEMMA NoRunFits ==
    ASSUME EnvInv, NEW js, JobsTyped(js), NEW p
    PROVE  RunInv(NoRun, js) /\ Synced(NoRun, p)
<1>1. NoParent \in OrchestrationRecord
  BY DEF NoParent, OrchestrationRecord, Evidence
<1>2. NoRun \in Run
  BY <1>1 DEF NoRun, Run, Steps, Threads
<1>3. NamesJobs(NoParent, js)
  BY <1>1 DEF NamesJobs, NoParent
<1>. QED BY <1>2, <1>3 DEF RunInv, LaunchInv, Synced, NoRun

\* The process ends with the saved record p and tells the outcome a.
LEMMA Ends ==
    ASSUME OrchInv, run.pc # "none", UNCHANGED <<stillVars, jobs>>, run' = NoRun,
           NEW p, parent' = p, NEW a \in {"rejected"} \cup Final, answer' = a,
           p.status # "none", p.owner = parent.owner, NamesJobs(p, jobs), ~ input.faults => Agrees(p, jobs),
           \A k \in Subtasks : parent.child[k] # "none" => p.child[k] # "none",
           \A k \in Subtasks : parent.child[k] \in Final => p.child[k] \in Final,
           p.status = "succeeded" => \A k \in Subtasks : k <= input.plan => p.child[k] = "succeeded",
           ~ input.faults /\ p.status = "cancelled" => requested /\ p.evidence,
           a \in {"succeeded", "cancelled"} => p.status = a,
           Undisturbed(NoRun, p, jobs)
    PROVE  OrchInv'
<1>1. EnvInv'
  BY DEF OrchInv, EnvInv, stillVars
<1>2. CallsInv'
  BY DEF OrchInv, CallsInv, stillVars
<1>3. JobsInv(parent, jobs)'
  <2>1. JobsInv(p, jobs)
    <3>1. Cardinality(Counted(p, jobs)) <= input.concurrency
      BY Living, CountedShrinks DEF JobsInv
    <3>. QED BY <3>1, Living DEF JobsInv
  <2>. QED BY <2>1 DEF JobsInv, stillVars
<1>4. ParentInv(parent, jobs)'
  BY DEF ParentInv, stillVars
<1>5. Synced(run, parent)' /\ RunInv(run, jobs)'
  <2>1. Synced(NoRun, p) /\ RunInv(NoRun, jobs)
    BY Living, NoRunFits
  <2>. QED BY <2>1 DEF Synced, RunInv, LaunchInv, stillVars
<1>6. Undisturbed(run, parent, jobs)'
  BY DEF Undisturbed, stillVars
<1>. QED BY <1>1, <1>2, <1>3, <1>4, <1>5, <1>6 DEF OrchInv, StateInv

\* The record in memory ends as status.
LEMMA EndSaved ==
    ASSUME OrchInv, run.pc \in {"finish", "catch"}, NEW status \in Final,
           NEW p, p = [mem EXCEPT !.status = status]
    PROVE  /\ p \in OrchestrationRecord /\ p.status = status /\ p.status # "none"
           /\ p.owner = parent.owner /\ p.child = mem.child /\ p.childJob = mem.childJob
           /\ p.evidence = mem.evidence /\ p.review = mem.review /\ p.validation = mem.validation
           /\ NamesJobs(p, jobs) /\ (~ input.faults => Agrees(p, jobs))
           /\ \A k \in Subtasks : parent.child[k] # "none" => p.child[k] # "none"
           /\ \A k \in Subtasks : parent.child[k] \in Final => p.child[k] \in Final
           /\ Undisturbed(NoRun, p, jobs)
<1>1. /\ mem \in OrchestrationRecord /\ NamesJobs(mem, jobs) /\ (~ input.faults => mem = parent)
      /\ mem.owner = parent.owner /\ ParentInv(parent, jobs) /\ EnvInv
      /\ \A k \in Subtasks : parent.child[k] # "none" => mem.child[k] # "none"
      /\ \A k \in Subtasks : parent.child[k] \in Final => mem.child[k] \in Final
  BY Living DEF Synced, mem
<1>2. /\ p \in OrchestrationRecord /\ p.status = status /\ p.owner = mem.owner
      /\ p.child = mem.child /\ p.childJob = mem.childJob /\ p.evidence = mem.evidence
      /\ p.review = mem.review /\ p.validation = mem.validation
  BY <1>1, RecordFields DEF OrchestrationRecord
<1>3. NamesJobs(p, jobs)
  BY <1>1, <1>2 DEF NamesJobs
<1>4. ~ input.faults => Agrees(p, jobs)
  BY <1>1, <1>2 DEF ParentInv, Agrees
<1>5. Undisturbed(NoRun, p, jobs)
  <2>1. CASE crashes = 0 /\ ~ input.faults
    <3>1. \A k \in Subtasks : ~ Works(jobs, k)
      BY <2>1, Living DEF Undisturbed
    <3>2. ~ Works(jobs, 0) /\ parent.review # "pending" /\ parent.validation # "pending"
      BY <2>1, Living DEF Undisturbed
    <3>3. \A k \in Numbered : k = 0 \/ k \in Subtasks
      BY <1>1, InputFacts DEF Numbered, Subtasks
    <3>. QED BY <1>1, <1>2, <2>1, <3>1, <3>2, <3>3 DEF Undisturbed, NoRun
  <2>. QED BY <2>1 DEF Undisturbed
<1>. QED BY <1>1, <1>2, <1>3, <1>4, <1>5 DEF Final

\* The completion is rejected and nothing saved: the store failed.
LEMMA Rejects ==
    ASSUME OrchInv, run.pc # "none", input.faults, UNCHANGED <<stillVars, jobs, parent>>, run' = NoRun,
           NEW a \in {"rejected", "failed"}, answer' = a
    PROVE  OrchInv'
<1>1. /\ parent.status \in Underway /\ NamesJobs(parent, jobs)
  BY Living
<1>2. Undisturbed(NoRun, parent, jobs)
  BY DEF Undisturbed
<1>. QED BY <1>1, <1>2, Ends DEF Underway, Final

LEMMA FinishParentKeeps == OrchInv /\ FinishParent => OrchInv'
<1> SUFFICES ASSUME OrchInv, FinishParent PROVE OrchInv'
  OBVIOUS
<1>1. /\ run.pc = "finish" /\ run \in Run /\ UNCHANGED <<stillVars, jobs>> /\ EnvInv
      /\ mem = parent /\ mem \in OrchestrationRecord /\ parent.status \in Underway
  BY Living DEF FinishParent, RunAt
<1>2. PICK status : status =
                         IF \A k \in 1..input.plan : mem.child[k] = "succeeded" THEN "succeeded" ELSE "failed"
  OBVIOUS
<1>3. status \in Final /\ status # "cancelled"
  BY <1>2 DEF Final
<1>4. status = "succeeded" => \A k \in Subtasks : k <= input.plan => mem.child[k] = "succeeded"
  <2>1. \A k \in Subtasks : k <= input.plan => k \in 1..input.plan
    BY <1>1, InputFacts DEF Subtasks
  <2>. QED BY <1>2, <2>1
<1>5. PICK final : final = [mem EXCEPT !.status = status]
  OBVIOUS
<1>6. /\ final \in OrchestrationRecord /\ final.status = status /\ final.status # "none"
      /\ final.owner = parent.owner /\ final.child = mem.child /\ final.childJob = mem.childJob
      /\ final.evidence = mem.evidence
      /\ NamesJobs(final, jobs) /\ (~ input.faults => Agrees(final, jobs))
      /\ \A k \in Subtasks : parent.child[k] # "none" => final.child[k] # "none"
      /\ \A k \in Subtasks : parent.child[k] \in Final => final.child[k] \in Final
      /\ Undisturbed(NoRun, final, jobs)
  BY <1>1, <1>3, <1>5, EndSaved
<1>7. CASE parent' = final /\ run' = NoRun /\ answer' \in {status, "rejected"}
  BY <1>1, <1>3, <1>4, <1>6, <1>7, Ends
<1>8. CASE requested /\ run' = [run EXCEPT !.pc = "refused"] /\ UNCHANGED <<parent, answer>>
  <2>1. PICK r : r = [run EXCEPT !.pc = "refused"]
    OBVIOUS
  <2>2. /\ r \in Run /\ r.pc = "refused" /\ r.error = run.error /\ r.record = mem /\ r.next = run.next
        /\ r.active = run.active /\ r.rv = run.rv /\ r.vl = run.vl /\ r.aborted = run.aborted
    BY <1>1, <2>1 DEF Run, Steps, mem
  <2>3. Synced(r, parent)
    BY <1>1, <2>2, Living DEF Synced, mem
  <2>4. RunInv(r, jobs)
    BY <1>1, <1>8, <2>2, Living DEF RunInv, LaunchInv, mem
  <2>5. Undisturbed(r, parent, jobs)
    BY <1>1, <2>2, Living DEF Undisturbed
  <2>6. UNCHANGED <<envVars, parent, jobs>>
    BY <1>1, <1>8 DEF envVars, stillVars
  <2>. QED BY <1>8, <2>1, <2>3, <2>4, <2>5, <2>6, RunMoves
<1>9. CASE input.faults /\ run' = [Throw("catch", "plain") EXCEPT !.record = final]
          /\ UNCHANGED <<parent, answer>>
  <2>1. PICK r : r = [run EXCEPT !.pc = "catch", !.error = "plain", !.record = final]
    OBVIOUS
  <2>2. run' = r
    BY <1>9, <2>1 DEF Throw
  <2>3. /\ r \in Run /\ r.pc = "catch" /\ r.error = "plain" /\ r.record = final /\ r.next = run.next
        /\ r.active = run.active /\ r.rv = run.rv /\ r.vl = run.vl /\ r.aborted = run.aborted
    BY <1>1, <1>6, <2>1 DEF Run, Steps
  <2>4. Synced(r, parent)
    BY <1>1, <1>6, <1>9, <2>3, Living DEF Synced
  <2>5. RunInv(r, jobs)
    BY <1>1, <1>6, <1>9, <2>3, Living DEF RunInv, LaunchInv, mem
  <2>6. Undisturbed(r, parent, jobs)
    BY <1>9 DEF Undisturbed
  <2>7. UNCHANGED <<envVars, parent, jobs>>
    BY <1>1, <1>9 DEF envVars, stillVars
  <2>. QED BY <2>2, <2>4, <2>5, <2>6, <2>7, RunMoves
<1>10. \/ parent' = final /\ run' = NoRun /\ answer' \in {status, "rejected"}
       \/ requested /\ run' = [run EXCEPT !.pc = "refused"] /\ UNCHANGED <<parent, answer>>
       \/ input.faults /\ run' = [Throw("catch", "plain") EXCEPT !.record = final]
          /\ UNCHANGED <<parent, answer>>
  BY <1>2, <1>5 DEF FinishParent, Ended, Settle
<1>. QED BY <1>7, <1>8, <1>9, <1>10

LEMMA RefusedKeeps == OrchInv /\ Refused => OrchInv'
<1> SUFFICES ASSUME OrchInv, Refused PROVE OrchInv'
  OBVIOUS
<1>1. /\ run.pc = "refused" /\ run \in Run /\ UNCHANGED <<stillVars, jobs>> /\ EnvInv
      /\ mem = parent /\ mem \in OrchestrationRecord /\ mem.status \in Underway /\ requested
      /\ run.rv \in {"idle", "done", "threw"} /\ run.vl \in {"idle", "done", "threw"}
  BY Living DEF Refused, RunAt, RunInv
<1>2. CASE /\ parent' = [mem EXCEPT !.evidence = @ \/ ~ run.aborted]
           /\ run' = [Throw("catch", "plain") EXCEPT !.aborted = TRUE, !.record = parent']
           /\ UNCHANGED answer
  <2>1. PICK rec : rec = [mem EXCEPT !.evidence = @ \/ ~ run.aborted]
    OBVIOUS
  <2>2. /\ rec \in OrchestrationRecord /\ rec.status = mem.status /\ rec.owner = mem.owner
        /\ rec.child = mem.child /\ rec.childJob = mem.childJob
        /\ rec.evidence = (mem.evidence \/ ~ run.aborted)
        /\ rec.review = mem.review /\ rec.validation = mem.validation
    BY <1>1, <2>1, RecordFields DEF OrchestrationRecord
  <2>3. PICK r : r = [run EXCEPT !.pc = "catch", !.error = "plain", !.aborted = TRUE, !.record = rec]
    OBVIOUS
  <2>4. run' = r /\ parent' = rec
    BY <1>2, <2>1, <2>3 DEF Throw
  <2>5. /\ r \in Run /\ r.pc = "catch" /\ r.error = "plain" /\ r.record = rec /\ r.next = run.next
        /\ r.active = run.active /\ r.rv = run.rv /\ r.vl = run.vl /\ r.aborted = TRUE
    BY <1>1, <2>2, <2>3 DEF Run, Steps
  <2>6. RunInv(r, jobs)
    <3>1. ~ input.faults => rec.evidence
      BY <2>2, <1>1, Living DEF RunInv, mem
    <3>. QED BY <1>1, <2>2, <2>5, <3>1, Living DEF RunInv, LaunchInv, NamesJobs, mem
  <2>7. Undisturbed(r, rec, jobs)
    BY <1>1, <2>2, <2>5, Living DEF Undisturbed, Underway, Final
  <2>8. UNCHANGED <<envVars, jobs>>
    BY <1>1, <1>2 DEF envVars, stillVars
  <2>9. r.pc \in {"orphan", "unwind"} \/ r.error = "persistence" \/ r.rv = "orphan" => input.faults
    BY <1>1, <2>5
  <2>. QED BY <1>1, <2>2, <2>4, <2>5, <2>6, <2>7, <2>8, <2>9, RunSaves
<1>3. CASE input.faults /\ run' = NoRun /\ answer' = "rejected" /\ UNCHANGED parent
  BY <1>1, <1>3, Rejects
<1>. QED BY <1>2, <1>3 DEF Refused, Ended, Settle

LEMMA CatchKeeps == OrchInv /\ Catch => OrchInv'
<1> SUFFICES ASSUME OrchInv, Catch PROVE OrchInv'
  OBVIOUS
<1>1. /\ run.pc = "catch" /\ run \in Run /\ UNCHANGED <<stillVars, jobs>> /\ EnvInv /\ run' = NoRun
      /\ mem \in OrchestrationRecord /\ (~ input.faults => mem = parent) /\ parent.status \in Underway
  BY Living DEF Catch, RunAt, Ended
<1>2. PICK status : status = IF run.aborted THEN "cancelled" ELSE "failed"
  OBVIOUS
<1>3. status \in Final /\ status # "succeeded" /\ (status = "cancelled" => run.aborted)
  BY <1>2 DEF Final
<1>4. CASE parent' = [mem EXCEPT !.status = status] /\ answer' \in {status, "rejected"}
  <2>1. PICK p : p = [mem EXCEPT !.status = status]
    OBVIOUS
  <2>2. /\ p.status = status /\ p.status # "none" /\ p.owner = parent.owner
        /\ p.evidence = mem.evidence /\ NamesJobs(p, jobs) /\ (~ input.faults => Agrees(p, jobs))
        /\ \A k \in Subtasks : parent.child[k] # "none" => p.child[k] # "none"
        /\ \A k \in Subtasks : parent.child[k] \in Final => p.child[k] \in Final
        /\ Undisturbed(NoRun, p, jobs)
    <3>1. run.pc \in {"finish", "catch"} /\ status \in Final
      BY <1>1, <1>3
    <3>2. status # "none"
      BY <1>3 DEF Final
    <3>. QED BY <2>1, <3>1, <3>2, EndSaved
  <2>3. ~ input.faults /\ p.status = "cancelled" => requested /\ p.evidence
    BY <1>1, <1>3, <2>2, Living DEF RunInv, mem
  <2>. QED BY <1>1, <1>3, <1>4, <2>1, <2>2, <2>3, Ends
<1>5. CASE input.faults /\ UNCHANGED parent /\ answer' \in {"rejected", "failed"}
  BY <1>1, <1>5, Rejects
<1>6. mem.status = "failed" \/ run.error = "persistence" => input.faults
  BY <1>1, Living DEF Synced, Underway, mem
<1>. QED BY <1>2, <1>4, <1>5, <1>6 DEF Catch, Settle

-----------------------------------------------------------------------------
(* The callers.                                                            *)

\* Whoever runs, what it holds is unchanged by a step of a caller.
LEMMA CallerMoves ==
    ASSUME OrchInv, UNCHANGED <<input, broker, crashes, requested, answer, jobs>>, CallsInv',
           StateInv(run', parent', jobs)
    PROVE  OrchInv'
<1>1. EnvInv'
  BY DEF OrchInv, EnvInv
<1>2. StateInv(run, parent, jobs)'
  BY DEF StateInv, JobsInv, ParentInv, Synced, RunInv, LaunchInv, Undisturbed
<1>. QED BY <1>1, <1>2 DEF OrchInv

LEMMA CaptureKeeps ==
    ASSUME OrchInv, NEW c \in Callers, Capture(c)
    PROVE  OrchInv'
<1>1. /\ broker = "up" /\ calls[c] = "idle" /\ calls' = [calls EXCEPT ![c] = "captured"]
      /\ snapshots' = (IF input.plan > 0 THEN snapshots \cup {c} ELSE snapshots)
      /\ UNCHANGED <<input, broker, crashes, requested, answer, jobs>> /\ UNCHANGED <<parent, run>>
  BY DEF Capture
<1>2. CallsInv'
  <2>1. CallsInv
    BY DEF OrchInv
  <2>2. calls' \in [Callers -> {"idle", "captured", "done"}] /\ snapshots' \subseteq Callers
        /\ snapshots \subseteq snapshots' /\ (input.plan > 0 => c \in snapshots')
    BY <1>1, <2>1 DEF CallsInv
  <2>3. \A d \in parent.owner : calls'[d] = "done"
    <3>1. ASSUME NEW d \in parent.owner PROVE calls'[d] = "done"
      <4>1. calls[d] = "done" /\ d # c
        BY <1>1, <2>1 DEF CallsInv
      <4>. QED BY <1>1, <2>1, <4>1 DEF CallsInv
    <3>. QED BY <3>1
  <2>4. \A d \in Callers : calls'[d] = "captured" => d = c \/ calls[d] = "captured"
    BY <1>1, <2>1 DEF CallsInv
  <2>. QED BY <1>1, <2>1, <2>2, <2>3, <2>4 DEF CallsInv
<1>3. StateInv(run', parent', jobs)
  BY <1>1 DEF OrchInv
<1>. QED BY <1>1, <1>2, <1>3, CallerMoves

LEMMA AdmissionKeeps ==
    ASSUME OrchInv, NEW c \in Callers, Admission(c)
    PROVE  OrchInv'
<1>1. /\ calls[c] = "captured" /\ calls' = [calls EXCEPT ![c] = "done"]
      /\ UNCHANGED <<input, broker, crashes, requested, answer, jobs>> /\ CallsInv /\ EnvInv
      /\ calls \in [Callers -> {"idle", "captured", "done"}]
  BY DEF OrchInv, Admission, CallsInv
<1>2. /\ calls'[c] = "done" /\ calls' \in [Callers -> {"idle", "captured", "done"}]
      /\ \A d \in Callers : calls[d] = "done" => calls'[d] = "done"
      /\ \A d \in Callers : calls'[d] = "captured" => calls[d] = "captured" /\ d # c
      /\ broker = "up" /\ (input.plan > 0 => c \in snapshots)
  BY <1>1 DEF CallsInv
<1>3. CASE /\ parent.status = "none" /\ parent' = [NoParent EXCEPT !.status = "queued", !.owner = {c}]
           /\ run' = [NoRun EXCEPT !.pc = "handoff", !.record = parent'] /\ UNCHANGED snapshots
  <2>1. PICK p : p = [NoParent EXCEPT !.status = "queued", !.owner = {c}]
    OBVIOUS
  <2>2. PICK r : r = [NoRun EXCEPT !.pc = "handoff", !.record = p]
    OBVIOUS
  <2>3. parent' = p /\ run' = r
    BY <1>3, <2>1, <2>2
  <2>4. /\ p \in OrchestrationRecord /\ p.status = "queued" /\ p.owner = {c}
        /\ \A k \in Subtasks : p.child[k] = "none" /\ p.childJob[k] = 0
        /\ p.review = "none" /\ p.validation = "none"
    BY <2>1 DEF NoParent, OrchestrationRecord, Evidence
  <2>5. /\ r \in Run /\ r.pc = "handoff" /\ r.error = "none" /\ r.record = p /\ r.next = 1
        /\ r.active = {} /\ r.rv = "idle" /\ r.vl = "idle" /\ r.aborted = FALSE
    BY <2>2, <2>4 DEF NoRun, Run, Steps, Threads
  <2>6. JobsInv(parent, jobs) /\ ParentInv(parent, jobs) /\ JobsTyped(jobs)
    BY DEF OrchInv, StateInv, JobsInv
  <2>7. \A k \in Numbered : jobs[k] = <<>> /\ ~ Works(jobs, k)
    BY <1>3, <2>6, JobFacts DEF JobsInv
  <2>8. JobsInv(p, jobs)
    <3>1. Counted(p, jobs) = {} /\ Cardinality({}) = 0
      BY <1>1, <2>7, InputFacts, FS_EmptySet DEF Counted
    <3>. QED BY <1>1, <2>4, <2>6, <2>7, <3>1, InputFacts DEF JobsInv
  <2>9. ParentInv(p, jobs)
    BY <1>3, <2>4, <2>6 DEF ParentInv, NamesJobs, Agrees, Final
  <2>10. Synced(r, p)
    BY <1>2, <2>4, <2>5 DEF Synced, Underway
  <2>11. RunInv(r, jobs)
    BY <2>4, <2>5 DEF RunInv, LaunchInv, NamesJobs
  <2>12. Undisturbed(r, p, jobs)
    BY <1>1, <2>4, <2>5, <2>7, InputFacts DEF Undisturbed, Final
  <2>13. CallsInv'
    BY <1>1, <1>2, <1>3, <2>3, <2>4 DEF CallsInv
  <2>. QED BY <1>1, <2>3, <2>8, <2>9, <2>10, <2>11, <2>12, <2>13, CallerMoves DEF StateInv
<1>4. CASE snapshots' = snapshots \ {c} /\ UNCHANGED <<parent, run>>
  <2>1. \A d \in parent.owner : calls'[d] = "done" /\ (input.plan > 0 => d \in snapshots')
    <3>1. ASSUME NEW d \in parent.owner PROVE d \in Callers /\ calls[d] = "done" /\ d # c
      <4>1. parent.owner \subseteq Callers
        BY RecordFields DEF OrchInv, StateInv, ParentInv, NamesJobs
      <4>. QED BY <1>1, <4>1 DEF CallsInv
    <3>. QED BY <1>1, <1>2, <1>4, <3>1 DEF CallsInv
  <2>2. CallsInv'
    BY <1>1, <1>2, <1>4, <2>1 DEF CallsInv
  <2>3. StateInv(run', parent', jobs)
    BY <1>4 DEF OrchInv
  <2>. QED BY <1>1, <2>2, <2>3, CallerMoves
<1>. QED BY <1>3, <1>4 DEF Admission

LEMMA RequestCancelKeeps == OrchInv /\ RequestCancel => OrchInv'
<1> SUFFICES ASSUME OrchInv, RequestCancel PROVE OrchInv'
  OBVIOUS
<1>1. requested' = TRUE /\ UNCHANGED <<input, broker, crashes, calls, snapshots, parent, run, jobs, answer>>
  BY DEF RequestCancel
<1>2. EnvInv' /\ CallsInv'
  BY <1>1 DEF OrchInv, EnvInv, CallsInv
<1>3. JobsInv(parent, jobs)' /\ Synced(run, parent)' /\ Undisturbed(run, parent, jobs)'
  BY <1>1 DEF OrchInv, StateInv, JobsInv, Synced, Undisturbed
<1>4. ParentInv(parent, jobs)'
  BY <1>1 DEF OrchInv, StateInv, ParentInv
<1>5. RunInv(run, jobs)'
  BY <1>1 DEF OrchInv, StateInv, RunInv, LaunchInv
<1>. QED BY <1>2, <1>3, <1>4, <1>5 DEF OrchInv, StateInv

-----------------------------------------------------------------------------
(* The broker process dies and comes back.                                 *)

\* Between two processes nobody holds the parent.
LEMMA BrokerDown ==
    ASSUME OrchInv, broker # "up"
    PROVE  /\ run = NoRun /\ run.pc = "none" /\ crashes # 0 /\ \A c \in Callers : calls[c] # "captured"
           /\ EnvInv /\ JobsInv(parent, jobs) /\ ParentInv(parent, jobs) /\ JobsTyped(jobs)
BY DEF OrchInv, EnvInv, CallsInv, StateInv, JobsInv, Synced, NoRun

\* The process starts: it has recovered its Jobs once it goes on to the parents, and holds r and
\* has saved p once it is up.
LEMMA Starts ==
    ASSUME OrchInv, broker # "up", NEW b \in {"jobs", "parents", "up"}, broker' = b,
           UNCHANGED <<input, crashes, calls, snapshots, requested, answer, jobs>>,
           ~ input.faults /\ b \in {"parents", "up"} =>
                \A k \in Numbered : \A i \in DOMAIN jobs[k] :
                  jobs[k][i].status = "active" => jobs[k][i].running,
           NEW r, NEW p, run' = r, parent' = p,
           p.status = parent.status, p.owner = parent.owner, p.child = parent.child,
           p.status = "none" => p = parent, ParentInv(p, jobs),
           r = NoRun \/ (b = "up" /\ r.pc # "none" /\ p.status \in Underway /\ r.record = p),
           r.pc \notin {"orphan", "unwind"} /\ r.error # "persistence" /\ r.rv # "orphan", RunInv(r, jobs)
    PROVE  OrchInv'
<1>1. EnvInv' /\ CallsInv'
  BY BrokerDown DEF OrchInv, EnvInv, CallsInv
<1>2. JobsInv(p, jobs)'
  <2>1. Counted(p, jobs) = Counted(parent, jobs)
    BY DEF Counted
  <2>. QED BY <2>1, BrokerDown DEF JobsInv
<1>3. ParentInv(p, jobs)'
  BY DEF ParentInv
<1>4. Synced(r, p)'
  BY DEF Synced, NoRun, Underway
<1>5. RunInv(r, jobs)'
  BY DEF RunInv, LaunchInv
<1>6. Undisturbed(r, p, jobs)'
  BY BrokerDown DEF Undisturbed
<1>7. JobsInv(parent, jobs)' /\ ParentInv(parent, jobs)'
  BY <1>2, <1>3 DEF JobsInv, ParentInv
<1>8. Synced(run, parent)' /\ Undisturbed(run, parent, jobs)'
  BY <1>4, <1>6 DEF Synced, Undisturbed
<1>9. RunInv(run, jobs)'
  BY <1>5 DEF RunInv, LaunchInv
<1>. QED BY <1>1, <1>7, <1>8, <1>9 DEF OrchInv, StateInv

LEMMA StartupKeeps == OrchInv /\ Startup => OrchInv'
<1> SUFFICES ASSUME OrchInv, Startup PROVE OrchInv'
  OBVIOUS
<1>1. /\ broker # "up" /\ UNCHANGED <<input, crashes, calls, snapshots, requested, answer, jobs>>
  BY DEF Startup, BootBroker, JobsRecovered, RecoverParent
<1>2. /\ RunInv(NoRun, jobs) /\ NoRun.pc = "none" /\ NoRun.error = "none" /\ NoRun.rv = "idle"
      /\ run = NoRun /\ ParentInv(parent, jobs) /\ JobsInv(parent, jobs) /\ JobsTyped(jobs) /\ EnvInv
  BY <1>1, BrokerDown, NoRunFits DEF NoRun
<1>3. CASE BootBroker
  BY <1>1, <1>2, <1>3, Starts DEF BootBroker
<1>4. CASE JobsRecovered
  <2>1. ~ input.faults =>
           \A k \in Numbered : \A i \in DOMAIN jobs[k] : jobs[k][i].status = "active" => jobs[k][i].running
    BY <1>4 DEF JobsRecovered, Active, Numbered
  <2>. QED BY <1>1, <1>2, <1>4, <2>1, Starts DEF JobsRecovered
<1>5. CASE RecoverParent
  <2>1. /\ broker = "parents" /\ broker' = "up"
        /\ ~ input.faults =>
             \A k \in Numbered : \A i \in DOMAIN jobs[k] : jobs[k][i].status = "active" => jobs[k][i].running
    BY <1>2, <1>5 DEF RecoverParent, JobsInv
  <2>2. CASE parent.status \in {"queued", "dispatching"}
    <3>1. PICK p : p = [parent EXCEPT !.evidence = @ \/ requested]
      OBVIOUS
    <3>2. PICK r : r = [NoRun EXCEPT !.pc = "handoff", !.record = p, !.aborted = requested]
      OBVIOUS
    <3>3. parent' = p /\ run' = r
      BY <1>5, <2>2, <3>1, <3>2 DEF RecoverParent
    <3>4. parent \in OrchestrationRecord /\ requested \in BOOLEAN
      BY <1>2 DEF ParentInv, NamesJobs, EnvInv
    <3>5. /\ p \in OrchestrationRecord /\ p.status = parent.status /\ p.owner = parent.owner
          /\ p.child = parent.child /\ p.childJob = parent.childJob
          /\ p.evidence = (parent.evidence \/ requested)
      BY <3>1, <3>4, RecordFields DEF OrchestrationRecord
    <3>6. /\ r \in Run /\ r.pc = "handoff" /\ r.error = "none" /\ r.record = p /\ r.next = 1
          /\ r.active = {} /\ r.rv = "idle" /\ r.vl = "idle" /\ r.aborted = requested
      <4>1. NoRun \in Run
        BY <1>2 DEF RunInv
      <4>2. r \in Run
        BY <3>2, <3>4, <3>5, <4>1 DEF Run, Steps
      <4>. QED BY <3>2, <4>2 DEF NoRun
    <3>7. NamesJobs(p, jobs)
      BY <1>2, <3>5 DEF ParentInv, NamesJobs
    <3>8. ParentInv(p, jobs)
      BY <1>2, <2>2, <3>5, <3>7 DEF ParentInv, Agrees
    <3>9. RunInv(r, jobs)
      <4>1. r.aborted => requested /\ p.evidence
        BY <3>4, <3>5, <3>6
      <4>2. LaunchInv(r, jobs)
        BY <3>6 DEF LaunchInv
      <4>. QED BY <3>6, <3>7, <4>1, <4>2 DEF RunInv
    <3>10. p.status \in Underway /\ p.status # "none"
      BY <2>2, <3>5 DEF Underway
    <3>. QED BY <1>1, <2>1, <3>3, <3>5, <3>6, <3>8, <3>9, <3>10, Starts
  <2>3. CASE parent.status \notin {"queued", "dispatching"}
    <3>1. UNCHANGED <<parent, run>>
      BY <1>5, <2>3 DEF RecoverParent
    <3>. QED BY <1>1, <1>2, <2>1, <3>1, Starts
  <2>. QED BY <2>2, <2>3
<1>. QED BY <1>3, <1>4, <1>5 DEF Startup

\* The process dies: its Jobs stand still.
LEMMA DieKeeps ==
    ASSUME OrchInv, Die, crashes < input.crashes, crashes' = crashes + 1,
           UNCHANGED <<input, snapshots, parent, requested, answer>>
    PROVE  OrchInv'
<1>1. /\ EnvInv /\ CallsInv /\ JobsInv(parent, jobs) /\ ParentInv(parent, jobs) /\ JobsTyped(jobs)
      /\ calls \in [Callers -> {"idle", "captured", "done"}]
  BY DEF OrchInv, StateInv, JobsInv, CallsInv
<1>2. /\ broker' = "down" /\ run' = NoRun /\ jobs' = Halted(jobs)
      /\ calls' = [c \in Callers |-> IF calls[c] = "captured" THEN "done" ELSE calls[c]]
  BY DEF Die
<1>3. PICK js : js = jobs'
  OBVIOUS
<1>4. ASSUME NEW k \in Numbered
      PROVE  /\ js[k] = <<>> <=> jobs[k] = <<>>
             /\ js[k] = <<>> \/ \E job \in Job : js[k] = <<job>> /\ job.status = jobs[k][1].status
  <2>1. js[k] = [i \in DOMAIN jobs[k] |-> [jobs[k][i] EXCEPT !.running = FALSE]]
    BY <1>2, <1>3 DEF Halted, Numbered
  <2>2. CASE jobs[k] = <<>>
    BY <2>1, <2>2
  <2>3. CASE jobs[k] # <<>>
    <3>1. DOMAIN jobs[k] = {1} /\ jobs[k][1] \in Job
      BY <1>1, <2>3, JobFacts
    <3>2. PICK job : job = [jobs[k][1] EXCEPT !.running = FALSE]
      OBVIOUS
    <3>3. job \in Job /\ job.status = jobs[k][1].status
      BY <3>1, <3>2 DEF Job
    <3>4. \A i \in {1} : [jobs[k][i] EXCEPT !.running = FALSE] = job
      BY <3>2
    <3>5. [i \in {1} |-> job] = <<job>>
      OBVIOUS
    <3>6. js[k] = <<job>>
      BY <2>1, <3>1, <3>4, <3>5, Zenon
    <3>. QED BY <2>3, <3>3, <3>6
  <2>. QED BY <2>2, <2>3
<1>5. JobsTyped(js)
  <2>1. js = [k \in Numbered |-> js[k]]
    BY <1>2, <1>3 DEF Halted, Numbered
  <2>. QED BY <1>4, <2>1 DEF JobsTyped
<1>6. ASSUME NEW k \in Numbered
      PROVE  (Works(js, k) <=> Works(jobs, k)) /\ (jobs[k] # <<>> => js[k][1].status = jobs[k][1].status)
  <2>1. CASE jobs[k] = <<>>
    <3>1. ~ Works(jobs, k) /\ ~ Works(js, k)
      BY <1>1, <1>4, <1>5, <2>1, JobFacts
    <3>. QED BY <2>1, <3>1
  <2>2. CASE jobs[k] # <<>>
    <3>1. PICK job \in Job : js[k] = <<job>> /\ job.status = jobs[k][1].status
      BY <1>4, <2>2
    <3>2. js[k][1].status = jobs[k][1].status /\ js[k] # <<>>
      BY <3>1
    <3>3. Works(js, k) <=> js[k][1].status = "active"
      BY <1>5, <3>2, JobFacts
    <3>4. Works(jobs, k) <=> jobs[k][1].status = "active"
      BY <1>1, <2>2, JobFacts
    <3>. QED BY <3>2, <3>3, <3>4
  <2>. QED BY <2>1, <2>2
<1>7. EnvInv'
  <2>1. input.crashes \in Nat
    BY <1>1, OrchestrationAssumption DEF EnvInv
  <2>. QED BY <1>1, <1>2, <2>1 DEF EnvInv
<1>8. CallsInv'
  <2>1. \A c \in parent.owner : c \in Callers
    BY <1>1, RecordFields DEF ParentInv, NamesJobs
  <2>. QED BY <1>1, <1>2, <2>1 DEF CallsInv
<1>9. JobsInv(parent, js)'
  <2>1. Counted(parent, js) = Counted(parent, jobs)
    BY <1>1, <1>6, InputFacts DEF Counted
  <2>2. \A k \in Subtasks : js[k] # <<>> => jobs[k] # <<>>
    BY <1>1, <1>4, InputFacts
  <2>3. parent.status = "none" => \A k \in Numbered : js[k] = <<>>
    BY <1>1, <1>4 DEF JobsInv
  <2>. QED BY <1>1, <1>2, <1>5, <2>1, <2>2, <2>3 DEF JobsInv
<1>10. NamesJobs(parent, js)
  <2>1. \A k \in Subtasks : jobs[k] # <<>> => js[k] # <<>>
    BY <1>1, <1>4, InputFacts
  <2>. QED BY <1>1, <2>1 DEF ParentInv, NamesJobs
<1>11. ParentInv(parent, js)'
  <2>1. ~ input.faults => Agrees(parent, js)
    <3>1. \A k \in Subtasks : parent.child[k] \in Final => jobs[k] # <<>>
      BY <1>1 DEF ParentInv, NamesJobs, Final
    <3>. QED BY <1>1, <1>6, <3>1, InputFacts DEF ParentInv, Agrees
  <2>. QED BY <1>1, <1>10, <2>1 DEF ParentInv
<1>12. Synced(NoRun, parent)' /\ RunInv(NoRun, js)'
  <2>1. Synced(NoRun, parent) /\ RunInv(NoRun, js)
    BY <1>1, <1>5, NoRunFits
  <2>. QED BY <2>1 DEF Synced, RunInv, LaunchInv, NoRun
<1>13. Undisturbed(NoRun, parent, js)'
  <2>1. crashes' # 0
    BY <1>1 DEF EnvInv
  <2>. QED BY <2>1 DEF Undisturbed
<1>14. JobsInv(parent, jobs)' /\ ParentInv(parent, jobs)' /\ Synced(run, parent)' /\ RunInv(run, jobs)'
       /\ Undisturbed(run, parent, jobs)'
  BY <1>2, <1>3, <1>9, <1>11, <1>12, <1>13
     DEF JobsInv, ParentInv, Synced, RunInv, LaunchInv, Undisturbed
<1>. QED BY <1>7, <1>8, <1>14 DEF OrchInv, StateInv

-----------------------------------------------------------------------------
(* The theorems.                                                           *)

LEMMA InitKeeps == OrchInit => OrchInv
<1> SUFFICES ASSUME OrchInit PROVE OrchInv
  OBVIOUS
<1>1. input \in Inputs /\ input.crashes \in Nat /\ broker = "up" /\ crashes = 0
  BY OrchestrationAssumption DEF OrchInit
<1>2. EnvInv
  <2>1. crashes \in 0..input.crashes
    BY <1>1
  <2>. QED BY <1>1, <2>1 DEF OrchInit, EnvInv
<1>3. CallsInv
  BY DEF OrchInit, CallsInv, NoParent
<1>4. JobsTyped(jobs) /\ \A k \in Numbered : jobs[k] = <<>> /\ ~ Works(jobs, k)
  BY DEF OrchInit, JobsTyped, Numbered, Works
<1>5. RunInv(run, jobs) /\ Synced(run, parent) /\ NamesJobs(parent, jobs)
  <2>1. RunInv(NoRun, jobs) /\ Synced(NoRun, parent)
    BY <1>2, <1>4, NoRunFits
  <2>. QED BY <2>1 DEF OrchInit, RunInv, NoRun
<1>6. JobsInv(parent, jobs)
  <2>1. Counted(parent, jobs) = {} /\ Cardinality({}) = 0
    BY <1>2, <1>4, InputFacts, FS_EmptySet DEF Counted
  <2>. QED BY <1>2, <1>4, <2>1, InputFacts DEF JobsInv
<1>7. ParentInv(parent, jobs)
  BY <1>5 DEF OrchInit, ParentInv, Agrees, NoParent, Final
<1>8. Undisturbed(run, parent, jobs)
  BY <1>2, <1>4, InputFacts DEF OrchInit, Undisturbed, NoRun, NoParent
<1>. QED BY <1>2, <1>3, <1>5, <1>6, <1>7, <1>8 DEF OrchInv, StateInv

LEMMA NextKeeps == OrchInv /\ [OrchNext]_orchVars => OrchInv'
<1> SUFFICES ASSUME OrchInv, [OrchNext]_orchVars PROVE OrchInv'
  OBVIOUS
<1>1. ASSUME NEW c \in Callers, Capture(c) \/ Admission(c) PROVE OrchInv'
  BY <1>1, CaptureKeeps, AdmissionKeeps
<1>2. CASE RequestCancel \/ MonitorFails
  BY <1>2, RequestCancelKeeps, MonitorFailsKeeps
<1>3. CASE Execution
  BY <1>3, ObserveRequestKeeps, ThrowIfAbortedKeeps, HandOffKeeps, UpstreamKeeps, DispatchingKeeps,
     LaunchSettledKeeps, LaunchKnownKeeps, LaunchNewKeeps, AdmitChildKeeps, RecordChildKeeps,
     FollowChildKeeps, OrphanSettlesKeeps, DispatchedKeeps, PostChildKeeps, EvidenceSettledKeeps,
     FinishParentKeeps, RefusedKeeps, CatchKeeps DEF Execution
<1>4. CASE ReviewThread
  BY <1>4, SkipReviewKeeps, AdmitReviewerKeeps, RecordReviewerKeeps, ReviewerOrphanSettlesKeeps,
     ReviewerSettlesKeeps DEF ReviewThread
<1>5. CASE ValidationThread
  BY <1>5, CheckValidationKeeps, TakeSlotKeeps, ValidateKeeps DEF ValidationThread
<1>6. ASSUME NEW k \in Subtasks, SettleChild(k) PROVE OrchInv'
  BY <1>6, SettleChildKeeps
<1>7. ASSUME NEW k \in 0..MaxSubtasks, CancelJob(k) \/ JobSettles(k) \/ JobGivesUp(k) \/ RecoverJob(k)
      PROVE  OrchInv'
  BY <1>7, JobsGoOn DEF Numbered
<1>8. CASE Startup
  BY <1>8, StartupKeeps
<1>9. CASE CrashBroker \/ RecoverParentFails
  BY <1>9, DieKeeps DEF CrashBroker, RecoverParentFails
<1>10. CASE UNCHANGED orchVars
  <2>1. StateInv(run, parent, jobs)
    BY DEF OrchInv
  <2>2. /\ UNCHANGED envVars /\ run' = run /\ parent' = parent /\ jobs' = jobs
        /\ parent.owner = parent.owner /\ (parent.status = "none" => parent = parent)
    BY <1>10 DEF orchVars
  <2>. QED BY <2>1, <2>2, Moves
<1>. QED BY <1>1, <1>2, <1>3, <1>4, <1>5, <1>6, <1>7, <1>8, <1>9, <1>10 DEF OrchNext

\* Every reachable state has the invariant: the record in memory runs ahead of the saved one only
\* on the way to the end, every Job of a child is of the plan, in its order, and named by the
\* record once its admission is recorded, and a child that works is followed, still ahead of the
\* launches, or was given up when its completion rejected.
THEOREM OrchestrationInvariant == OrchSpec => []OrchInv
BY InitKeeps, NextKeeps, PTL DEF OrchSpec

\* However often the process dies between the admission of a Job and the event that records it,
\* a subtask has one Job, and the snapshot it starts from stays on disk.  While the store works,
\* the children never work more at a time than the policy allows; with one that fails, those that
\* the saved record has not given up do not.
THEOREM PlanKept == OrchSpec => []JobsWithinPlan
BY OrchestrationInvariant, InvGivesPlan, PTL

\* While the store works, the record tells of a child what its Job came to, and a success of
\* every subtask.
THEOREM ChildrenToldTruly == OrchSpec => []ChildrenAgree
BY OrchestrationInvariant, InvGivesRest, PTL

\* A parent that nothing interrupted ends after all its Jobs and with no evidence pending.
THEOREM LaunchedWorkSettles == OrchSpec => []UninterruptedLeavesNothing
BY OrchestrationInvariant, InvGivesRest, PTL

\* A completion that reports success or cancellation reports what is saved, and a cancellation
\* is saved after the event that says who asked for it.
THEOREM OutcomesOnRecord == OrchSpec => []OutcomeOnRecord
BY OrchestrationInvariant, InvGivesRest, PTL

-----------------------------------------------------------------------------
(* The contract.  A second invariant says what the record in memory has    *)
(* ahead of the saved one when a step saves it: its status never goes back *)
(* to queued, and it is dispatching where children start.                  *)

Launching == {"loop", "admit", "record", "follow", "orphan", "unwind", "post", "evidence"}

OnTheWay(r, p) ==
    /\ p.dispatched => p.status \notin {"none", "queued"}
    /\ r.pc # "none" =>
         /\ r.record.dispatched => r.record.status # "queued"
         /\ p.status = "dispatching" => r.record.status # "queued"
    /\ r.pc \in Launching => r.record.status = "dispatching"

PlanInv == OnTheWay(run, parent)

\* What is to be shown of every step.
Follows == PlanInv' /\ [Contract!Next]_(Contract!vars)

\* What the Jobs have come to is left as it is, or one of them ends.
Idle == Outcomes(jobs') = Outcomes(jobs)
JobsStep == Idle \/ \E k \in Numbered, outcome \in Final : Contract!JobEnds(k, outcome)

LEMMA OutcomesIdle == jobs' = jobs => Idle
BY DEF Idle

LEMMA Stutters ==
    ASSUME UNCHANGED <<input, requested>>, Idle,
           parent'.status = parent.status, parent'.child = parent.child
    PROVE  UNCHANGED Contract!vars
BY DEF Contract!vars, Idle

LEMMA JobsStepAllowed ==
    ASSUME UNCHANGED <<input, requested, parent>>, JobsStep
    PROVE  [Contract!Next]_(Contract!vars)
<1>1. CASE Idle
  BY <1>1, Stutters
<1>2. CASE \E k \in Numbered, outcome \in Final : Contract!JobEnds(k, outcome)
  BY <1>2 DEF Numbered, Final, Contract!Ended, Contract!Next
<1>. QED BY <1>1, <1>2 DEF JobsStep

\* The process goes on and leaves the records as they are.
LEMMA RecordStays ==
    ASSUME OrchInv, PlanInv, UNCHANGED <<input, requested, parent>>, JobsStep, run.pc # "none",
           NEW r, run' = r, r.record = mem,
           r.pc \in Launching => run.pc \in Launching \/ mem.status = "dispatching"
    PROVE  Follows
<1>1. OnTheWay(r, parent)
  BY DEF PlanInv, OnTheWay, mem
<1>2. PlanInv'
  BY <1>1 DEF PlanInv
<1>. QED BY <1>2, JobsStepAllowed DEF Follows

\* What a save may say of subtask k that the record in memory did not.
Told(k, value) ==
    /\ Outcomes(jobs)[k] # "none"
    /\ value \in Final \/ (value = "active" /\ mem.child[k] \notin Final)
    /\ ~ input.faults => value = Outcomes(jobs)[k]

LEMMA OutcomeFacts ==
    ASSUME NEW js, JobsTyped(js), NEW k \in Numbered
    PROVE  /\ Outcomes(js)[k] = IF js[k] = <<>> THEN "none" ELSE js[k][1].status
           /\ Outcomes(js)[k] = "none" <=> js[k] = <<>>
           /\ Outcomes(js)[k] = "active" <=> Works(js, k)
<1>1. Outcomes(js)[k] = IF js[k] = <<>> THEN "none" ELSE js[k][1].status
  BY DEF Outcomes, Numbered
<1>2. js[k] # <<>> => js[k][1].status # "none"
  BY JobFacts DEF Job, Final
<1>. QED BY <1>1, <1>2, JobFacts

\* Subtask k, or the reviewer, has come to what its Job is now.
LEMMA OutcomeChanges ==
    ASSUME JobsTyped(jobs), NEW k \in Numbered, NEW job, jobs' = [jobs EXCEPT ![k] = <<job>>]
    PROVE  Outcomes(jobs') = [Outcomes(jobs) EXCEPT ![k] = job.status]
<1>1. PICK new : new = jobs'
  OBVIOUS
<1>2. new[k] = <<job>> /\ \A i \in Numbered : i # k => new[i] = jobs[i]
  BY <1>1 DEF JobsTyped
<1>3. new[k] # <<>> /\ new[k][1] = job
  BY <1>2
<1>4. \A i \in 0..MaxSubtasks : (IF new[i] = <<>> THEN "none" ELSE new[i][1].status)
           = IF i = k THEN job.status ELSE IF jobs[i] = <<>> THEN "none" ELSE jobs[i][1].status
  BY <1>2, <1>3 DEF Numbered
<1>5. Outcomes(new) = [Outcomes(jobs) EXCEPT ![k] = job.status]
  BY <1>4 DEF Outcomes
<1>. QED BY <1>1, <1>5

\* The active Job of subtask k becomes job.
LEMMA JobBecomes ==
    ASSUME OrchInv, UNCHANGED <<input, requested, parent>>, NEW k \in Numbered,
           NEW i \in Active(k), NEW job, job.status \in {"active"} \cup Final,
           jobs' = [jobs EXCEPT ![k] = [jobs[k] EXCEPT ![i] = job]]
    PROVE  JobsStep
<1>1. JobsTyped(jobs)
  BY DEF OrchInv, StateInv, JobsInv
<1>2. i = 1 /\ jobs[k] # <<>> /\ jobs[k] = <<jobs[k][1]>> /\ jobs[k][1].status = "active"
  BY <1>1, JobFacts DEF Active
<1>3. jobs' = [jobs EXCEPT ![k] = <<job>>]
  <2>1. [jobs[k] EXCEPT ![i] = job] = <<job>>
    BY <1>2
  <2>. QED BY <2>1
<1>4. Outcomes(jobs') = [Outcomes(jobs) EXCEPT ![k] = job.status]
  BY <1>1, <1>3, OutcomeChanges
<1>5. Outcomes(jobs)[k] = "active"
  BY <1>1, <1>2, OutcomeFacts
<1>6. CASE job.status = "active"
  <2>1. Outcomes(jobs') = Outcomes(jobs)
    BY <1>4, <1>5, <1>6 DEF Outcomes
  <2>. QED BY <2>1 DEF Idle, JobsStep
<1>7. CASE job.status \in Final
  <2>1. Contract!JobEnds(k, job.status)
    BY <1>4, <1>5 DEF Contract!JobEnds
  <2>. QED BY <1>7, <2>1 DEF JobsStep
<1>. QED BY <1>6, <1>7

\* An abort leaves what the Jobs have come to.
LEMMA AbortIdle ==
    ASSUME OrchInv, NEW k \in Numbered, Abort(k)
    PROVE  Idle
<1>1. PICK js : js = jobs'
  OBVIOUS
<1>2. JobsTyped(jobs)
  BY DEF OrchInv, StateInv, JobsInv
<1>3. js = [jobs EXCEPT ![k] = [i \in DOMAIN jobs[k] |->
              IF jobs[k][i].status = "active" THEN [jobs[k][i] EXCEPT !.cancel = TRUE] ELSE jobs[k][i]]]
  BY <1>1 DEF Abort
<1>4. ASSUME NEW i \in Numbered
      PROVE  (js[i] = <<>> <=> jobs[i] = <<>>) /\ (jobs[i] # <<>> => js[i][1].status = jobs[i][1].status)
  <2>1. CASE i # k
    BY <1>2, <1>3, <2>1 DEF JobsTyped
  <2>2. CASE i = k /\ jobs[k] = <<>>
    BY <1>2, <1>3, <2>2 DEF JobsTyped
  <2>3. CASE i = k /\ jobs[k] # <<>>
    <3>1. jobs[k][1] \in Job /\ DOMAIN jobs[k] = {1}
      BY <1>2, <2>3, JobFacts
    <3>2. js[k] = [n \in {1} |->
                     IF jobs[k][n].status = "active" THEN [jobs[k][n] EXCEPT !.cancel = TRUE] ELSE jobs[k][n]]
      BY <1>2, <1>3, <3>1 DEF JobsTyped
    <3>3. js[k][1].status = jobs[k][1].status
      BY <3>1, <3>2 DEF Job
    <3>4. js[k] # <<>>
      <4>1. DOMAIN js[k] = {1}
        BY <3>2
      <4>2. DOMAIN <<>> = {}
        OBVIOUS
      <4>. QED BY <4>1, <4>2
    <3>. QED BY <2>3, <3>3, <3>4
  <2>. QED BY <2>1, <2>2, <2>3
<1>5. \A i \in 0..MaxSubtasks : (IF js[i] = <<>> THEN "none" ELSE js[i][1].status)
                              = (IF jobs[i] = <<>> THEN "none" ELSE jobs[i][1].status)
  BY <1>4 DEF Numbered
<1>6. Outcomes(js) = Outcomes(jobs)
  BY <1>5 DEF Outcomes
<1>. QED BY <1>1, <1>6 DEF Idle

\* A Job is left alone, or aborted, or taken over.
LEMMA JobHandled ==
    ASSUME OrchInv, UNCHANGED <<input, requested, parent>>, NEW k \in Numbered,
           UNCHANGED jobs \/ Abort(k) \/ RecoverStopped(k, TRUE) \/ RecoverStopped(k, FALSE)
    PROVE  JobsStep
<1>1. CASE UNCHANGED jobs \/ Abort(k)
  BY <1>1, OutcomesIdle, AbortIdle DEF JobsStep
<1>2. CASE RecoverStopped(k, TRUE) \/ RecoverStopped(k, FALSE)
  <2>1. PICK i \in Active(k) :
          \/ jobs' = [jobs EXCEPT ![k] = [jobs[k] EXCEPT ![i] = [jobs[k][i] EXCEPT !.running = TRUE]]]
          \/ jobs' = [jobs EXCEPT ![k] = [jobs[k] EXCEPT ![i] = Settled(jobs[k][i])]]
    BY <1>2 DEF RecoverStopped
  <2>2. jobs[k][i] \in Job /\ jobs[k][i].status = "active"
    BY JobFacts DEF Active, OrchInv, StateInv, JobsInv
  <2>3. CASE jobs' = [jobs EXCEPT ![k] = [jobs[k] EXCEPT ![i] = [jobs[k][i] EXCEPT !.running = TRUE]]]
    <3>1. PICK job : job = [jobs[k][i] EXCEPT !.running = TRUE]
      OBVIOUS
    <3>2. job.status = "active"
      BY <2>2, <3>1 DEF Job
    <3>. QED BY <2>3, <3>1, <3>2, JobBecomes
  <2>4. CASE jobs' = [jobs EXCEPT ![k] = [jobs[k] EXCEPT ![i] = Settled(jobs[k][i])]]
    <3>1. PICK job : job = Settled(jobs[k][i])
      OBVIOUS
    <3>2. job.status \in Final
      BY <2>2, <3>1 DEF Job, Settled, Final
    <3>. QED BY <2>4, <3>1, <3>2, JobBecomes
  <2>. QED BY <2>1, <2>3, <2>4
<1>. QED BY <1>1, <1>2

\* The process saves the record rec.
LEMMA RecordSaved ==
    ASSUME OrchInv, PlanInv, UNCHANGED <<input, requested>>, Idle, run.pc # "none",
           NEW rec \in OrchestrationRecord, parent' = rec,
           \A k \in Subtasks : rec.child[k] = mem.child[k] \/ Told(k, rec.child[k]),
           rec.status \in {mem.status, "dispatching", "failed", "cancelled"} \cup Final,
           rec.status = "succeeded" =>
             ~ requested /\ \A k \in Subtasks : k <= input.plan => rec.child[k] = "succeeded",
           rec.status = "cancelled" /\ ~ input.faults => requested
    PROVE  Contract!Save(rec.status) /\ [Contract!Next]_(Contract!vars)
<1>1. /\ parent.status \in Underway /\ JobsTyped(jobs) /\ NamesJobs(mem, jobs) /\ NamesJobs(parent, jobs)
      /\ ~ input.faults => mem = parent /\ Agrees(parent, jobs)
      /\ \A k \in Subtasks : parent.child[k] # "none" => mem.child[k] # "none"
      /\ \A k \in Subtasks : parent.child[k] \in Final => mem.child[k] \in Final
      /\ parent.status = "dispatching" => mem.status # "queued"
      /\ mem.status # "none"
  BY Living DEF Synced, ParentInv, PlanInv, OnTheWay, mem
<1>2. ASSUME NEW k \in Subtasks PROVE Contract!MayRecord(k, rec.child[k])
  <2>1. k \in Numbered /\ parent.child[k] \in {"none", "active"} \cup Final
        /\ mem.child[k] \in {"none", "active"} \cup Final
    BY <1>1, RecordFields, Living, InputFacts DEF NamesJobs
  <2>2. CASE rec.child[k] = mem.child[k]
    <3>1. mem.child[k] # "none" => Outcomes(jobs)[k] # "none"
      BY <1>1, <2>1, OutcomeFacts DEF NamesJobs
    <3>. QED BY <1>1, <2>1, <2>2, <3>1 DEF Contract!MayRecord, Contract!Ended, Final
  <2>3. CASE Told(k, rec.child[k])
    <3>1. ~ input.faults /\ parent.child[k] \in Final => parent.child[k] = Outcomes(jobs)[k]
      BY <1>1, <2>1, OutcomeFacts DEF Agrees, NamesJobs, Final
    <3>. QED BY <1>1, <2>1, <2>3, <3>1 DEF Told, Contract!MayRecord, Contract!Ended, Final
  <2>. QED BY <2>2, <2>3
<1>3. rec.status \in {parent.status, "dispatching"} \cup Final
  <2>1. mem.status \in {"queued", "dispatching"} \cup Final
    BY <1>1, RecordFields, Living DEF NamesJobs
  <2>. QED BY <1>1, <2>1 DEF Underway, Final
<1>4. \A k \in 1..MaxSubtasks : Contract!MayRecord(k, rec.child[k])
  BY <1>2 DEF Subtasks
<1>5. rec.status = "succeeded" => ~ requested /\ \A k \in 1..input.plan : rec.child[k] = "succeeded"
  <2>1. \A k \in 1..input.plan : k \in Subtasks /\ k <= input.plan
    BY Living, InputFacts
  <2>. QED BY <2>1
<1>6. Contract!Save(rec.status)
  BY <1>1, <1>3, <1>4, <1>5 DEF Contract!Save, Contract!Ended, Contract!Plan, Underway, Final, Idle
<1>7. rec.status \in {"queued", "dispatching"} \cup Contract!Ended
  BY <1>1, <1>3 DEF Underway, Final, Contract!Ended
<1>. QED BY <1>6, <1>7 DEF Contract!Next

\* The new state of the process after it saved rec.
LEMMA SavedFollows ==
    ASSUME NEW rec, parent' = rec, NEW r, run' = r, r.pc # "none" => r.record = rec,
           rec.dispatched => rec.status \notin {"none", "queued"},
           r.pc \in Launching => rec.status = "dispatching"
    PROVE  PlanInv'
<1>1. OnTheWay(r, rec)
  BY DEF OnTheWay, Launching
<1>. QED BY <1>1 DEF PlanInv

\* An append that changes neither the status nor a child.
LEMMA AppendsFollow ==
    ASSUME OrchInv, PlanInv, UNCHANGED <<input, requested>>, Idle, run.pc # "none",
           NEW rec \in OrchestrationRecord, rec.status = mem.status, rec.child = mem.child,
           rec.dispatched = mem.dispatched, mem.status \in Underway,
           NEW ok \in Run, NEW failed \in Run, Appends(rec, ok, mem, failed),
           \A r \in {ok, failed} : r.pc \in Launching => run.pc \in Launching
    PROVE  Follows
<1>1. CASE parent' = rec /\ run' = [ok EXCEPT !.record = rec]
  <2>1. PICK r : r = [ok EXCEPT !.record = rec]
    OBVIOUS
  <2>2. run' = r /\ r.record = rec /\ r.pc = ok.pc
    BY <1>1, <2>1 DEF Run
  <2>3. rec.dispatched => rec.status \notin {"none", "queued"}
    BY DEF PlanInv, OnTheWay, mem, Underway
  <2>4. run.pc \in Launching => rec.status = "dispatching"
    BY DEF PlanInv, OnTheWay, mem
  <2>5. PlanInv'
    BY <1>1, <2>2, <2>3, <2>4, SavedFollows
  <2>6. [Contract!Next]_(Contract!vars)
    BY <1>1, RecordSaved DEF Underway
  <2>. QED BY <2>5, <2>6 DEF Follows
<1>2. CASE run' = [failed EXCEPT !.record = mem] /\ UNCHANGED parent
  <2>1. PICK r : r = [failed EXCEPT !.record = mem]
    OBVIOUS
  <2>2. run' = r /\ r.record = mem /\ r.pc = failed.pc
    BY <1>2, <2>1 DEF Run
  <2>. QED BY <1>2, <2>2, RecordStays DEF JobsStep
<1>. QED BY <1>1, <1>2 DEF Appends

\* Steps of the process that save nothing and leave its record as it is.
LEMMA QuietFollows ==
    ASSUME OrchInv, PlanInv,
           \/ MonitorFails \/ ThrowIfAborted \/ LaunchSettled \/ LaunchKnown \/ LaunchNew
           \/ Dispatched \/ PostChild \/ EvidenceSettled \/ ReviewerOrphanSettles
    PROVE  Follows
<1>1. UNCHANGED <<input, requested, parent, jobs>> /\ run.pc # "none" /\ run \in Run
  <2>1. UNCHANGED <<input, requested, parent, jobs>>
    BY DEF MonitorFails, ThrowIfAborted, LaunchSettled, LaunchKnown, LaunchNew, Dispatched, PostChild,
       EvidenceSettled, ReviewerOrphanSettles, envVars
  <2>2. run.pc # "none"
    BY ThreadsRun DEF MonitorFails, ThrowIfAborted, LaunchSettled, LaunchKnown, LaunchNew, Dispatched,
       PostChild, EvidenceSettled, ReviewerOrphanSettles, MayLaunch, RunAt
  <2>. QED BY <2>1, <2>2, Living
<1>2. PICK r : r = run'
  OBVIOUS
<1>3. r.record = mem /\ (r.pc \in Launching => run.pc \in Launching)
  <2>1. CASE MonitorFails
    BY <1>1, <1>2, <2>1 DEF MonitorFails, Run, mem
  <2>2. CASE ThrowIfAborted
    BY <1>1, <1>2, <2>2 DEF ThrowIfAborted, Throw, Run, mem, Launching
  <2>3. CASE LaunchSettled
    BY <1>1, <1>2, <2>3 DEF LaunchSettled, MayLaunch, RunAt, Throw, Run, mem, Launching
  <2>4. CASE LaunchKnown \/ LaunchNew
    BY <1>1, <1>2, <2>4 DEF LaunchKnown, LaunchNew, MayLaunch, RunAt, Run, mem, Launching
  <2>5. CASE Dispatched \/ PostChild
    BY <1>1, <1>2, <2>5 DEF Dispatched, PostChild, RunAt, Run, mem, Launching
  <2>6. CASE EvidenceSettled
    BY <1>1, <1>2, <2>6 DEF EvidenceSettled, Throw, RunAt, Run, mem, Launching
  <2>7. CASE ReviewerOrphanSettles
    BY <1>1, <1>2, <2>7 DEF ReviewerOrphanSettles, Run, mem
  <2>. QED BY <2>1, <2>2, <2>3, <2>4, <2>5, <2>6, <2>7
<1>. QED BY <1>1, <1>2, <1>3, OutcomesIdle, RecordStays DEF JobsStep

\* An append of one field of evidence, or of the event of the hand-off.
LEMMA EarlyAppendsFollow ==
    ASSUME OrchInv, PlanInv, ObserveRequest \/ HandOff \/ Upstream
    PROVE  Follows
<1>1. /\ UNCHANGED <<input, requested, jobs>> /\ Idle /\ run.pc # "none" /\ run \in Run
      /\ mem \in OrchestrationRecord /\ mem.status \in Underway
      /\ Throw("catch", "plain") \in Run /\ Throw("catch", "plain").pc = "catch"
  <2>1. UNCHANGED <<input, requested, jobs>> /\ run.pc # "none" /\ mem.status \notin Final
    BY Living DEF ObserveRequest, HandOff, Upstream, RunAt, envVars, Underway, Final
  <2>2. run \in Run /\ mem \in OrchestrationRecord /\ mem.status # "none"
    BY <2>1, Living DEF Synced, mem
  <2>3. Throw("catch", "plain") \in Run /\ Throw("catch", "plain").pc = "catch"
    BY <2>2 DEF Throw, Run, Steps
  <2>. QED BY <2>1, <2>2, <2>3, OutcomesIdle, RecordFields DEF Underway
<1>2. ASSUME NEW rec \in OrchestrationRecord, rec.status = mem.status, rec.child = mem.child,
             rec.dispatched = mem.dispatched, NEW ok \in Run, NEW failed \in Run,
             Appends(rec, ok, mem, failed),
             ok.pc \notin Launching \/ ok.pc = run.pc, failed.pc \notin Launching \/ failed.pc = run.pc
      PROVE  Follows
  BY <1>1, <1>2, AppendsFollow
<1>3. CASE ObserveRequest
  <2>1. PICK rec : rec = [mem EXCEPT !.evidence = TRUE]
    OBVIOUS
  <2>2. PICK ok : ok = [run EXCEPT !.aborted = TRUE]
    OBVIOUS
  <2>3. rec \in OrchestrationRecord /\ rec.status = mem.status /\ rec.child = mem.child
        /\ rec.dispatched = mem.dispatched
    BY <1>1, <2>1, RecordFields DEF OrchestrationRecord
  <2>4. ok \in Run /\ ok.pc = run.pc
    BY <1>1, <2>2 DEF Run
  <2>5. Appends(rec, ok, mem, ok)
    BY <1>3, <2>1, <2>2 DEF ObserveRequest
  <2>. QED BY <1>2, <2>3, <2>4, <2>5
<1>4. ASSUME NEW pc \in {"plan", "skip", "finish"}, run' = [run EXCEPT !.pc = pc], UNCHANGED parent
      PROVE  Follows
  <2>1. PICK r : r = [run EXCEPT !.pc = pc]
    OBVIOUS
  <2>2. r.record = mem /\ r.pc \notin Launching
    BY <1>1, <2>1 DEF Run, mem, Launching
  <2>. QED BY <1>1, <1>4, <2>1, <2>2, RecordStays DEF JobsStep
<1>5. Throw("catch", "plain").pc \notin Launching
  BY <1>1 DEF Throw, Run, Launching
<1>6. CASE HandOff
  <2>1. CASE Appends([mem EXCEPT !.accepted = TRUE], [run EXCEPT !.pc = "plan"], mem, Throw("catch", "plain"))
    <3>1. PICK rec : rec = [mem EXCEPT !.accepted = TRUE]
      OBVIOUS
    <3>2. PICK ok : ok = [run EXCEPT !.pc = "plan"]
      OBVIOUS
    <3>3. rec \in OrchestrationRecord /\ rec.status = mem.status /\ rec.child = mem.child
          /\ rec.dispatched = mem.dispatched
      BY <1>1, <3>1, RecordFields DEF OrchestrationRecord
    <3>4. ok \in Run /\ ok.pc \notin Launching
      BY <1>1, <3>2 DEF Run, Steps, Launching
    <3>5. Appends(rec, ok, mem, Throw("catch", "plain"))
      BY <2>1, <3>1, <3>2
    <3>. QED BY <1>1, <1>2, <1>5, <3>3, <3>4, <3>5
  <2>2. CASE run' = [run EXCEPT !.pc = "plan"] /\ UNCHANGED parent
    BY <1>4, <2>2
  <2>. QED BY <1>6, <2>1, <2>2 DEF HandOff
<1>7. CASE Upstream
  <2>1. ASSUME NEW rec \in OrchestrationRecord, rec.status = mem.status, rec.child = mem.child,
               rec.dispatched = mem.dispatched, Appends(rec, run, mem, Throw("catch", "plain"))
        PROVE  Follows
    BY <1>1, <1>2, <1>5, <2>1
  <2>2. CASE Appends([mem EXCEPT !.review = "skipped"], run, mem, Throw("catch", "plain"))
    <3>1. PICK rec : rec = [mem EXCEPT !.review = "skipped"]
      OBVIOUS
    <3>2. rec \in OrchestrationRecord /\ rec.status = mem.status /\ rec.child = mem.child
          /\ rec.dispatched = mem.dispatched
      BY <1>1, <3>1, RecordFields DEF OrchestrationRecord, Evidence
    <3>. QED BY <2>1, <2>2, <3>1, <3>2
  <2>3. CASE Appends([mem EXCEPT !.validation = "skipped"], run, mem, Throw("catch", "plain"))
    <3>1. PICK rec : rec = [mem EXCEPT !.validation = "skipped"]
      OBVIOUS
    <3>2. rec \in OrchestrationRecord /\ rec.status = mem.status /\ rec.child = mem.child
          /\ rec.dispatched = mem.dispatched
      BY <1>1, <3>1, RecordFields DEF OrchestrationRecord, Evidence
    <3>. QED BY <2>1, <2>3, <3>1, <3>2
  <2>4. CASE (run' = [run EXCEPT !.pc = "skip"] \/ run' = [run EXCEPT !.pc = "finish"]) /\ UNCHANGED parent
    BY <1>4, <2>4
  <2>. QED BY <1>7, <2>2, <2>3, <2>4 DEF Upstream
<1>. QED BY <1>3, <1>6, <1>7

\* The evidence of a review or of a validation is saved, or its thread throws.
LEMMA EvidenceFollows ==
    ASSUME OrchInv, PlanInv, run.pc = "evidence", UNCHANGED <<input, requested, jobs>>,
           NEW value \in Evidence, NEW next \in Threads, Reviewed(value, next) \/ Validated(value, next)
    PROVE  Follows
<1>1. /\ Idle /\ run \in Run /\ mem \in OrchestrationRecord /\ mem.status \in Underway
  BY Living, OutcomesIdle
<1>2. CASE Reviewed(value, next)
  <2>1. PICK rec : rec = [mem EXCEPT !.review = value]
    OBVIOUS
  <2>2. PICK ok : ok = [run EXCEPT !.rv = next]
    OBVIOUS
  <2>3. PICK failed : failed = [run EXCEPT !.rv = "threw"]
    OBVIOUS
  <2>4. rec \in OrchestrationRecord /\ rec.status = mem.status /\ rec.child = mem.child
        /\ rec.dispatched = mem.dispatched
    BY <1>1, <2>1, RecordFields DEF OrchestrationRecord
  <2>5. ok \in Run /\ failed \in Run /\ ok.pc = run.pc /\ failed.pc = run.pc
    BY <1>1, <2>2, <2>3 DEF Run, Threads
  <2>6. Appends(rec, ok, mem, failed)
    BY <1>2, <2>1, <2>2, <2>3 DEF Reviewed
  <2>. QED BY <1>1, <2>4, <2>5, <2>6, AppendsFollow
<1>3. CASE Validated(value, next)
  <2>1. PICK rec : rec = [mem EXCEPT !.validation = value]
    OBVIOUS
  <2>2. PICK ok : ok = [run EXCEPT !.vl = next]
    OBVIOUS
  <2>3. PICK failed : failed = [run EXCEPT !.vl = "threw"]
    OBVIOUS
  <2>4. rec \in OrchestrationRecord /\ rec.status = mem.status /\ rec.child = mem.child
        /\ rec.dispatched = mem.dispatched
    BY <1>1, <2>1, RecordFields DEF OrchestrationRecord
  <2>5. ok \in Run /\ failed \in Run /\ ok.pc = run.pc /\ failed.pc = run.pc
    BY <1>1, <2>2, <2>3 DEF Run, Threads
  <2>6. Appends(rec, ok, mem, failed)
    BY <1>3, <2>1, <2>2, <2>3 DEF Validated
  <2>. QED BY <1>1, <2>4, <2>5, <2>6, AppendsFollow
<1>. QED BY <1>2, <1>3

\* A thread of the evidence goes on and saves nothing.
LEMMA ThreadFollows ==
    ASSUME OrchInv, PlanInv, run.pc = "evidence", UNCHANGED <<input, requested, parent>>, JobsStep,
           NEW r, run' = r, r.record = mem, r.pc = run.pc
    PROVE  Follows
BY RecordStays DEF Launching

LEMMA ReviewFollows ==
    ASSUME OrchInv, PlanInv, SkipReview \/ RecordReviewer \/ ReviewerSettles
    PROVE  Follows
<1>1. run.pc = "evidence" /\ run \in Run /\ UNCHANGED <<input, requested>> /\ EnvInv
  BY ThreadsRun, Living DEF SkipReview, RecordReviewer, ReviewerSettles, envVars
<1>2. mem \in OrchestrationRecord /\ mem.status \in Underway
      /\ {"skipped", "unavailable", "completed"} \subseteq Evidence /\ {"done", "threw"} \subseteq Threads
  BY <1>1, Living DEF Evidence, Threads
<1>3. CASE SkipReview
  BY <1>1, <1>2, <1>3, EvidenceFollows DEF SkipReview
<1>4. CASE RecordReviewer
  <2>1. CASE parent' = [mem EXCEPT !.review = "pending"]
             /\ run' = [run EXCEPT !.rv = "wait", !.record = parent'] /\ UNCHANGED jobs
    <3>1. Reviewed("pending", "wait")
      BY <1>1, <2>1 DEF Reviewed, Appends, Run
    <3>. QED BY <1>1, <2>1, <3>1, EvidenceFollows DEF Evidence, Threads
  <2>2. ASSUME UNCHANGED parent, JobsStep, NEW rv, NEW error,
               run' = [run EXCEPT !.rv = rv] \/ run' = [run EXCEPT !.rv = rv, !.error = error]
        PROVE  Follows
    <3>1. PICK r : r = run'
      OBVIOUS
    <3>2. r.record = mem /\ r.pc = run.pc
      BY <1>1, <2>2, <3>1 DEF Run, mem
    <3>. QED BY <1>1, <2>2, <3>1, <3>2, ThreadFollows
  <2>3. ASSUME UNCHANGED parent, UNCHANGED jobs \/ Abort(0) \/ TakeOver(0, jobs[0][1]) \/ TakeOverFails(0)
        PROVE  JobsStep
    <3>1. UNCHANGED jobs \/ Abort(0) \/ RecoverStopped(0, TRUE) \/ RecoverStopped(0, FALSE)
      BY <2>3 DEF TakeOver, TakeOverFails
    <3>. QED BY <1>1, <2>3, <3>1, JobHandled, InputFacts
  <2>4. CASE /\ UNCHANGED parent
             /\ UNCHANGED jobs \/ Abort(0) \/ TakeOver(0, jobs[0][1])
             /\ run' = [run EXCEPT !.rv = "wait"] \/ run' = [run EXCEPT !.rv = "orphan"]
    BY <2>2, <2>3, <2>4
  <2>5. CASE /\ UNCHANGED parent /\ TakeOverFails(0)
             /\ \E error \in TakeOverErrors(jobs[0][1]) : ReviewThrows(error)
    BY <2>2, <2>3, <2>5 DEF ReviewThrows
  <2>. QED BY <1>4, <2>1, <2>4, <2>5 DEF RecordReviewer
<1>5. CASE ReviewerSettles
  <2>1. UNCHANGED jobs
    BY <1>5 DEF ReviewerSettles
  <2>2. CASE \E value \in {"unavailable", "completed"}, next \in {"done", "threw"} : Reviewed(value, next)
    BY <1>1, <1>2, <2>1, <2>2, EvidenceFollows
  <2>3. ASSUME NEW error, ReviewThrows(error), UNCHANGED parent PROVE Follows
    <3>1. PICK r : r = [run EXCEPT !.rv = "threw", !.error = error]
      OBVIOUS
    <3>2. r.record = mem /\ r.pc = run.pc
      BY <1>1, <3>1 DEF Run, mem
    <3>3. run' = r
      BY <2>3, <3>1 DEF ReviewThrows
    <3>. QED BY <1>1, <2>1, <2>3, <3>2, <3>3, OutcomesIdle, ThreadFollows DEF JobsStep
  <2>. QED BY <1>5, <2>2, <2>3 DEF ReviewerSettles
<1>. QED BY <1>3, <1>4, <1>5

LEMMA ValidationFollows ==
    ASSUME OrchInv, PlanInv, ValidationThread
    PROVE  Follows
<1>1. run.pc = "evidence" /\ run \in Run /\ UNCHANGED <<input, requested, jobs>>
  BY ThreadsRun DEF ValidationThread, CheckValidation, TakeSlot, Validate, envVars
<1>2. {"skipped", "pending", "unavailable", "completed"} \subseteq Evidence
      /\ {"slot", "done", "threw"} \subseteq Threads
  BY DEF Evidence, Threads
<1>3. CASE \E value \in {"skipped", "pending", "unavailable", "completed"} :
           \E next \in {"slot", "done", "threw"} : Validated(value, next)
  BY <1>1, <1>2, <1>3, EvidenceFollows
<1>4. CASE run' = [run EXCEPT !.vl = "work"] /\ UNCHANGED parent
  <2>1. PICK r : r = [run EXCEPT !.vl = "work"]
    OBVIOUS
  <2>2. r.record = mem /\ r.pc = run.pc
    BY <1>1, <2>1 DEF Run, mem
  <2>. QED BY <1>1, <1>4, <2>1, <2>2, OutcomesIdle, ThreadFollows DEF JobsStep
<1>. QED BY <1>3, <1>4 DEF ValidationThread, CheckValidation, TakeSlot, Validate

\* The process holds a record that it did not save.
LEMMA RecordAhead ==
    ASSUME OrchInv, PlanInv, UNCHANGED <<input, requested, parent>>, Idle, run.pc # "none",
           NEW r, run' = r, r.record.dispatched = mem.dispatched,
           r.record.status = mem.status \/ r.record.status \in {"dispatching"} \cup Final,
           r.pc \in Launching => r.record.status = "dispatching"
    PROVE  Follows
<1>1. UNCHANGED Contract!vars
  BY Stutters
<1>2. OnTheWay(r, parent)
  <2>1. r.record.dispatched => r.record.status # "queued"
    BY DEF PlanInv, OnTheWay, mem, Final
  <2>2. parent.status = "dispatching" => r.record.status # "queued"
    BY DEF PlanInv, OnTheWay, mem, Final
  <2>. QED BY <2>1, <2>2 DEF PlanInv, OnTheWay
<1>3. PlanInv'
  BY <1>2 DEF PlanInv
<1>. QED BY <1>1, <1>3 DEF Follows

LEMMA DispatchingFollows ==
    ASSUME OrchInv, PlanInv, Dispatching
    PROVE  Follows
<1>1. /\ run.pc = "plan" /\ UNCHANGED <<input, requested, jobs>> /\ Idle /\ run \in Run
      /\ mem \in OrchestrationRecord /\ mem.status \in Underway /\ mem = parent
  BY Living, OutcomesIdle DEF Dispatching, RunAt, envVars
<1>2. CASE Appends([mem EXCEPT !.status = "dispatching", !.dispatched = TRUE],
                   [run EXCEPT !.pc = "loop"],
                   [mem EXCEPT !.status = "dispatching"], Throw("catch", "plain"))
  <2>1. PICK rec : rec = [mem EXCEPT !.status = "dispatching", !.dispatched = TRUE]
    OBVIOUS
  <2>2. rec \in OrchestrationRecord /\ rec.child = mem.child /\ rec.status = "dispatching"
    BY <1>1, <2>1, RecordFields DEF OrchestrationRecord
  <2>3. PICK kept : kept = [mem EXCEPT !.status = "dispatching"]
    OBVIOUS
  <2>4. kept.child = mem.child /\ kept.status = "dispatching" /\ kept.dispatched = mem.dispatched
    BY <1>1, <2>3, RecordFields DEF OrchestrationRecord
  <2>5. CASE parent' = rec /\ run' = [[run EXCEPT !.pc = "loop"] EXCEPT !.record = rec]
    <3>1. PICK r : r = [run EXCEPT !.pc = "loop", !.record = rec]
      OBVIOUS
    <3>2. run' = r /\ r.pc = "loop" /\ r.record = rec
      BY <1>1, <2>5, <3>1 DEF Run
    <3>3. PlanInv'
      BY <1>1, <2>2, <2>5, <3>2, SavedFollows
    <3>4. [Contract!Next]_(Contract!vars)
      BY <1>1, <2>2, <2>5, RecordSaved
    <3>. QED BY <3>3, <3>4 DEF Follows
  <2>6. CASE run' = [Throw("catch", "plain") EXCEPT !.record = kept] /\ UNCHANGED parent
    <3>1. PICK r : r = [run EXCEPT !.pc = "catch", !.error = "plain", !.record = kept]
      OBVIOUS
    <3>2. run' = r /\ r.pc = "catch" /\ r.record = kept
      BY <1>1, <2>6, <3>1 DEF Run, Throw
    <3>. QED BY <1>1, <2>4, <2>6, <3>2, RecordAhead
  <2>. QED BY <1>2, <2>1, <2>3, <2>5, <2>6 DEF Appends
<1>3. CASE mem.dispatched /\ run' = [run EXCEPT !.pc = "loop"] /\ UNCHANGED parent
  <2>1. PICK r : r = [run EXCEPT !.pc = "loop"]
    OBVIOUS
  <2>2. r.record = mem /\ r.pc = "loop"
    BY <1>1, <2>1 DEF Run, mem
  <2>3. mem.status = "dispatching"
    BY <1>1, <1>3 DEF PlanInv, OnTheWay, Underway
  <2>. QED BY <1>1, <1>3, <2>1, <2>2, <2>3, RecordStays DEF JobsStep
<1>. QED BY <1>2, <1>3 DEF Dispatching

\* What the record with a child more, or with the outcome of one, says.
LEMMA ChildTold ==
    ASSUME OrchInv, run.pc \in {"loop", "unwind", "record"}, NEW k \in Subtasks, jobs[k] # <<>>,
           NEW status \in {"active"} \cup Final, status \in Final \/ mem.child[k] = "none",
           NEW rec, rec = WithChild(k, status), ~ input.faults => status = jobs[k][1].status
    PROVE  /\ rec \in OrchestrationRecord /\ rec.status = mem.status /\ rec.dispatched = mem.dispatched
           /\ rec.child[k] = status
           /\ \A i \in Subtasks : rec.child[i] = mem.child[i] \/ Told(i, rec.child[i])
           /\ \A i \in Subtasks : i # k => rec.child[i] = mem.child[i]
<1>1. mem \in OrchestrationRecord /\ EnvInv /\ JobsTyped(jobs)
  BY Living
<1>2. mem.child \in [Subtasks -> {"none", "active"} \cup Final] /\ mem.childJob \in [Subtasks -> Nat]
  BY <1>1, RecordFields
<1>3. GoodRecord(rec, k)
  BY ChildSaved
<1>4. rec.status = mem.status /\ rec.dispatched = mem.dispatched
      /\ rec.child = [mem.child EXCEPT ![k] = status]
  BY <1>1 DEF OrchestrationRecord, WithChild
<1>5. rec.child[k] = status /\ \A i \in Subtasks : i # k => rec.child[i] = mem.child[i]
  BY <1>2, <1>4
<1>6. Told(k, status)
  <2>1. k \in Numbered
    BY <1>1, InputFacts
  <2>2. Outcomes(jobs)[k] # "none" /\ Outcomes(jobs)[k] = jobs[k][1].status
    BY <1>1, <2>1, OutcomeFacts
  <2>. QED BY <2>2 DEF Told, Final
<1>. QED BY <1>3, <1>4, <1>5, <1>6 DEF GoodRecord

LEMMA RecordChildFollows ==
    ASSUME OrchInv, PlanInv, RecordChild
    PROVE  Follows
<1>1. /\ run.pc = "record" /\ run \in Run /\ UNCHANGED <<input, requested>> /\ EnvInv /\ JobsTyped(jobs)
      /\ mem \in OrchestrationRecord /\ mem.status = "dispatching" /\ run.next \in Nat /\ run.next # 0
      /\ run.next <= input.plan /\ jobs[run.next] # <<>> /\ mem.child[run.next] = "none"
  BY Living, RunFields DEF RecordChild, RunAt, LaunchInv, envVars, PlanInv, OnTheWay, Launching, mem
<1>2. PICK k : k = run.next
  OBVIOUS
<1>3. k \in Subtasks /\ k \in Numbered /\ Len(jobs[k]) = 1 /\ jobs[k][1] \in Job /\ mem.child[k] = "none"
  BY <1>1, <1>2, InputFacts, JobFacts
<1>4. PICK status : status = jobs[k][1].status
  OBVIOUS
<1>5. status \in {"active"} \cup Final
  BY <1>3, <1>4 DEF Job
<1>6. PICK rec : rec = WithChild(k, status)
  OBVIOUS
<1>7. /\ rec \in OrchestrationRecord /\ rec.status = "dispatching" /\ rec.dispatched = mem.dispatched
      /\ rec.child[k] = status
      /\ \A i \in Subtasks : rec.child[i] = mem.child[i] \/ Told(i, rec.child[i])
      /\ \A i \in Subtasks : i # k => rec.child[i] = mem.child[i]
  <2>1. run.pc \in {"loop", "unwind", "record"} /\ jobs[k] # <<>> /\ mem.child[k] = "none"
    BY <1>1, <1>2, <1>3
  <2>2. ~ input.faults => status = jobs[k][1].status
    BY <1>4
  <2>3. /\ rec \in OrchestrationRecord /\ rec.status = mem.status /\ rec.dispatched = mem.dispatched
        /\ rec.child[k] = status
        /\ \A i \in Subtasks : rec.child[i] = mem.child[i] \/ Told(i, rec.child[i])
        /\ \A i \in Subtasks : i # k => rec.child[i] = mem.child[i]
    BY ONLY OrchInv, <1>3, <1>5, <1>6, <2>1, <2>2, ChildTold
  <2>. QED BY <1>1, <2>3
<1>8. [mem EXCEPT !.child[k] = jobs[k][Len(jobs[k])].status, !.childJob[k] = Len(jobs[k])] = rec
  BY <1>1, <1>3, <1>4, <1>6 DEF OrchestrationRecord, WithChild
<1>9. ASSUME parent' = rec, UNCHANGED jobs, NEW r, run' = r, r.pc \in {"loop", "follow"}, r.record = rec
      PROVE  Follows
  <2>1. PlanInv'
    BY <1>7, <1>9, SavedFollows
  <2>2. [Contract!Next]_(Contract!vars)
    BY <1>1, <1>7, <1>9, OutcomesIdle, RecordSaved
  <2>. QED BY <2>1, <2>2 DEF Follows
<1>10. CASE /\ parent' = rec /\ UNCHANGED jobs
            /\ run' = [run EXCEPT !.pc = "loop", !.record = rec, !.next = @ + 1, !.active = @ \cup {k}]
  <2>1. PICK r : r = [run EXCEPT !.pc = "loop", !.record = rec, !.next = @ + 1, !.active = @ \cup {k}]
    OBVIOUS
  <2>2. r.pc = "loop" /\ r.record = rec
    BY <1>1, <2>1 DEF Run
  <2>. QED BY <1>9, <1>10, <2>1, <2>2
<1>11. CASE parent' = rec /\ UNCHANGED jobs /\ run' = [run EXCEPT !.pc = "follow", !.record = rec]
  <2>1. PICK r : r = [run EXCEPT !.pc = "follow", !.record = rec]
    OBVIOUS
  <2>2. r.pc = "follow" /\ r.record = rec
    BY <1>1, <2>1 DEF Run
  <2>. QED BY <1>9, <1>11, <2>1, <2>2
<1>12. CASE /\ Abort(k) \/ UNCHANGED jobs
            /\ UNCHANGED parent /\ run' = [run EXCEPT !.pc = "orphan", !.record = rec, !.error = "plain"]
  <2>1. PICK r : r = [run EXCEPT !.pc = "orphan", !.record = rec, !.error = "plain"]
    OBVIOUS
  <2>2. run' = r /\ r.pc = "orphan" /\ r.record = rec
    BY <1>1, <1>12, <2>1 DEF Run
  <2>3. Idle /\ run.pc # "none"
    BY <1>1, <1>3, <1>12, AbortIdle, OutcomesIdle
  <2>. QED BY <1>1, <1>7, <1>12, <2>2, <2>3, RecordAhead
<1>13. \/ /\ parent' = rec /\ UNCHANGED jobs
          /\ \/ run' = [run EXCEPT !.pc = "loop", !.record = rec, !.next = @ + 1, !.active = @ \cup {k}]
             \/ run' = [run EXCEPT !.pc = "follow", !.record = rec]
       \/ /\ Abort(k) \/ UNCHANGED jobs
          /\ UNCHANGED parent /\ run' = [run EXCEPT !.pc = "orphan", !.record = rec, !.error = "plain"]
  BY <1>2, <1>8 DEF RecordChild
<1>. QED BY <1>10, <1>11, <1>12, <1>13

\* The child that is followed again is counted as active, or the dispatch unwinds.
LEMMA FollowChildFollows ==
    ASSUME OrchInv, PlanInv, FollowChild
    PROVE  Follows
<1>1. /\ run.pc = "follow" /\ run.pc # "none" /\ run \in Run /\ UNCHANGED <<input, requested, parent>>
      /\ EnvInv /\ run.next \in Nat /\ run.next # 0 /\ run.next <= input.plan
  BY Living, RunFields DEF FollowChild, RunAt, LaunchInv, envVars
<1>2. PICK k : k = run.next
  OBVIOUS
<1>3. k \in Numbered
  BY <1>1, <1>2, InputFacts
<1>4. JobsStep
  <2>1. UNCHANGED jobs \/ RecoverStopped(k, TRUE) \/ RecoverStopped(k, FALSE)
    BY <1>2 DEF FollowChild, TakeOver, TakeOverFails
  <2>. QED BY <1>1, <1>3, <2>1, JobHandled
<1>5. CASE run' = [run EXCEPT !.pc = "loop", !.active = @ \cup {k}, !.next = @ + 1]
  <2>1. PICK r : r = [run EXCEPT !.pc = "loop", !.active = @ \cup {k}, !.next = @ + 1]
    OBVIOUS
  <2>2. r.record = mem
    BY <1>1, <2>1 DEF Run, mem
  <2>3. run.pc \in Launching
    BY <1>1 DEF Launching
  <2>. QED BY <1>1, <1>4, <1>5, <2>1, <2>2, <2>3, RecordStays
<1>6. ASSUME NEW error, run' = Throw("unwind", error) PROVE Follows
  <2>1. PICK r : r = [run EXCEPT !.pc = "unwind", !.error = error]
    OBVIOUS
  <2>2. run' = r /\ r.record = mem
    BY <1>1, <1>6, <2>1 DEF Run, Throw, mem
  <2>3. run.pc \in Launching
    BY <1>1 DEF Launching
  <2>. QED BY <1>1, <1>4, <2>2, <2>3, RecordStays
<1>. QED BY <1>2, <1>5, <1>6 DEF FollowChild

LEMMA OrphanSettlesFollows ==
    ASSUME OrchInv, PlanInv, OrphanSettles
    PROVE  Follows
<1>1. /\ run.pc = "orphan" /\ run \in Run /\ UNCHANGED <<input, requested, parent, jobs>> /\ EnvInv
      /\ JobsTyped(jobs) /\ mem \in OrchestrationRecord /\ mem.status = "dispatching" /\ run.next \in Nat
      /\ run.next # 0 /\ run.next <= input.plan /\ NamesJobs(mem, jobs) /\ mem.child[run.next] # "none"
  BY Living, RunFields DEF OrphanSettles, RunAt, LaunchInv, envVars, PlanInv, OnTheWay, Launching, mem
<1>2. PICK k : k = run.next
  OBVIOUS
<1>3. k \in Subtasks /\ k \in Numbered /\ jobs[k] # <<>> /\ ChildJob(k) = jobs[k][1]
  BY <1>1, <1>2, InputFacts DEF NamesJobs, ChildJob
<1>4. PICK child : child = [mem.child EXCEPT ![k] = jobs[k][1].status]
  OBVIOUS
<1>5. PICK rec : rec = [mem EXCEPT !.child = child]
  OBVIOUS
<1>6. Idle /\ run.pc # "none"
  BY <1>1, OutcomesIdle
<1>7. CASE run' = [run EXCEPT !.pc = "unwind", !.record = rec]
  <2>1. PICK r : r = [run EXCEPT !.pc = "unwind", !.record = rec]
    OBVIOUS
  <2>2. r.pc = "unwind" /\ r.record = rec /\ rec.status = "dispatching" /\ rec.dispatched = mem.dispatched
    BY <1>1, <1>5, <2>1 DEF Run, OrchestrationRecord
  <2>. QED BY <1>1, <1>6, <1>7, <2>1, <2>2, RecordAhead
<1>8. CASE run' = [run EXCEPT !.pc = "unwind"]
  <2>1. PICK r : r = [run EXCEPT !.pc = "unwind"]
    OBVIOUS
  <2>2. r.record = mem /\ run.pc \in Launching
    BY <1>1, <2>1 DEF Run, mem, Launching
  <2>. QED BY <1>1, <1>6, <1>8, <2>1, <2>2, RecordStays DEF JobsStep
<1>9. run' = [run EXCEPT !.pc = "unwind", !.record = rec] \/ run' = [run EXCEPT !.pc = "unwind"]
  BY <1>1, <1>2, <1>3, <1>4, <1>5 DEF OrphanSettles, mem
<1>. QED BY <1>7, <1>8, <1>9

LEMMA SettleChildFollows ==
    ASSUME OrchInv, PlanInv, NEW k \in Subtasks, SettleChild(k)
    PROVE  Follows
<1>1. /\ run.pc \in {"loop", "unwind"} /\ run \in Run /\ UNCHANGED <<input, requested, jobs>> /\ EnvInv
      /\ JobsTyped(jobs) /\ k \in run.active /\ k \in Numbered /\ mem \in OrchestrationRecord
      /\ mem.child[k] # "none" /\ mem.status = "dispatching" /\ Idle /\ run.pc # "none"
  BY Living, InputFacts, OutcomesIdle
     DEF SettleChild, LaunchInv, mem, envVars, PlanInv, OnTheWay, Launching
<1>2. jobs[k] # <<>> /\ mem.childJob[k] = 1 /\ ChildJob(k) = jobs[k][1]
  BY <1>1, Living DEF NamesJobs, ChildJob
<1>3. PICK active : active = run.active \ {k}
  OBVIOUS
<1>4. PICK after : after = IF run.pc = "loop" THEN "unwind" ELSE "catch"
  OBVIOUS
<1>5. [run EXCEPT !.active = @ \ {k}] = [run EXCEPT !.active = active]
  BY <1>3
<1>6. ASSUME NEW status \in ChildOutcomes(k),
             NEW settled, settled = [mem EXCEPT !.child[k] = status],
             Appends(settled, [run EXCEPT !.active = active], settled,
                     [[run EXCEPT !.active = active] EXCEPT !.pc = after, !.error = "plain"])
      PROVE  Follows
  <2>1. status \in Final /\ (~ input.faults => status = jobs[k][1].status)
    BY <1>2, <1>6 DEF ChildOutcomes, MayReject, Final
  <2>2. settled = WithChild(k, status)
    <3>1. mem.childJob = [mem.childJob EXCEPT ![k] = 1]
      BY <1>1, <1>2, RecordFields
    <3>. QED BY <1>1, <1>6, <3>1 DEF OrchestrationRecord, WithChild
  <2>3. /\ settled \in OrchestrationRecord /\ settled.status = mem.status
        /\ settled.dispatched = mem.dispatched /\ settled.child[k] = status
        /\ \A i \in Subtasks : settled.child[i] = mem.child[i] \/ Told(i, settled.child[i])
        /\ \A i \in Subtasks : i # k => settled.child[i] = mem.child[i]
    <3>1. run.pc \in {"loop", "unwind", "record"} /\ status \in {"active"} \cup Final
      BY <1>1, <2>1
    <3>. QED BY ONLY OrchInv, <1>2, <2>1, <2>2, <3>1, ChildTold
  <2>4. CASE parent' = settled /\ run' = [[run EXCEPT !.active = active] EXCEPT !.record = settled]
    <3>1. PICK r : r = [run EXCEPT !.active = active, !.record = settled]
      OBVIOUS
    <3>2. run' = r /\ r.pc = run.pc /\ r.record = settled
      BY <1>1, <2>4, <3>1 DEF Run
    <3>3. PlanInv'
      BY <1>1, <2>3, <2>4, <3>2, SavedFollows
    <3>4. [Contract!Next]_(Contract!vars)
      BY <1>1, <2>3, <2>4, RecordSaved
    <3>. QED BY <3>3, <3>4 DEF Follows
  <2>5. CASE /\ UNCHANGED parent
             /\ run' = [[[run EXCEPT !.active = active] EXCEPT !.pc = after, !.error = "plain"]
                          EXCEPT !.record = settled]
    <3>1. PICK r : r = [run EXCEPT !.active = active, !.pc = after, !.error = "plain", !.record = settled]
      OBVIOUS
    <3>2. run' = r /\ r.pc = after /\ r.record = settled
      BY <1>1, <2>5, <3>1 DEF Run
    <3>. QED BY <1>1, <2>3, <2>5, <3>2, RecordAhead
  <2>. QED BY <1>6, <2>4, <2>5 DEF Appends
<1>7. ASSUME UNCHANGED parent,
             run' = [[run EXCEPT !.active = active] EXCEPT !.pc = after, !.error = "persistence"]
      PROVE  Follows
  <2>1. PICK r : r = [run EXCEPT !.active = active, !.pc = after, !.error = "persistence"]
    OBVIOUS
  <2>2. run' = r /\ r.pc = after /\ r.record = mem
    BY <1>1, <1>7, <2>1 DEF Run, mem
  <2>. QED BY <1>1, <1>7, <2>2, RecordStays DEF JobsStep, Launching
<1>. QED BY <1>4, <1>5, <1>6, <1>7 DEF SettleChild, RunAt

\* The process ends, or dies, and saves nothing.
LEMMA EndFollows ==
    ASSUME PlanInv, UNCHANGED <<input, requested, parent>>, Idle, run' = NoRun
    PROVE  Follows
<1>1. UNCHANGED Contract!vars
  BY Stutters
<1>2. OnTheWay(NoRun, parent)
  BY DEF PlanInv, OnTheWay, NoRun, Launching
<1>3. PlanInv'
  BY <1>2 DEF PlanInv
<1>. QED BY <1>1, <1>3 DEF Follows

\* The process saves the record it ends with.
LEMMA EndSavedFollows ==
    ASSUME OrchInv, PlanInv, UNCHANGED <<input, requested, jobs>>, run.pc \in {"finish", "catch"},
           NEW status \in Final, NEW p, p = [mem EXCEPT !.status = status], parent' = p, run' = NoRun,
           status = "succeeded" =>
             ~ requested /\ \A k \in Subtasks : k <= input.plan => mem.child[k] = "succeeded",
           status = "cancelled" /\ ~ input.faults => requested
    PROVE  Follows
<1>1. p \in OrchestrationRecord /\ p.status = status /\ p.child = mem.child
  BY EndSaved
<1>2. Idle /\ run.pc # "none"
  BY OutcomesIdle
<1>3. PlanInv'
  <2>1. NoRun.pc = "none" /\ (p.dispatched => p.status \notin {"none", "queued"})
    BY <1>1 DEF NoRun, Final
  <2>. QED BY <1>1, <1>2, <2>1, SavedFollows DEF Launching
<1>4. [Contract!Next]_(Contract!vars)
  BY <1>1, <1>2, RecordSaved
<1>. QED BY <1>3, <1>4 DEF Follows

LEMMA FinishParentFollows ==
    ASSUME OrchInv, PlanInv, FinishParent
    PROVE  Follows
<1>1. /\ run.pc = "finish" /\ run \in Run /\ UNCHANGED <<input, requested, jobs>> /\ EnvInv /\ Idle
      /\ mem \in OrchestrationRecord
  BY Living, OutcomesIdle DEF FinishParent, RunAt, stillVars
<1>2. PICK status : status =
                         IF \A k \in 1..input.plan : mem.child[k] = "succeeded" THEN "succeeded" ELSE "failed"
  OBVIOUS
<1>3. status \in Final /\ status # "cancelled"
  BY <1>2 DEF Final
<1>4. status = "succeeded" => \A k \in Subtasks : k <= input.plan => mem.child[k] = "succeeded"
  <2>1. \A k \in Subtasks : k <= input.plan => k \in 1..input.plan
    BY <1>1, InputFacts DEF Subtasks
  <2>. QED BY <1>2, <2>1
<1>5. PICK final : final = [mem EXCEPT !.status = status]
  OBVIOUS
<1>6. CASE (status = "succeeded" => ~ requested) /\ parent' = final /\ run' = NoRun
  BY <1>1, <1>3, <1>4, <1>5, <1>6, EndSavedFollows
<1>7. CASE run' = [run EXCEPT !.pc = "refused"] /\ UNCHANGED parent
  <2>1. PICK r : r = [run EXCEPT !.pc = "refused"]
    OBVIOUS
  <2>2. r.pc = "refused" /\ r.record = mem
    BY <1>1, <2>1 DEF Run, mem
  <2>3. r.pc \notin Launching /\ run.pc # "none"
    BY <1>1, <2>2 DEF Launching
  <2>. QED BY <1>1, <1>7, <2>1, <2>2, <2>3, RecordStays DEF JobsStep
<1>8. CASE run' = [Throw("catch", "plain") EXCEPT !.record = final] /\ UNCHANGED parent
  <2>1. PICK r : r = [run EXCEPT !.pc = "catch", !.error = "plain", !.record = final]
    OBVIOUS
  <2>2. run' = r /\ r.pc = "catch" /\ r.record = final
    BY <1>1, <1>8, <2>1 DEF Run, Throw
  <2>3. final.status = status /\ final.child = mem.child /\ final.dispatched = mem.dispatched
    BY <1>1, <1>5 DEF OrchestrationRecord
  <2>4. r.pc \notin Launching /\ run.pc # "none"
    BY <1>1, <2>2 DEF Launching
  <2>. QED BY <1>1, <1>3, <1>8, <2>2, <2>3, <2>4, RecordAhead
<1>9. \/ (status = "succeeded" => ~ requested) /\ parent' = final /\ run' = NoRun
      \/ run' = [run EXCEPT !.pc = "refused"] /\ UNCHANGED parent
      \/ run' = [Throw("catch", "plain") EXCEPT !.record = final] /\ UNCHANGED parent
  BY <1>2, <1>5 DEF FinishParent, Ended
<1>. QED BY <1>6, <1>7, <1>8, <1>9

LEMMA RefusedFollows ==
    ASSUME OrchInv, PlanInv, Refused
    PROVE  Follows
<1>1. /\ run.pc = "refused" /\ run.pc # "none" /\ run \in Run /\ UNCHANGED <<input, requested, jobs>> /\ Idle
      /\ mem \in OrchestrationRecord /\ mem.status \in Underway
      /\ run.aborted \in BOOLEAN
  BY Living, OutcomesIdle, RunFields DEF Refused, RunAt, stillVars
<1>2. CASE /\ parent' = [mem EXCEPT !.evidence = @ \/ ~ run.aborted]
           /\ run' = [Throw("catch", "plain") EXCEPT !.aborted = TRUE, !.record = parent']
  <2>1. PICK rec : rec = [mem EXCEPT !.evidence = @ \/ ~ run.aborted]
    OBVIOUS
  <2>2. rec \in OrchestrationRecord /\ rec.status = mem.status /\ rec.child = mem.child
        /\ rec.dispatched = mem.dispatched
    BY <1>1, <2>1, RecordFields DEF OrchestrationRecord
  <2>3. PICK r : r = [run EXCEPT !.pc = "catch", !.error = "plain", !.aborted = TRUE, !.record = rec]
    OBVIOUS
  <2>4. run' = r /\ parent' = rec /\ r.pc = "catch" /\ r.record = rec
    BY <1>1, <1>2, <2>1, <2>3 DEF Throw, Run
  <2>5. (rec.dispatched => rec.status \notin {"none", "queued"}) /\ r.pc \notin Launching
    BY <1>1, <2>2, <2>4 DEF PlanInv, OnTheWay, mem, Underway, Launching
  <2>6. PlanInv'
    BY <1>1, <2>2, <2>4, <2>5, SavedFollows
  <2>7. [Contract!Next]_(Contract!vars)
    BY <1>1, <2>2, <2>4, RecordSaved DEF Underway
  <2>. QED BY <2>6, <2>7 DEF Follows
<1>3. CASE run' = NoRun /\ UNCHANGED parent
  BY <1>1, <1>3, EndFollows
<1>. QED BY <1>2, <1>3 DEF Refused, Ended

LEMMA CatchFollows ==
    ASSUME OrchInv, PlanInv, Catch
    PROVE  Follows
<1>1. /\ run.pc = "catch" /\ run' = NoRun /\ UNCHANGED <<input, requested, jobs>> /\ Idle
      /\ ~ input.faults /\ run.aborted => requested
  BY Living, OutcomesIdle DEF Catch, RunAt, stillVars, RunInv, Ended
<1>2. PICK status : status = IF run.aborted THEN "cancelled" ELSE "failed"
  OBVIOUS
<1>3. status \in Final /\ status # "succeeded" /\ (status = "cancelled" /\ ~ input.faults => requested)
  BY <1>1, <1>2 DEF Final
<1>4. CASE parent' = [mem EXCEPT !.status = status]
  <2>1. PICK p : p = [mem EXCEPT !.status = status]
    OBVIOUS
  <2>. QED BY <1>1, <1>3, <1>4, <2>1, EndSavedFollows
<1>5. CASE UNCHANGED parent
  BY <1>1, <1>5, EndFollows
<1>. QED BY <1>2, <1>4, <1>5 DEF Catch

-----------------------------------------------------------------------------
(* The contract: Jobs start and end.                                       *)

LEMMA RunningCounted ==
    ASSUME OrchInv
    PROVE  Contract!Cardinality(Contract!Running) = Cardinality(Counted(parent, jobs))
<1>1. JobsTyped(jobs) /\ Subtasks \subseteq Numbered
  BY InputFacts DEF OrchInv, StateInv, JobsInv
<1>2. \A k \in Subtasks : Outcomes(jobs)[k] = "active" <=> Works(jobs, k)
  BY <1>1, OutcomeFacts
<1>3. Contract!Running = Counted(parent, jobs)
  BY <1>2 DEF Contract!Running, Contract!Ended, Counted, Subtasks, Final
<1>4. \A S : Contract!Cardinality(S) = Cardinality(S)
  BY DEF Contract!Cardinality, Cardinality
<1>. QED BY <1>3, <1>4

LEMMA AdmitChildFollows ==
    ASSUME OrchInv, PlanInv, AdmitChild
    PROVE  Follows
<1>1. /\ run.pc = "admit" /\ run \in Run /\ UNCHANGED <<input, requested, parent>> /\ EnvInv
      /\ JobsTyped(jobs) /\ mem = parent /\ parent.status = "dispatching"
      /\ run.next \in Nat /\ run.next # 0 /\ run.next <= input.plan
      /\ \A i \in Subtasks : i < run.next => parent.child[i] # "none"
      /\ \A i \in Subtasks :
           Works(jobs, i) /\ parent.child[i] \notin Final => i \in run.active \/ i >= run.next
      /\ Cardinality(run.active) < input.concurrency /\ mem.child[run.next] = "none"
      /\ run.active \in SUBSET Subtasks
  BY Living, RunFields DEF AdmitChild, RunAt, LaunchInv, envVars, PlanInv, OnTheWay, Launching, mem
<1>2. PICK k : k = run.next
  OBVIOUS
<1>3. k \in Subtasks /\ k \in Numbered /\ input.plan \in Nat
  BY <1>1, <1>2, InputFacts
<1>4. CASE EnsureJob(k) /\ run' = [run EXCEPT !.pc = "record", !.started = Started(k)]
  <2>1. PICK r : r = run'
    OBVIOUS
  <2>2. r.pc = "record" /\ r.record = mem /\ r.next = k
    BY <1>1, <1>2, <1>4, <2>1 DEF Run, mem
  <2>3. PlanInv'
    <3>1. OnTheWay(r, parent)
      BY <1>1, <2>2 DEF PlanInv, OnTheWay
    <3>. QED BY <1>1, <2>1, <3>1 DEF PlanInv
  <2>4. CASE jobs[k] # <<>>
    <3>1. Idle
      BY <1>4, <2>4, OutcomesIdle DEF EnsureJob
    <3>. QED BY <1>1, <2>3, <3>1, Stutters DEF Follows
  <2>5. CASE jobs[k] = <<>>
    <3>1. PICK job : job = NewJob
      OBVIOUS
    <3>2. jobs' = [jobs EXCEPT ![k] = <<job>>] /\ job.status = "active"
      BY <1>4, <2>5, <3>1 DEF EnsureJob, NewJob
    <3>3. Outcomes(jobs') = [Outcomes(jobs) EXCEPT ![k] = "active"]
      <4>1. Outcomes(jobs') = [Outcomes(jobs) EXCEPT ![k] = job.status]
        BY <1>1, <1>3, <3>2, OutcomeChanges
      <4>. QED BY <3>2, <4>1
    <3>4. Outcomes(jobs)[k] = "none"
      BY <1>1, <1>3, <2>5, OutcomeFacts
    <3>5. Contract!Cardinality(Contract!Running) < input.concurrency
      <4>1. Counted(parent, jobs) \subseteq run.active
        <5>1. ASSUME NEW i \in Subtasks, Works(jobs, i), parent.child[i] \notin Final PROVE i \in run.active
          <6>1. i \in Numbered /\ i \in Nat
            BY <1>1, InputFacts DEF Subtasks
          <6>2. jobs[i] # <<>>
            BY <1>1, <5>1, <6>1, JobFacts
          <6>3. ~ (k < i)
            <7>1. k < i => parent.child[k] # "none"
              BY <1>1, <1>3, <6>2, Living DEF JobsInv
            <7>. QED BY <1>1, <1>2, <7>1
          <6>. QED BY <1>1, <1>2, <2>5, <5>1, <6>1, <6>2, <6>3
        <5>. QED BY <5>1 DEF Counted
      <4>2. IsFiniteSet(run.active) /\ Cardinality(run.active) \in Nat
        BY <1>1, WorkingFinite
      <4>3. /\ Cardinality(Counted(parent, jobs)) <= Cardinality(run.active)
            /\ Cardinality(Counted(parent, jobs)) \in Nat
        BY <4>1, <4>2, FS_Subset, FS_CardinalityType
      <4>. QED BY <1>1, <4>2, <4>3, RunningCounted, InputFacts
    <3>6. \A i \in 1..(k - 1) : parent.child[i] # "none"
      <4>1. \A i \in 1..(k - 1) : i \in Subtasks /\ i < k
        BY <1>1, <1>3, InputFacts DEF Subtasks
      <4>. QED BY <1>1, <1>2, <4>1
    <3>7. k \in Contract!Plan
      BY <1>1, <1>2, <1>3 DEF Contract!Plan
    <3>8. Contract!StartChild(k)
      BY <1>1, <3>3, <3>4, <3>5, <3>6, <3>7 DEF Contract!StartChild
    <3>9. k \in 1..MaxSubtasks
      BY <1>3 DEF Subtasks
    <3>. QED BY <2>3, <3>8, <3>9 DEF Follows, Contract!Next
  <2>. QED BY <2>4, <2>5
<1>5. CASE (\E error \in {"plain", "persistence"} : run' = Throw("unwind", error)) /\ UNCHANGED jobs
  <2>1. PICK error \in {"plain", "persistence"} : run' = Throw("unwind", error)
    BY <1>5
  <2>2. PICK r : r = [run EXCEPT !.pc = "unwind", !.error = error]
    OBVIOUS
  <2>3. run' = r /\ r.pc = "unwind" /\ r.record = mem
    BY <1>1, <2>1, <2>2 DEF Throw, Run, mem
  <2>4. Idle
    BY <1>5, OutcomesIdle
  <2>. QED BY <1>1, <2>3, <2>4, RecordStays DEF JobsStep, Launching
<1>. QED BY <1>2, <1>4, <1>5 DEF AdmitChild

LEMMA AdmitReviewerFollows ==
    ASSUME OrchInv, PlanInv, AdmitReviewer
    PROVE  Follows
<1>1. /\ run.pc = "evidence" /\ run \in Run /\ UNCHANGED <<input, requested>> /\ EnvInv
      /\ JobsTyped(jobs) /\ mem = parent /\ parent.status = "dispatching" /\ 0 \in Numbered
      /\ input.plan = 1 /\ parent.child[1] = "succeeded"
  BY ThreadsRun, Living, InputFacts
     DEF AdmitReviewer, Eligible, envVars, PlanInv, OnTheWay, Launching, mem
<1>2. CASE /\ EnsureJob(0) /\ UNCHANGED parent
           /\ run' = [run EXCEPT !.rv = "record",
                                 !.started = IF jobs'[0][1].running THEN @ \cup {0} ELSE @]
  <2>1. PICK r : r = run'
    OBVIOUS
  <2>2. r.pc = "evidence" /\ r.record = mem
    BY <1>1, <1>2, <2>1 DEF Run, mem
  <2>3. CASE jobs[0] # <<>>
    <3>1. Idle
      BY <1>2, <2>3, OutcomesIdle DEF EnsureJob
    <3>. QED BY <1>1, <1>2, <2>1, <2>2, <3>1, ThreadFollows DEF JobsStep
  <2>4. CASE jobs[0] = <<>>
    <3>1. PICK job : job = NewJob
      OBVIOUS
    <3>2. jobs' = [jobs EXCEPT ![0] = <<job>>] /\ job.status = "active"
      BY <1>2, <2>4, <3>1 DEF EnsureJob, NewJob
    <3>3. Outcomes(jobs') = [Outcomes(jobs) EXCEPT ![0] = "active"]
      <4>1. Outcomes(jobs') = [Outcomes(jobs) EXCEPT ![0] = job.status]
        BY <1>1, <3>2, OutcomeChanges
      <4>. QED BY <3>2, <4>1
    <3>4. Outcomes(jobs)[0] = "none"
      BY <1>1, <2>4, OutcomeFacts
    <3>5. \A k \in Contract!Plan : parent.child[k] = "succeeded"
      BY <1>1 DEF Contract!Plan
    <3>6. Contract!StartReview
      BY <1>1, <1>2, <3>3, <3>4, <3>5 DEF Contract!StartReview
    <3>7. OnTheWay(r, parent)
      BY <1>1, <2>2 DEF PlanInv, OnTheWay
    <3>8. PlanInv'
      BY <1>2, <2>1, <3>7 DEF PlanInv
    <3>. QED BY <3>6, <3>8 DEF Follows, Contract!Next
  <2>. QED BY <2>3, <2>4
<1>3. CASE Reviewed("unavailable", "done") /\ UNCHANGED jobs
  BY <1>1, <1>3, EvidenceFollows DEF Evidence, Threads
<1>4. CASE run' = [run EXCEPT !.rv = "threw", !.error = "persistence"] /\ UNCHANGED <<parent, jobs>>
  <2>1. PICK r : r = [run EXCEPT !.rv = "threw", !.error = "persistence"]
    OBVIOUS
  <2>2. r.record = mem /\ r.pc = run.pc
    BY <1>1, <2>1 DEF Run, mem
  <2>. QED BY <1>1, <1>4, <2>1, <2>2, OutcomesIdle, ThreadFollows DEF JobsStep
<1>. QED BY <1>2, <1>3, <1>4 DEF AdmitReviewer, ReviewThrows

\* The record stays, and the process with it.
LEMMA Unmoved ==
    ASSUME PlanInv, UNCHANGED <<input, requested, run, parent>>, JobsStep
    PROVE  Follows
<1>1. PlanInv'
  BY DEF PlanInv
<1>. QED BY <1>1, JobsStepAllowed DEF Follows

LEMMA JobsFollow ==
    ASSUME OrchInv, PlanInv, NEW k \in Numbered,
           CancelJob(k) \/ JobSettles(k) \/ JobGivesUp(k) \/ RecoverJob(k)
    PROVE  Follows
<1>1. UNCHANGED <<input, requested, run, parent>> /\ JobsTyped(jobs)
  BY DEF CancelJob, JobSettles, JobGivesUp, RecoverJob, envVars, OrchInv, StateInv, JobsInv
<1>2. ASSUME NEW i \in Active(k) PROVE jobs[k][i] \in Job /\ jobs[k][i].status = "active"
  BY <1>1, JobFacts DEF Active
<1>3. CASE CancelJob(k)
  <2>1. Idle
    BY <1>3, AbortIdle DEF CancelJob
  <2>. QED BY <1>1, <2>1, Unmoved DEF JobsStep
<1>4. CASE JobSettles(k)
  <2>1. PICK i \in Active(k), status \in Final, patch \in BOOLEAN :
          jobs' = [jobs EXCEPT ![k] = [jobs[k] EXCEPT ![i] =
                     [jobs[k][i] EXCEPT !.status = status, !.running = FALSE, !.patch = patch]]]
    BY <1>4 DEF JobSettles
  <2>2. PICK job : job = [jobs[k][i] EXCEPT !.status = status, !.running = FALSE, !.patch = patch]
    OBVIOUS
  <2>3. job.status = status
    BY <1>2, <2>1, <2>2 DEF Job
  <2>. QED BY <1>1, <2>1, <2>2, <2>3, JobBecomes, Unmoved
<1>5. CASE JobGivesUp(k)
  <2>1. PICK i \in Active(k) :
          jobs' = [jobs EXCEPT ![k] = [jobs[k] EXCEPT ![i] = [jobs[k][i] EXCEPT !.running = FALSE]]]
    BY <1>5 DEF JobGivesUp
  <2>2. PICK job : job = [jobs[k][i] EXCEPT !.running = FALSE]
    OBVIOUS
  <2>3. job.status = "active"
    BY <1>2, <2>1, <2>2 DEF Job
  <2>. QED BY <1>1, <2>1, <2>2, <2>3, JobBecomes, Unmoved
<1>6. CASE RecoverJob(k)
  <2>1. JobsStep
    BY <1>1, <1>6, JobHandled DEF RecoverJob
  <2>. QED BY <1>1, <2>1, Unmoved
<1>. QED BY <1>3, <1>4, <1>5, <1>6

-----------------------------------------------------------------------------
(* The contract: callers, and the broker process.                          *)

LEMMA CallersFollow ==
    ASSUME OrchInv, PlanInv, NEW c \in Callers, Capture(c) \/ Admission(c)
    PROVE  Follows
<1>1. UNCHANGED <<input, requested, jobs>> /\ Idle
  BY OutcomesIdle DEF Capture, Admission
<1>2. CASE UNCHANGED <<parent, run>>
  BY <1>1, <1>2, Unmoved DEF JobsStep
<1>3. CASE /\ parent.status = "none"
           /\ parent' = [NoParent EXCEPT !.status = "queued", !.owner = {c}]
           /\ run' = [NoRun EXCEPT !.pc = "handoff", !.record = parent']
  <2>1. parent = NoParent
    BY <1>3 DEF OrchInv, CallsInv
  <2>2. PICK p : p = [NoParent EXCEPT !.status = "queued", !.owner = {c}]
    OBVIOUS
  <2>3. p.status = "queued" /\ p.child = NoParent.child /\ p.dispatched = FALSE
    BY <2>2 DEF NoParent
  <2>4. PICK r : r = [NoRun EXCEPT !.pc = "handoff", !.record = p]
    OBVIOUS
  <2>5. r.pc = "handoff" /\ r.record = p
    BY <2>4 DEF NoRun
  <2>6. parent' = p /\ run' = r
    BY <1>3, <2>2, <2>4
  <2>7. Contract!Admit
    BY <1>1, <1>3, <2>1, <2>3, <2>6 DEF Contract!Admit, Idle
  <2>8. OnTheWay(r, p)
    BY <2>3, <2>5 DEF OnTheWay, Launching
  <2>9. PlanInv'
    BY <2>6, <2>8 DEF PlanInv
  <2>. QED BY <2>7, <2>9 DEF Follows, Contract!Next
<1>. QED BY <1>2, <1>3 DEF Capture, Admission

LEMMA RequestFollows ==
    ASSUME OrchInv, PlanInv, RequestCancel
    PROVE  Follows
<1>1. /\ parent.status \in {"queued", "dispatching"} /\ requested' = TRUE
      /\ UNCHANGED <<input, parent, run, jobs>> /\ Idle
  BY OutcomesIdle DEF RequestCancel
<1>2. Contract!RequestCancellation
  BY <1>1 DEF Contract!RequestCancellation, Idle
<1>3. PlanInv'
  BY <1>1 DEF PlanInv
<1>. QED BY <1>2, <1>3 DEF Follows, Contract!Next

LEMMA StartupFollows ==
    ASSUME OrchInv, PlanInv, Startup
    PROVE  Follows
<1>1. UNCHANGED <<input, requested, jobs>> /\ Idle
  BY OutcomesIdle DEF Startup, BootBroker, JobsRecovered, RecoverParent
<1>2. CASE UNCHANGED <<parent, run>>
  BY <1>1, <1>2, Unmoved DEF JobsStep
<1>3. CASE /\ parent.status \in {"queued", "dispatching"}
           /\ parent' = [parent EXCEPT !.evidence = @ \/ requested]
           /\ run' = [NoRun EXCEPT !.pc = "handoff", !.record = parent', !.aborted = requested]
  <2>1. parent \in OrchestrationRecord
    BY DEF OrchInv, StateInv, ParentInv, NamesJobs
  <2>2. PICK p : p = [parent EXCEPT !.evidence = @ \/ requested]
    OBVIOUS
  <2>3. p.status = parent.status /\ p.child = parent.child /\ p.dispatched = parent.dispatched
    BY <2>1, <2>2 DEF OrchestrationRecord
  <2>4. PICK r : r = [NoRun EXCEPT !.pc = "handoff", !.record = p, !.aborted = requested]
    OBVIOUS
  <2>5. r.pc = "handoff" /\ r.record = p
    BY <2>4 DEF NoRun
  <2>6. parent' = p /\ run' = r
    BY <1>3, <2>2, <2>4
  <2>7. UNCHANGED Contract!vars
    BY <1>1, <2>3, <2>6, Stutters
  <2>8. OnTheWay(r, p)
    BY <1>3, <2>3, <2>5 DEF PlanInv, OnTheWay, Launching
  <2>9. PlanInv'
    BY <2>6, <2>8 DEF PlanInv
  <2>. QED BY <2>7, <2>9 DEF Follows
<1>. QED BY <1>2, <1>3 DEF Startup, BootBroker, JobsRecovered, RecoverParent

\* A Job that stands still has come to what it had.
LEMMA DieFollows ==
    ASSUME OrchInv, PlanInv, Die, UNCHANGED <<input, requested, parent>>
    PROVE  Follows
<1>1. JobsTyped(jobs) /\ run' = NoRun
  BY DEF OrchInv, StateInv, JobsInv, Die
<1>2. PICK js : js = jobs'
  OBVIOUS
<1>3. ASSUME NEW k \in Numbered
      PROVE  (js[k] = <<>> <=> jobs[k] = <<>>) /\ (jobs[k] # <<>> => js[k][1].status = jobs[k][1].status)
  <2>1. js[k] = [i \in DOMAIN jobs[k] |-> [jobs[k][i] EXCEPT !.running = FALSE]]
    BY <1>2 DEF Die, Halted, Numbered
  <2>2. CASE jobs[k] = <<>>
    BY <2>1, <2>2
  <2>3. CASE jobs[k] # <<>>
    <3>1. DOMAIN jobs[k] = {1} /\ jobs[k][1] \in Job
      BY <1>1, <2>3, JobFacts
    <3>2. js[k][1].status = jobs[k][1].status
      BY <2>1, <3>1 DEF Job
    <3>3. DOMAIN js[k] = {1} /\ DOMAIN <<>> = {}
      BY <2>1, <3>1
    <3>4. js[k] # <<>>
      BY <3>3
    <3>. QED BY <2>3, <3>2, <3>4
  <2>. QED BY <2>2, <2>3
<1>4. \A k \in 0..MaxSubtasks : (IF js[k] = <<>> THEN "none" ELSE js[k][1].status)
                              = (IF jobs[k] = <<>> THEN "none" ELSE jobs[k][1].status)
  BY <1>3 DEF Numbered
<1>5. Outcomes(js) = Outcomes(jobs)
  BY <1>4 DEF Outcomes
<1>6. Idle
  BY <1>2, <1>5 DEF Idle
<1>. QED BY <1>1, <1>6, EndFollows

LEMMA InitFollows == OrchInit => PlanInv /\ Contract!Init
<1> SUFFICES ASSUME OrchInit PROVE PlanInv /\ Contract!Init
  OBVIOUS
<1>1. run = NoRun /\ parent = NoParent /\ jobs = [k \in 0..MaxSubtasks |-> <<>>] /\ requested = FALSE
      /\ input \in Inputs
  BY DEF OrchInit
<1>2. Outcomes(jobs) = [k \in 0..MaxSubtasks |-> "none"]
  BY <1>1 DEF Outcomes
<1>3. parent.status = "none" /\ parent.child = [k \in 1..MaxSubtasks |-> "none"]
  BY <1>1 DEF NoParent, Subtasks
<1>4. Contract!Init
  BY <1>1, <1>2, <1>3 DEF Contract!Init
<1>5. PlanInv
  BY <1>1 DEF PlanInv, OnTheWay, NoRun, NoParent, Launching
<1>. QED BY <1>4, <1>5

LEMMA StepFollows == OrchInv /\ PlanInv /\ [OrchNext]_orchVars => Follows
<1> SUFFICES ASSUME OrchInv, PlanInv, [OrchNext]_orchVars PROVE Follows
  OBVIOUS
<1>1. ASSUME NEW c \in Callers, Capture(c) \/ Admission(c) PROVE Follows
  BY <1>1, CallersFollow
<1>2. CASE RequestCancel \/ MonitorFails
  BY <1>2, RequestFollows, QuietFollows
<1>3. CASE Execution
  BY <1>3, QuietFollows, EarlyAppendsFollow, DispatchingFollows, AdmitChildFollows, RecordChildFollows,
     FollowChildFollows, OrphanSettlesFollows, FinishParentFollows, RefusedFollows, CatchFollows DEF Execution
<1>4. CASE ReviewThread
  BY <1>4, ReviewFollows, AdmitReviewerFollows, QuietFollows DEF ReviewThread
<1>5. CASE ValidationThread
  BY <1>5, ValidationFollows
<1>6. ASSUME NEW k \in Subtasks, SettleChild(k) PROVE Follows
  BY <1>6, SettleChildFollows
<1>7. ASSUME NEW k \in 0..MaxSubtasks, CancelJob(k) \/ JobSettles(k) \/ JobGivesUp(k) \/ RecoverJob(k)
      PROVE  Follows
  BY <1>7, JobsFollow DEF Numbered
<1>8. CASE Startup
  BY <1>8, StartupFollows
<1>9. CASE CrashBroker \/ RecoverParentFails
  BY <1>9, DieFollows DEF CrashBroker, RecoverParentFails
<1>10. CASE UNCHANGED orchVars
  BY <1>10, Unmoved, OutcomesIdle DEF orchVars, envVars, JobsStep
<1>. QED BY <1>1, <1>2, <1>3, <1>4, <1>5, <1>6, <1>7, <1>8, <1>9, <1>10 DEF OrchNext

\* An execution, whoever restarts it and whatever fails to be saved, does what the contract of the
\* record and its Jobs allows: the status goes forward once, a settled parent changes no more and
\* starts no Job, children start in order while the saved parent is dispatching and fewer than
\* the bound work without being recorded as settled, the reviewer starts after all of them
\* succeeded, and no outcome that was recorded is taken back.
THEOREM PlanContractImplemented == OrchSpec => ImplementsPlanContract
<1>1. OrchInit => OrchInv /\ PlanInv /\ Contract!Init
  BY InitKeeps, InitFollows
<1>2. OrchInv /\ PlanInv /\ [OrchNext]_orchVars
         => OrchInv' /\ PlanInv' /\ [Contract!Next]_(Contract!vars)
  BY NextKeeps, StepFollows DEF Follows
<1>. QED BY <1>1, <1>2, PTL DEF OrchSpec, ImplementsPlanContract, Contract!Spec

=============================================================================
