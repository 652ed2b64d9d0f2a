---------------------------- MODULE Broker_proofs ----------------------------
(***************************************************************************)
(* The brokers and the commands that start and stop them, for any number   *)
(* of brokers over time and any scripts of commands.                       *)
(*                                                                         *)
(* Two locks carry the argument.  Whoever changes the record holds the     *)
(* lock of discovery: a broker from its registration until it closes it,   *)
(* or the one command that removes a stale record.  So a broker that was   *)
(* once found in the record is in it as long as it answers, and what a     *)
(* command has seen of it stays true.  The directories are taken one by    *)
(* one and given up together, and what a process works on follows from the *)
(* step it is at.                                                          *)
(***************************************************************************)
EXTENDS Broker, TLAPS

Steps == {"none", "spawned", "registered", "owning", "recovered", "listening", "published",
          "serving", "draining", "stopping", "closed", "running", "unregistering", "leaving",
          "exited"}
Works == {"none", "active", "parent", "abandoned"}
ProcessRecord == [step: Steps, work: Works, admitting: BOOLEAN, admitted: BOOLEAN, kept: BOOLEAN]

ShellSteps == {"idle", "read", "probe", "signal", "lock", "check", "unlink", "spawn", "terminate",
               "grace", "done"}
Phases == {"first", "again", "watch", "poll"}
Results == {"none", "started", "already-running", "stopped", "already-stopped",
            "stale-record-removed", "error"}
Named == Brokers \cup {Nobody}
ShellRecord == [kind: {"up", "down", "run"}, step: ShellSteps, phase: Phases, seen: Named,
                target: Named, child: Named, result: Results]

Unowned == {"none", "spawned", "exited"}
Owning == {"owning", "recovered", "listening", "published", "serving", "draining", "stopping",
           "closed", "running"}
Closing == {"unregistering", "leaving"}
Registered == {"registered", "owning", "recovered", "listening", "published", "serving",
               "draining", "stopping", "closed", "unregistering"}
InService == {"published", "serving", "draining", "stopping"}
Over == {"closed", "unregistering", "leaving", "exited"}
OfBrokers == {"spawned", "listening"} \cup InService

Editor == MaxBrokers + 2
Editing(s) == shell[s].step \in {"check", "unlink"}

\* What holds of process p with record x that has the locks of these directories.
ProcessInv(p, x, held) ==
    /\ x \in ProcessRecord
    /\ x.step \in OfBrokers => p \in Brokers
    /\ x.step = "running" => p = Local
    /\ x.step \in Unowned => held = {}
    /\ x.step = "registered" => Storage(p) \ held # {}
    /\ x.step \in Owning => Storage(p) \subseteq held
    /\ x.step \in Closing => IF x.kept THEN Storage(p) \subseteq held ELSE held = {}
    /\ x.work \in {"active", "parent"} => x.step \in Owning \/ (x.step \in Closing /\ x.kept)
    /\ x.admitting => x.step \in {"listening", "published", "serving", "draining"}
    /\ x.kept => x.step \in Closing

\* A broker that was in the record is in it while it answers.
Recorded(p) ==
    /\ p \in Brokers /\ process[p].step \in InService \cup Over
    /\ process[p].step \in InService => announced = p

Gone(p) == p \in Brokers /\ process[p].step \in Over
Spawned(p) == p \in Brokers /\ process[p].step # "none"
Ended(p) == p \in Brokers /\ process[p].step = "exited"

\* What holds of a command at x.
ShellInv(x) ==
    /\ x \in ShellRecord
    /\ x.seen # Nobody => Recorded(x.seen)
    /\ x.target # Nobody => Recorded(x.target)
    /\ x.step = "signal" => x.target # Nobody
    /\ x.phase = "watch" /\ x.step = "probe" /\ x.seen # x.target /\ x.target # Nobody
            => Gone(x.target)
    /\ x.phase = "watch" /\ x.step \in {"lock", "check", "unlink"} => x.seen = x.target
    /\ x.step = "done" /\ x.result = "stopped" /\ x.target # Nobody => Gone(x.target)
    /\ x.step \in {"terminate", "grace"} => x.phase = "poll" /\ x.result # "stopped"
    /\ x.phase = "poll" => Spawned(x.child)
    /\ x.child # Nobody =>
            x.phase = "poll" /\ x.step \in {"read", "probe", "terminate", "grace", "done"}
    /\ x.step = "done" /\ x.result # "started" /\ x.child # Nobody => Ended(x.child)

ProcessesInv ==
    /\ process = [p \in Processes |-> process[p]]
    /\ directories \in [Directories -> Processes \cup {Nobody}]
    /\ \A p \in Processes : ProcessInv(p, process[p], Holds(p))

RecordInv ==
    /\ announced \in Brokers \cup {Nobody}
    /\ announced # Nobody => process[announced].step \in InService \cup Over
    /\ \A p \in Brokers : process[p].step \in {"published", "serving"} => announced = p
    /\ \A p \in Brokers : process[p].step \in Registered => discovery = p

EditorInv ==
    /\ \A s \in Shells : Editing(s) => discovery = Editor
    /\ \A s, t \in Shells : Editing(s) /\ Editing(t) => s = t

ShellsInv ==
    /\ shell = [s \in Shells |-> shell[s]]
    /\ \A s \in Shells : ShellInv(shell[s])

BrokerInv == ProcessesInv /\ RecordInv /\ EditorInv /\ ShellsInv

-----------------------------------------------------------------------------
LEMMA Numbers ==
    /\ Nobody \notin Processes /\ Editor \notin Processes /\ Editor # Nobody
    /\ Brokers \subseteq Processes /\ Local \in Processes /\ Local \notin Brokers
    /\ Nobody \notin Brokers /\ Editor \notin Brokers /\ 1 \in Brokers
    /\ \A p \in Processes : p \notin Brokers => p = Local
    /\ \A p \in Processes : Storage(p) \subseteq Directories
BY BrokerAssumption DEF Processes, Brokers, Local, Editor, Nobody, Storage, Directories

\* The invariant has what the runs check.
LEMMA BrokerSuffices ==
    BrokerInv => ServingBrokerKeepsRecord /\ CommandsAnswerTruly /\ OwnershipFollowsWork
<1>1. SUFFICES ASSUME BrokerInv
               PROVE  ServingBrokerKeepsRecord /\ CommandsAnswerTruly /\ OwnershipFollowsWork
  OBVIOUS
<1>2. ServingBrokerKeepsRecord
  BY <1>1 DEF ServingBrokerKeepsRecord, BrokerInv, RecordInv, ProcessAt
<1>3. ASSUME NEW s \in Shells, shell[s].step = "done"
      PROVE  /\ shell[s].result = "stopped" /\ shell[s].target # Nobody
                  => ~ Listening(shell[s].target)
             /\ shell[s].result # "started" /\ shell[s].child # Nobody => ~ Alive(shell[s].child)
  <2>1. ShellInv(shell[s])
    BY <1>1 DEF BrokerInv, ShellsInv
  <2>. QED BY <1>3, <2>1 DEF ShellInv, Gone, Ended, Over, Listening, Alive
<1>4. ASSUME NEW p \in Processes
      PROVE  /\ process[p].work \in {"active", "parent"} => Storage(p) \subseteq Holds(p)
             /\ process[p].step \in {"unregistering", "leaving"} /\ ~ process[p].kept
                  => Holds(p) = {}
  <2>1. ProcessInv(p, process[p], Holds(p))
    BY <1>1 DEF BrokerInv, ProcessesInv
  <2>. QED BY <2>1 DEF ProcessInv, Closing
<1>. QED BY <1>2, <1>3, <1>4 DEF CommandsAnswerTruly, OwnershipFollowsWork, ShellAt

LEMMA NewProcesses ==
    ASSUME NEW b \in Steps
    PROVE  LET x == [NewProcess EXCEPT !.step = b]
           IN  /\ x \in ProcessRecord /\ x.step = b /\ x.work = "none"
               /\ ~ x.admitting /\ ~ x.admitted /\ ~ x.kept
BY DEF NewProcess, ProcessRecord, Works

LEMMA NewShells ==
    ASSUME NEW kind \in {"up", "down", "run"}
    PROVE  ShellInv(NewShell(kind)) /\ NewShell(kind).step = "idle"
<1>1. NewShell(kind) \in ShellRecord
  BY DEF NewShell, ShellRecord, ShellSteps, Phases, Results, Named
<1>. QED BY <1>1 DEF ShellInv, NewShell

LEMMA BrokerBegins == BrokerInit => BrokerInv
<1>1. SUFFICES ASSUME BrokerInit PROVE BrokerInv
  OBVIOUS
<1>2. /\ announced \in {Nobody, 1} /\ discovery = Nobody
      /\ directories = [d \in Directories |-> Nobody]
      /\ process = [p \in Processes |->
                       [NewProcess EXCEPT !.step = IF p = announced THEN "exited" ELSE "none"]]
  BY <1>1 DEF BrokerInit
<1>3. PICK script \in Scripts :
          shell = [s \in DOMAIN script.commands |-> NewShell(script.commands[s])]
  BY <1>1 DEF BrokerInit
<1>4. ASSUME NEW p \in Processes
      PROVE  /\ process[p] \in ProcessRecord /\ Holds(p) = {} /\ ~ process[p].admitting
             /\ ~ process[p].kept /\ process[p].work = "none"
             /\ process[p].step = IF p = announced THEN "exited" ELSE "none"
  <2> DEFINE b == IF p = announced THEN "exited" ELSE "none"
  <2>1. b \in Steps
    BY DEF Steps
  <2>2. process[p] = [NewProcess EXCEPT !.step = b]
    BY <1>2
  <2> HIDE DEF b
  <2>3. /\ process[p] \in ProcessRecord /\ process[p].step = b /\ ~ process[p].admitting
        /\ ~ process[p].kept /\ process[p].work = "none"
    BY <2>1, <2>2, NewProcesses
  <2>4. Holds(p) = {}
    BY <1>2, Numbers DEF Holds
  <2>. QED BY <2>3, <2>4 DEF b
<1>5. ProcessesInv
  <2>1. ASSUME NEW p \in Processes PROVE ProcessInv(p, process[p], Holds(p))
    BY <1>4 DEF ProcessInv, Unowned, Owning, Closing, OfBrokers, InService
  <2>2. process = [p \in Processes |-> process[p]]
    BY <1>2
  <2>3. directories \in [Directories -> Processes \cup {Nobody}]
    BY <1>2
  <2>. QED BY <2>1, <2>2, <2>3 DEF ProcessesInv
<1>6. RecordInv
  <2>1. announced # Nobody => announced \in Processes
    BY <1>2, Numbers
  <2>. QED BY <1>2, <1>4, <2>1, Numbers DEF RecordInv, InService, Over, Registered
<1>7. /\ shell = [s \in Shells |-> shell[s]]
      /\ \A s \in Shells : ShellInv(shell[s]) /\ shell[s].step = "idle"
  <2>1. script.commands \in Seq({"up", "down", "run"})
    BY <1>3, BrokerAssumption
  <2>2. ASSUME NEW s \in DOMAIN script.commands
        PROVE  script.commands[s] \in {"up", "down", "run"}
    BY <2>1
  <2>3. Shells = DOMAIN script.commands
    BY <1>3 DEF Shells
  <2>. QED BY <1>3, <2>2, <2>3, NewShells
<1>. QED BY <1>5, <1>6, <1>7 DEF BrokerInv, EditorInv, Editing, ShellsInv

-----------------------------------------------------------------------------
\* The step of a process goes forward: what is over stays over.
Follows(a, b) ==
    /\ a \in InService \cup Over => b \in InService \cup Over
    /\ a \in Over => b \in Over
    /\ a # "none" => b # "none"
    /\ a = "exited" => b = "exited"

\* What commands have seen of the brokers stays true.
SeenStands ==
    \A p \in Brokers :
        /\ Recorded(p) => Recorded(p)'
        /\ Gone(p) => Gone(p)'
        /\ Spawned(p) => Spawned(p)'
        /\ Ended(p) => Ended(p)'

LEMMA ShellKept ==
    ASSUME SeenStands, NEW x, ShellInv(x)
    PROVE  ShellInv(x)'
<1>1. /\ x.seen \in Named /\ x.target \in Named /\ x.child \in Named
  BY DEF ShellInv, ShellRecord
<1>2. /\ x.seen # Nobody => x.seen \in Brokers
      /\ x.target # Nobody => x.target \in Brokers
      /\ x.child # Nobody => x.child \in Brokers
      /\ x.phase = "poll" => x.child \in Brokers
  BY <1>1 DEF Named, ShellInv, Spawned
<1>3. /\ x.seen # Nobody => Recorded(x.seen)'
      /\ x.target # Nobody => Recorded(x.target)'
      /\ x.phase = "watch" /\ x.step = "probe" /\ x.seen # x.target /\ x.target # Nobody
            => Gone(x.target)'
      /\ x.step = "done" /\ x.result = "stopped" /\ x.target # Nobody => Gone(x.target)'
      /\ x.phase = "poll" => Spawned(x.child)'
      /\ x.step = "done" /\ x.result # "started" /\ x.child # Nobody => Ended(x.child)'
  BY <1>2 DEF ShellInv, SeenStands
<1>. QED BY <1>3 DEF ShellInv

\* Process p moves on to x, with no lock that another one has.
LEMMA ProcessMoves ==
    ASSUME BrokerInv, NEW p \in Processes, NEW x,
           process' = [process EXCEPT ![p] = x],
           Follows(process[p].step, x.step),
           directories' \in [Directories -> Processes \cup {Nobody}],
           \A q \in Processes : q # p => Holds(q)' = Holds(q),
           ProcessInv(p, x, Holds(p)'),
           \/ discovery' = discovery
           \/ discovery = p /\ discovery' = Nobody
           \/ discovery = Nobody /\ discovery' = p,
           p \in Brokers /\ x.step \in Registered => discovery' = p,
           \/ announced' = announced
           \/ /\ announced' = p /\ p \in Brokers /\ process[p].step = "listening"
              /\ x.step \in InService
           \/ announced = p /\ announced' = Nobody /\ x.step \in Over,
           x.step \in {"published", "serving"} => announced' = p
    PROVE  /\ ProcessesInv' /\ RecordInv' /\ SeenStands
           /\ \A s \in Shells : Editing(s) => discovery' = Editor
<1>1. ProcessesInv /\ RecordInv /\ EditorInv
  BY DEF BrokerInv
<1>2. /\ process' = [q \in Processes |-> process'[q]] /\ process'[p] = x
      /\ \A q \in Processes : q # p => process'[q] = process[q]
  BY <1>1 DEF ProcessesInv
<1>3. ProcessesInv'
  <2>1. ASSUME NEW q \in Processes PROVE ProcessInv(q, process'[q], Holds(q)')
    <3>1. CASE q = p
      BY <1>2, <3>1
    <3>2. CASE q # p
      BY <1>1, <1>2, <3>2 DEF ProcessesInv
    <3>. QED BY <3>1, <3>2
  <2>. QED BY <1>2, <2>1 DEF ProcessesInv
<1>4. ASSUME NEW q \in Brokers, q # p, process[q].step \in Registered
      PROVE  discovery = q /\ discovery' = q
  BY <1>1, <1>4, Numbers DEF RecordInv
<1>5. ASSUME NEW q \in Brokers, q # p, process[q].step \in InService, announced = q
      PROVE  announced' = q
  <2>1. discovery = q
    BY <1>4, <1>5 DEF InService, Registered
  <2>2. process[p].step = "listening" /\ p \in Brokers => discovery = p
    BY <1>1 DEF RecordInv, Registered
  <2>. QED BY <1>5, <2>1, <2>2
<1>6. SeenStands
  <2>1. ASSUME NEW q \in Brokers
        PROVE  /\ Recorded(q) => Recorded(q)'
               /\ Gone(q) => Gone(q)'
               /\ Spawned(q) => Spawned(q)'
               /\ Ended(q) => Ended(q)'
    <3>1. CASE q # p
      <4>1. process'[q] = process[q]
        BY <1>2, <3>1, Numbers
      <4>. QED BY <4>1, <1>5, <3>1 DEF Recorded, Gone, Spawned, Ended
    <3>2. CASE q = p
      <4>1. process'[q] = x
        BY <1>2, <3>2
      <4>2. Gone(q) => Gone(q)'
        BY <4>1, <3>2 DEF Gone, Follows
      <4>3. (Spawned(q) => Spawned(q)') /\ (Ended(q) => Ended(q)')
        BY <4>1, <3>2 DEF Spawned, Ended, Follows
      <4>4. Recorded(q) => Recorded(q)'
        BY <4>1, <3>2 DEF Recorded, Follows, InService, Over
      <4>. QED BY <4>2, <4>3, <4>4
    <3>. QED BY <3>1, <3>2
  <2>. QED BY <2>1 DEF SeenStands
<1>7. RecordInv'
  <2>1. announced' \in Brokers \cup {Nobody}
    BY <1>1 DEF RecordInv
  <2>2. announced' # Nobody => process'[announced'].step \in InService \cup Over
    <3>1. ASSUME announced' # Nobody PROVE announced' \in Processes
      BY <3>1, <2>1, Numbers
    <3>2. CASE announced' = p
      <4>1. x.step \in InService \cup Over
        BY <1>1, <3>2, Numbers DEF RecordInv, Follows
      <4>. QED BY <1>2, <3>2, <4>1
    <3>3. CASE announced' # p /\ announced' # Nobody
      BY <1>1, <1>2, <3>1, <3>3 DEF RecordInv
    <3>. QED BY <3>2, <3>3
  <2>3. ASSUME NEW q \in Brokers, process'[q].step \in {"published", "serving"}
        PROVE  announced' = q
    <3>1. CASE q = p
      BY <1>2, <2>3, <3>1
    <3>2. CASE q # p
      <4>1. process[q].step \in {"published", "serving"}
        BY <1>2, <2>3, <3>2, Numbers
      <4>2. announced = q
        BY <1>1, <4>1 DEF RecordInv
      <4>. QED BY <4>1, <4>2, <1>5, <3>2 DEF InService
    <3>. QED BY <3>1, <3>2
  <2>4. ASSUME NEW q \in Brokers, process'[q].step \in Registered
        PROVE  discovery' = q
    <3>1. CASE q = p
      BY <1>2, <2>4, <3>1
    <3>2. CASE q # p
      <4>1. process[q].step \in Registered
        BY <1>2, <2>4, <3>2, Numbers
      <4>. QED BY <4>1, <1>4, <3>2
    <3>. QED BY <3>1, <3>2
  <2>. QED BY <2>1, <2>2, <2>3, <2>4 DEF RecordInv
<1>8. ASSUME NEW s \in Shells, Editing(s) PROVE discovery' = Editor
  BY <1>1, <1>8, Numbers DEF EditorInv
<1>. QED BY <1>3, <1>6, <1>7, <1>8

\* A process moves on, and no command does.
LEMMA ProcessesOnly ==
    ASSUME BrokerInv, ProcessesInv', RecordInv', SeenStands, UNCHANGED shell,
           \A s \in Shells : Editing(s) => discovery' = Editor
    PROVE  BrokerInv'
<1>1. Shells' = Shells /\ \A s \in Shells : Editing(s)' <=> Editing(s)
  BY DEF Shells, Editing
<1>2. EditorInv'
  BY <1>1 DEF BrokerInv, EditorInv
<1>3. ASSUME NEW s \in Shells PROVE ShellInv(shell[s])'
  <2>1. ShellInv(shell[s])
    BY DEF BrokerInv, ShellsInv
  <2>. QED BY <2>1, ShellKept
<1>4. ShellsInv'
  BY <1>1, <1>3 DEF BrokerInv, ShellsInv
<1>. QED BY <1>2, <1>4 DEF BrokerInv

-----------------------------------------------------------------------------
\* The processes and their locks are in order after a step, and no command was misled.
ProcessesMoved ==
    /\ ProcessesInv' /\ RecordInv' /\ SeenStands
    /\ \A s \in Shells : Editing(s) => discovery' = Editor

LEMMA ProcessFacts ==
    ASSUME BrokerInv, NEW p \in Processes
    PROVE  /\ process[p] \in ProcessRecord /\ ProcessInv(p, process[p], Holds(p))
           /\ directories \in [Directories -> Processes \cup {Nobody}]
           /\ (p \in Brokers /\ process[p].step \in Registered => discovery = p)
           /\ (p \in Brokers /\ process[p].step \in {"published", "serving"} => announced = p)
BY DEF BrokerInv, ProcessesInv, ProcessInv, RecordInv

LEMMA NothingMoves ==
    ASSUME BrokerInv, UNCHANGED <<process, directories, discovery, announced>>
    PROVE  ProcessesMoved
<1>1. ProcessesInv'
  BY DEF BrokerInv, ProcessesInv, Holds
<1>2. RecordInv'
  BY DEF BrokerInv, RecordInv
<1>3. SeenStands
  BY DEF SeenStands, Recorded, Gone, Spawned, Ended
<1>4. \A s \in Shells : Editing(s) => discovery' = Editor
  BY DEF BrokerInv, EditorInv
<1>. QED BY <1>1, <1>2, <1>3, <1>4 DEF ProcessesMoved

LEMMA KeepsLocks ==
    ASSUME UNCHANGED directories
    PROVE  \A q \in Processes : Holds(q)' = Holds(q)
BY DEF Holds

LEMMA ReleasesLocks ==
    ASSUME BrokerInv, NEW p \in Processes, directories' = Released(p)
    PROVE  /\ directories' \in [Directories -> Processes \cup {Nobody}]
           /\ Holds(p)' = {}
           /\ \A q \in Processes : q # p => Holds(q)' = Holds(q)
<1>1. directories \in [Directories -> Processes \cup {Nobody}]
  BY DEF BrokerInv, ProcessesInv
<1>2. directories' \in [Directories -> Processes \cup {Nobody}]
  BY <1>1 DEF Released
<1>3. \A d \in Directories : directories'[d] = IF directories[d] = p THEN Nobody ELSE directories[d]
  BY DEF Released
<1>. QED BY <1>2, <1>3, Numbers DEF Holds

LEMMA ExitMoves ==
    ASSUME BrokerInv, NEW p \in Processes, Exits(p), UNCHANGED announced
    PROVE  ProcessesMoved
<1> DEFINE x == [NewProcess EXCEPT !.step = "exited"]
<1>1. /\ process' = [process EXCEPT ![p] = x] /\ directories' = Released(p)
      /\ discovery' = (IF discovery = p THEN Nobody ELSE discovery)
  BY DEF Exits
<1>2. /\ x \in ProcessRecord /\ x.step = "exited" /\ x.work = "none" /\ ~ x.admitting /\ ~ x.kept
  BY NewProcesses DEF Steps
<1> HIDE DEF x
<1>3. ProcessInv(p, x, Holds(p)')
  BY <1>1, <1>2, ReleasesLocks DEF ProcessInv, Unowned, Owning, Closing, OfBrokers, InService
<1>4. Follows(process[p].step, x.step)
  BY <1>2 DEF Follows, Over
<1>5. x.step \notin Registered /\ x.step \notin {"published", "serving"}
  BY <1>2 DEF Registered
<1>. QED BY <1>1, <1>3, <1>4, <1>5, ReleasesLocks, ProcessMoves DEF ProcessesMoved

\* A process that has all its locks goes on to work with them.
LEMMA Onward ==
    ASSUME BrokerInv, NEW p \in Processes, NEW x \in ProcessRecord,
           process' = [process EXCEPT ![p] = x], UNCHANGED <<directories, discovery>>,
           process[p].step \in Owning, x.step \in Owning, ~ x.kept,
           Follows(process[p].step, x.step),
           x.step \in OfBrokers => p \in Brokers, x.step = "running" => p = Local,
           x.admitting => x.step \in {"listening", "published", "serving", "draining"},
           \/ announced' = announced /\ x.step \notin {"published", "serving"}
           \/ announced' = p /\ p \in Brokers /\ process[p].step = "listening"
              /\ x.step = "published"
           \/ announced' = announced /\ p \in Brokers
              /\ process[p].step \in {"published", "serving"}
    PROVE  ProcessesMoved
<1>1. ProcessInv(p, x, Holds(p)')
  <2>1. Storage(p) \subseteq Holds(p)'
    BY ProcessFacts, KeepsLocks DEF ProcessInv
  <2>. QED BY <2>1 DEF ProcessInv, Unowned, Owning, Closing
<1>2. p \in Brokers /\ x.step \in Registered => discovery' = p
  <2>1. process[p].step \in Registered \/ process[p].step = "running"
    BY DEF Owning, Registered
  <2>2. process[p].step = "running" => p \notin Brokers
    BY ProcessFacts, Numbers DEF ProcessInv
  <2>. QED BY <2>1, <2>2, ProcessFacts
<1>3. x.step \in {"published", "serving"} => announced' = p
  BY ProcessFacts
<1>4. directories' \in [Directories -> Processes \cup {Nobody}]
  BY ProcessFacts
<1>5. \/ announced' = announced
      \/ /\ announced' = p /\ p \in Brokers /\ process[p].step = "listening"
         /\ x.step \in InService
  BY DEF InService
<1>. QED BY <1>1, <1>2, <1>3, <1>4, <1>5, KeepsLocks, ProcessMoves DEF ProcessesMoved

LEMMA StepFields ==
    ASSUME NEW x \in ProcessRecord, NEW b \in Steps
    PROVE  LET y == [x EXCEPT !.step = b]
           IN  /\ y \in ProcessRecord /\ y.step = b /\ y.work = x.work
               /\ y.admitting = x.admitting /\ y.admitted = x.admitted /\ y.kept = x.kept
BY DEF ProcessRecord

\* The steps that take a process to its locks.
LEMMA StartSteps ==
    ASSUME BrokerInv, NEW p \in Processes, Register(p) \/ Acquire(p) \/ RecoverWork(p)
    PROVE  ProcessesMoved
<1>1. /\ process[p] \in ProcessRecord /\ ProcessInv(p, process[p], Holds(p))
      /\ directories \in [Directories -> Processes \cup {Nobody}]
      /\ (p \in Brokers /\ process[p].step \in Registered => discovery = p)
  BY ProcessFacts
<1>2. CASE Register(p)
  <2> DEFINE x == [process[p] EXCEPT !.step = "registered"]
             y == [process[p] EXCEPT !.step = "exited"]
  <2>1. /\ process[p].step = "spawned" /\ UNCHANGED <<directories, announced>>
        /\ \/ discovery = Nobody /\ discovery' = p /\ process' = [process EXCEPT ![p] = x]
           \/ discovery' = discovery /\ process' = [process EXCEPT ![p] = y]
    BY <1>2 DEF Register, GoesTo, ProcessAt
  <2>2. /\ x \in ProcessRecord /\ x.step = "registered" /\ x.work = process[p].work
        /\ x.admitting = process[p].admitting /\ x.kept = process[p].kept
        /\ y \in ProcessRecord /\ y.step = "exited" /\ y.work = process[p].work
        /\ y.admitting = process[p].admitting /\ y.kept = process[p].kept
    BY <1>1, StepFields, ZenonT(40) DEF Steps
  <2> HIDE DEF x, y
  <2>3. /\ Holds(p)' = {} /\ p \in Brokers /\ Storage(p) # {}
        /\ process[p].work \notin {"active", "parent"} /\ ~ process[p].admitting
        /\ ~ process[p].kept
    BY <1>1, <2>1, KeepsLocks DEF ProcessInv, Unowned, OfBrokers, Owning, Closing, Storage
  <2>4. ProcessInv(p, x, Holds(p)') /\ ProcessInv(p, y, Holds(p)')
    BY <2>2, <2>3 DEF ProcessInv, Unowned, Owning, Closing, OfBrokers, InService
  <2>5. Follows(process[p].step, x.step) /\ Follows(process[p].step, y.step)
    BY <2>1, <2>2 DEF Follows, InService, Over
  <2>6. CASE discovery = Nobody /\ discovery' = p /\ process' = [process EXCEPT ![p] = x]
    BY <1>1, <2>1, <2>2, <2>4, <2>5, <2>6, KeepsLocks, ProcessMoves DEF ProcessesMoved
  <2>7. CASE discovery' = discovery /\ process' = [process EXCEPT ![p] = y]
    <3>1. y.step \notin Registered
      BY <2>2 DEF Registered
    <3>. QED BY <1>1, <2>1, <2>2, <2>4, <2>5, <2>7, <3>1, KeepsLocks, ProcessMoves
             DEF ProcessesMoved
  <2>. QED BY <2>1, <2>6, <2>7
<1>3. CASE Acquire(p)
  <2> DEFINE left == Storage(p) \ Holds(p)
             next == CHOOSE d \in left : \A e \in left : d <= e
             b == IF left = {next} THEN "owning" ELSE "registered"
             x == [process[p] EXCEPT !.step = b]
             y == [process[p] EXCEPT !.step = "unregistering"]
  <2>1. /\ process[p].step = "registered" /\ UNCHANGED <<discovery, announced>>
        /\ \/ /\ directories[next] = Nobody /\ directories' = [directories EXCEPT ![next] = p]
              /\ process' = [process EXCEPT ![p] = x]
           \/ directories' = Released(p) /\ process' = [process EXCEPT ![p] = y]
    BY <1>3 DEF Acquire, GoesTo, ProcessAt, AfterRefusal
  <2>2. next \in left /\ left \subseteq Directories
    <3>1. left # {} /\ left \subseteq {1, 2, 3}
      BY <1>1, <2>1, Numbers DEF ProcessInv, Directories
    <3>2. \E d \in left : \A e \in left : d <= e
      <4>1. CASE 1 \in left
        BY <3>1, <4>1
      <4>2. CASE 1 \notin left /\ 2 \in left
        BY <3>1, <4>2
      <4>3. CASE left = {3}
        BY <4>3
      <4>. QED BY <3>1, <4>1, <4>2, <4>3
    <3>3. {1, 2, 3} = Directories
      BY DEF Directories
    <3>. QED BY <3>1, <3>2, <3>3
  <2>3. b \in {"owning", "registered"} /\ b \in Steps
    BY DEF Steps
  <2>4. b = "owning" => Storage(p) \subseteq Holds(p) \cup {next}
    OBVIOUS
  <2>5. b = "registered" => Storage(p) \ (Holds(p) \cup {next}) # {}
    BY <2>2
  <2> HIDE DEF next, b
  <2>6. /\ x \in ProcessRecord /\ x.step = b /\ x.work = process[p].work
        /\ x.admitting = process[p].admitting /\ x.kept = process[p].kept
        /\ y \in ProcessRecord /\ y.step = "unregistering" /\ y.work = process[p].work
        /\ y.admitting = process[p].admitting /\ y.kept = process[p].kept
    <3>1. "unregistering" \in Steps
      BY DEF Steps
    <3>. QED BY <1>1, <2>3, <3>1, StepFields
  <2> HIDE DEF x, y, left
  <2>7. /\ process[p].work \notin {"active", "parent"} /\ ~ process[p].admitting
        /\ ~ process[p].kept
    BY <1>1, <2>1 DEF ProcessInv, Owning, Closing
  <2>8. Follows(process[p].step, x.step) /\ Follows(process[p].step, y.step)
    BY <2>1, <2>3, <2>6 DEF Follows, InService, Over
  <2>9. CASE /\ directories[next] = Nobody /\ directories' = [directories EXCEPT ![next] = p]
             /\ process' = [process EXCEPT ![p] = x]
    <3>1. next \in Directories
      BY <2>2
    <3>2. /\ directories' \in [Directories -> Processes \cup {Nobody}]
          /\ Holds(p)' = Holds(p) \cup {next}
          /\ \A q \in Processes : q # p => Holds(q)' = Holds(q)
      BY <1>1, <2>9, <3>1, Numbers DEF Holds
    <3>3. ProcessInv(p, x, Holds(p)')
      <4> DEFINE held == Holds(p)'
      <4>1. /\ b = "owning" => Storage(p) \subseteq held
            /\ b = "registered" => Storage(p) \ held # {}
        BY <2>4, <2>5, <3>2
      <4> HIDE DEF held
      <4>2. ProcessInv(p, x, held)
        BY <2>3, <2>6, <2>7, <4>1 DEF ProcessInv, Unowned, Owning, Closing, OfBrokers, InService
      <4>. QED BY <4>2 DEF held
    <3>4. process[p].step \in Registered /\ x.step \notin {"published", "serving"}
      BY <2>1, <2>3, <2>6 DEF Registered
    <3>. QED BY <1>1, <2>1, <2>8, <2>9, <3>2, <3>3, <3>4, ProcessMoves DEF ProcessesMoved
  <2>10. CASE directories' = Released(p) /\ process' = [process EXCEPT ![p] = y]
    <3>1. ProcessInv(p, y, Holds(p)')
      BY <2>6, <2>7, <2>10, ReleasesLocks
         DEF ProcessInv, Unowned, Owning, Closing, OfBrokers, InService
    <3>2. process[p].step \in Registered /\ y.step \notin {"published", "serving"}
      BY <2>1, <2>6 DEF Registered
    <3>. QED BY <1>1, <2>1, <2>8, <2>10, <3>1, <3>2, ReleasesLocks, ProcessMoves
             DEF ProcessesMoved
  <2>. QED BY <2>1, <2>9, <2>10
<1>4. CASE RecoverWork(p)
  <2>1. PICK work \in Works, b \in {"recovered", "unregistering"} :
            /\ process' = [process EXCEPT ![p] = [process[p] EXCEPT !.step = b, !.work = work]]
            /\ \/ b = "recovered" /\ directories' = directories
               \/ b = "unregistering" /\ directories' = Released(p)
                  /\ work \in {"none", "abandoned"}
    BY <1>4 DEF RecoverWork, Works
  <2> DEFINE x == [process[p] EXCEPT !.step = b, !.work = work]
  <2>2. process[p].step = "owning" /\ UNCHANGED <<discovery, announced>>
    BY <1>4 DEF RecoverWork, ProcessAt
  <2>3. /\ x \in ProcessRecord /\ x.step = b /\ x.work = work
        /\ x.admitting = process[p].admitting /\ x.kept = process[p].kept
    BY <1>1, <2>1 DEF ProcessRecord, Steps
  <2>4. process' = [process EXCEPT ![p] = x]
    BY <2>1
  <2> HIDE DEF x
  <2>5. ~ process[p].admitting /\ ~ process[p].kept /\ Storage(p) \subseteq Holds(p)
    BY <1>1, <2>2 DEF ProcessInv, Owning, Closing
  <2>6. /\ directories' \in [Directories -> Processes \cup {Nobody}]
        /\ \A q \in Processes : q # p => Holds(q)' = Holds(q)
        /\ b = "recovered" => Storage(p) \subseteq Holds(p)'
        /\ b = "unregistering" => Holds(p)' = {} /\ work \in {"none", "abandoned"}
    BY <1>1, <2>1, <2>5, KeepsLocks, ReleasesLocks
  <2>7. ProcessInv(p, x, Holds(p)')
    BY <2>1, <2>3, <2>5, <2>6 DEF ProcessInv, Unowned, Owning, Closing, OfBrokers, InService
  <2>8. Follows(process[p].step, x.step)
    BY <2>1, <2>2, <2>3 DEF Follows, InService, Over
  <2>9. process[p].step \in Registered /\ x.step \notin {"published", "serving"}
    BY <2>1, <2>2, <2>3 DEF Registered
  <2>. QED BY <1>1, <2>2, <2>4, <2>6, <2>7, <2>8, <2>9, ProcessMoves DEF ProcessesMoved
<1>. QED BY <1>2, <1>3, <1>4

\* What a process does between its start and its close.
LEMMA Staying ==
    ASSUME BrokerInv, NEW p \in Processes, NEW x \in ProcessRecord,
           process' = [process EXCEPT ![p] = x], UNCHANGED <<directories, discovery, announced>>,
           x.step = process[p].step, x.kept = process[p].kept,
           x.work \in {"active", "parent"} =>
               process[p].work \in {"active", "parent"} \/ x.step \in Owning,
           x.admitting => process[p].admitting \/ x.step \in {"listening", "published", "serving"}
    PROVE  ProcessesMoved
<1>1. /\ ProcessInv(p, process[p], Holds(p))
      /\ directories \in [Directories -> Processes \cup {Nobody}]
      /\ (p \in Brokers /\ process[p].step \in Registered => discovery = p)
      /\ (p \in Brokers /\ process[p].step \in {"published", "serving"} => announced = p)
  BY ProcessFacts
<1>2. ProcessInv(p, x, Holds(p)')
  BY <1>1, KeepsLocks DEF ProcessInv
<1>3. Follows(process[p].step, x.step)
  BY DEF Follows
<1>4. x.step \in {"published", "serving"} => announced' = p
  BY <1>1 DEF ProcessInv, OfBrokers, InService
<1>. QED BY <1>1, <1>2, <1>3, <1>4, KeepsLocks, ProcessMoves DEF ProcessesMoved

LEMMA WorkSteps ==
    ASSUME BrokerInv, NEW p \in Processes,
           BeginAdmission(p) \/ FinishAdmission(p) \/ ParentStartsJob(p) \/ WorkSettles(p)
    PROVE  ProcessesMoved
<1>1. process[p] \in ProcessRecord /\ ProcessInv(p, process[p], Holds(p))
  BY ProcessFacts
<1>2. UNCHANGED <<directories, discovery, announced>>
  BY DEF BeginAdmission, FinishAdmission, ParentStartsJob, WorkSettles
<1>3. PICK x \in ProcessRecord :
          /\ process' = [process EXCEPT ![p] = x]
          /\ x.step = process[p].step /\ x.kept = process[p].kept
          /\ x.work \in {"active", "parent"} =>
                process[p].work \in {"active", "parent"} \/ process[p].admitting
          /\ x.admitting =>
                process[p].admitting \/ x.step \in {"listening", "published", "serving"}
  <2>1. CASE BeginAdmission(p)
    <3> DEFINE x == [process[p] EXCEPT !.admitting = TRUE]
    <3>1. process' = [process EXCEPT ![p] = x]
      BY <2>1 DEF BeginAdmission
    <3>2. /\ x \in ProcessRecord /\ x.step = process[p].step /\ x.kept = process[p].kept
          /\ x.work = process[p].work
      BY <1>1 DEF ProcessRecord
    <3>3. process[p].step \in {"listening", "published", "serving"}
      BY <2>1 DEF BeginAdmission
    <3> HIDE DEF x
    <3>. QED BY <3>1, <3>2, <3>3
  <2>2. CASE FinishAdmission(p)
    <3> DEFINE x == [process[p] EXCEPT !.admitting = FALSE, !.admitted = TRUE, !.work = "active"]
               y == [process[p] EXCEPT !.admitting = FALSE]
    <3>1. /\ process' = [process EXCEPT ![p] = x] \/ process' = [process EXCEPT ![p] = y]
          /\ process[p].admitting
      BY <2>2 DEF FinishAdmission
    <3>2. /\ x \in ProcessRecord /\ x.step = process[p].step /\ x.kept = process[p].kept
          /\ ~ x.admitting
          /\ y \in ProcessRecord /\ y.step = process[p].step /\ y.kept = process[p].kept
          /\ y.work = process[p].work /\ ~ y.admitting
      BY <1>1 DEF ProcessRecord, Works
    <3> HIDE DEF x, y
    <3>. QED BY <3>1, <3>2
  <2>3. CASE ParentStartsJob(p)
    <3> DEFINE x == [process[p] EXCEPT !.work = "active"]
    <3>1. process' = [process EXCEPT ![p] = x] /\ process[p].work = "parent"
      BY <2>3 DEF ParentStartsJob
    <3>2. /\ x \in ProcessRecord /\ x.step = process[p].step /\ x.kept = process[p].kept
          /\ x.admitting = process[p].admitting
      BY <1>1 DEF ProcessRecord, Works
    <3> HIDE DEF x
    <3>. QED BY <3>1, <3>2
  <2>4. CASE WorkSettles(p)
    <3> DEFINE x == [process[p] EXCEPT !.work = "none"]
    <3>1. process' = [process EXCEPT ![p] = x]
      BY <2>4 DEF WorkSettles
    <3>2. /\ x \in ProcessRecord /\ x.step = process[p].step /\ x.kept = process[p].kept
          /\ x.admitting = process[p].admitting /\ x.work = "none"
      BY <1>1 DEF ProcessRecord, Works
    <3> HIDE DEF x
    <3>. QED BY <3>1, <3>2
  <2>. QED BY <2>1, <2>2, <2>3, <2>4
<1>4. process[p].admitting => process[p].step \in Owning
  BY <1>1 DEF ProcessInv, Owning
<1>. QED BY <1>2, <1>3, <1>4, Staying

LEMMA CloseMoves ==
    ASSUME BrokerInv, NEW p \in Processes, process[p].step \in {"recovered", "closed"},
           CloseRuntime(p), UNCHANGED <<discovery, announced>>
    PROVE  ProcessesMoved
<1>1. /\ process[p] \in ProcessRecord /\ ProcessInv(p, process[p], Holds(p))
      /\ directories \in [Directories -> Processes \cup {Nobody}]
      /\ (p \in Brokers /\ process[p].step \in Registered => discovery = p)
  BY ProcessFacts
<1> DEFINE refused == process[p].work = "active"
           work == IF process[p].work = "parent" THEN "abandoned" ELSE process[p].work
           x == [process[p] EXCEPT !.step = "unregistering", !.kept = refused, !.work = work]
<1>2. /\ process' = [process EXCEPT ![p] = x]
      /\ directories' = IF refused THEN directories ELSE Released(p)
  BY DEF CloseRuntime
<1>3. refused \in BOOLEAN /\ work \in Works /\ work # "parent" /\ (work = "active" <=> refused)
  BY <1>1 DEF ProcessRecord, Works
<1> HIDE DEF refused, work
<1>4. /\ x \in ProcessRecord /\ x.step = "unregistering" /\ x.work = work /\ x.kept = refused
      /\ x.admitting = process[p].admitting
  BY <1>1, <1>3 DEF ProcessRecord, Steps
<1> HIDE DEF x
<1>5. ~ process[p].admitting /\ Storage(p) \subseteq Holds(p)
  BY <1>1 DEF ProcessInv, Owning
<1>6. /\ directories' \in [Directories -> Processes \cup {Nobody}]
      /\ \A q \in Processes : q # p => Holds(q)' = Holds(q)
      /\ refused => Storage(p) \subseteq Holds(p)'
      /\ ~ refused => Holds(p)' = {}
  <2>1. CASE refused
    <3>1. directories' = directories
      BY <1>2, <2>1
    <3>. QED BY <1>1, <1>5, <2>1, <3>1, KeepsLocks
  <2>2. CASE ~ refused
    BY <1>2, <2>2, ReleasesLocks
  <2>. QED BY <2>1, <2>2
<1>7. ProcessInv(p, x, Holds(p)')
  BY <1>3, <1>4, <1>5, <1>6 DEF ProcessInv, Unowned, Owning, Closing, OfBrokers, InService
<1>8. Follows(process[p].step, x.step)
  BY <1>4 DEF Follows, InService, Over
<1>9. process[p].step \in Registered /\ x.step \notin {"published", "serving"}
  BY <1>4 DEF Registered
<1>. QED BY <1>1, <1>2, <1>6, <1>7, <1>8, <1>9, ProcessMoves DEF ProcessesMoved

LEMMA ServiceSteps ==
    ASSUME BrokerInv, NEW p \in Processes,
           \/ Listen(p) \/ Publish(p) \/ InstallHandlers(p) \/ DrainServer(p) \/ ShutDown(p)
           \/ CloseResources(p) \/ Unregister(p) \/ Depart(p) \/ KillProcess(p)
    PROVE  ProcessesMoved
<1>1. /\ process[p] \in ProcessRecord /\ ProcessInv(p, process[p], Holds(p))
      /\ directories \in [Directories -> Processes \cup {Nobody}]
      /\ (p \in Brokers /\ process[p].step \in Registered => discovery = p)
  BY ProcessFacts
<1>2. ASSUME NEW b \in Steps, GoesTo(p, b), UNCHANGED <<directories, discovery>>,
             process[p].step \in Owning, b \in Owning \ {"running"},
             Follows(process[p].step, b), b \in OfBrokers => p \in Brokers,
             process[p].admitting => b \in {"listening", "published", "serving", "draining"},
             \/ announced' = announced /\ b \notin {"published", "serving"}
             \/ announced' = p /\ p \in Brokers /\ process[p].step = "listening"
                /\ b = "published"
             \/ announced' = announced /\ p \in Brokers
                /\ process[p].step \in {"published", "serving"}
      PROVE  ProcessesMoved
  <2> DEFINE x == [process[p] EXCEPT !.step = b]
  <2>1. process' = [process EXCEPT ![p] = x]
    BY <1>2 DEF GoesTo
  <2>2. /\ x \in ProcessRecord /\ x.step = b /\ x.admitting = process[p].admitting
        /\ x.kept = process[p].kept
    BY <1>1, StepFields
  <2> HIDE DEF x
  <2>3. ~ x.kept
    BY <1>1, <1>2, <2>2 DEF ProcessInv, Owning, Closing
  <2>. QED BY <1>2, <2>1, <2>2, <2>3, Onward
<1> USE DEF ProcessAt
<1>3. CASE Listen(p)
  <2>1. process[p].step = "recovered" /\ p \in Brokers /\ UNCHANGED <<discovery, announced>>
    BY <1>3 DEF Listen
  <2>2. CASE GoesTo(p, "listening") /\ UNCHANGED directories
    <3>1. Follows("recovered", "listening") /\ ~ process[p].admitting
      BY <1>1, <2>1 DEF Follows, InService, Over, ProcessInv
    <3>. QED BY <1>2, <2>1, <2>2, <3>1 DEF Steps, Owning
  <2>3. CASE CloseRuntime(p)
    BY <2>1, <2>3, CloseMoves
  <2>. QED BY <1>3, <2>2, <2>3 DEF Listen
<1>4. CASE Publish(p)
  <2>1. /\ process[p].step = "listening" /\ UNCHANGED <<directories, discovery>>
        /\ \/ GoesTo(p, "published") /\ announced' = p
           \/ GoesTo(p, "draining") /\ announced' = announced
    BY <1>4 DEF Publish
  <2>2. Follows("listening", "published") /\ Follows("listening", "draining") /\ p \in Brokers
    BY <1>1, <2>1 DEF Follows, InService, Over, ProcessInv, OfBrokers
  <2>3. {"listening", "published", "draining"} \subseteq Owning \ {"running"}
    BY DEF Owning
  <2>4. {"published", "draining"} \subseteq Steps
    BY DEF Steps
  <2>5. CASE GoesTo(p, "published") /\ announced' = p
    BY <1>2, <2>1, <2>2, <2>3, <2>4, <2>5
  <2>6. CASE GoesTo(p, "draining") /\ announced' = announced
    BY <1>2, <2>1, <2>2, <2>3, <2>4, <2>6
  <2>. QED BY <2>1, <2>5, <2>6
<1>5. CASE InstallHandlers(p)
  <2>1. /\ process[p].step = "published" /\ UNCHANGED <<directories, discovery, announced>>
        /\ GoesTo(p, "serving")
    BY <1>5 DEF InstallHandlers
  <2>2. Follows("published", "serving") /\ p \in Brokers
    BY <1>1, <2>1 DEF Follows, InService, Over, ProcessInv, OfBrokers
  <2>. QED BY <1>2, <2>1, <2>2 DEF Owning, Steps
<1>6. CASE DrainServer(p)
  <2>1. /\ process[p].step = "draining" /\ UNCHANGED <<directories, discovery, announced>>
        /\ ~ process[p].admitting /\ (GoesTo(p, "stopping") \/ GoesTo(p, "closed"))
    BY <1>6 DEF DrainServer
  <2>2. Follows("draining", "stopping") /\ Follows("draining", "closed") /\ p \in Brokers
    BY <1>1, <2>1 DEF Follows, InService, Over, ProcessInv, OfBrokers
  <2>3. {"draining", "stopping", "closed"} \subseteq Owning \ {"running"}
    BY DEF Owning
  <2>4. {"stopping", "closed"} \subseteq Steps
    BY DEF Steps
  <2>. QED BY <1>2, <2>1, <2>2, <2>3, <2>4
<1>7. CASE ShutDown(p)
  <2>1. /\ process[p].step = "stopping" /\ UNCHANGED <<directories, discovery, announced>>
        /\ GoesTo(p, "closed")
    BY <1>7 DEF ShutDown
  <2>2. Follows("stopping", "closed") /\ p \in Brokers /\ ~ process[p].admitting
    BY <1>1, <2>1 DEF Follows, InService, Over, ProcessInv, OfBrokers
  <2>. QED BY <1>2, <2>1, <2>2 DEF Owning, Steps
<1>8. CASE CloseResources(p)
  BY <1>8, CloseMoves DEF CloseResources
<1>9. CASE Unregister(p)
  <2> DEFINE x == [process[p] EXCEPT !.step = "leaving"]
  <2>1. /\ process[p].step = "unregistering" /\ directories' = directories
        /\ announced' = (IF announced = p THEN Nobody ELSE announced)
        /\ discovery' = (IF discovery = p THEN Nobody ELSE discovery)
        /\ process' = [process EXCEPT ![p] = x]
    BY <1>9 DEF Unregister, GoesTo
  <2>2. /\ x \in ProcessRecord /\ x.step = "leaving" /\ x.work = process[p].work
        /\ x.admitting = process[p].admitting /\ x.kept = process[p].kept
    BY <1>1, StepFields DEF Steps
  <2> HIDE DEF x
  <2>3. ProcessInv(p, x, Holds(p)')
    BY <1>1, <2>1, <2>2, KeepsLocks DEF ProcessInv, Unowned, Owning, Closing, OfBrokers, InService
  <2>4. Follows(process[p].step, x.step)
    BY <2>1, <2>2 DEF Follows, InService, Over
  <2>5. x.step \notin Registered /\ x.step \notin {"published", "serving"} /\ x.step \in Over
    BY <2>2 DEF Registered, Over
  <2>6. directories' \in [Directories -> Processes \cup {Nobody}]
    BY <1>1, <2>1
  <2>7. (announced' = announced) \/ (announced = p /\ announced' = Nobody)
    BY <2>1
  <2>8. (discovery' = discovery) \/ (discovery = p /\ discovery' = Nobody)
    BY <2>1
  <2>. QED BY <2>1, <2>3, <2>4, <2>5, <2>6, <2>7, <2>8, KeepsLocks, ProcessMoves
           DEF ProcessesMoved
<1>10. CASE Depart(p)
  BY <1>10, ExitMoves DEF Depart
<1>11. CASE KillProcess(p)
  BY <1>11, ExitMoves DEF KillProcess
<1>. QED BY <1>3, <1>4, <1>5, <1>6, <1>7, <1>8, <1>9, <1>10, <1>11

LEMMA LocalSteps ==
    ASSUME BrokerInv, RunJob \/ FinishRun
    PROVE  ProcessesMoved
<1>1. Local \in Processes /\ Local \notin Brokers
  BY Numbers
<1>2. process[Local] \in ProcessRecord /\ ProcessInv(Local, process[Local], Holds(Local))
  BY <1>1, ProcessFacts
<1>3. CASE RunJob
  <2> DEFINE x == [process[Local] EXCEPT !.step = "running", !.work = "active"]
  <2>1. /\ process' = [process EXCEPT ![Local] = x] /\ process[Local].step = "recovered"
        /\ UNCHANGED <<directories, discovery, announced>>
    BY <1>3 DEF RunJob, ProcessAt
  <2>2. /\ x \in ProcessRecord /\ x.step = "running" /\ x.admitting = process[Local].admitting
        /\ x.kept = process[Local].kept
    BY <1>2 DEF ProcessRecord, Steps, Works
  <2> HIDE DEF x
  <2>3. ~ x.kept /\ ~ x.admitting
    BY <1>2, <2>1, <2>2 DEF ProcessInv, Closing
  <2>4. /\ process[Local].step \in Owning /\ x.step \in Owning /\ x.step \notin OfBrokers
        /\ Follows(process[Local].step, x.step)
    BY <2>1, <2>2 DEF Owning, Follows, InService, Over, OfBrokers
  <2>. QED BY <1>1, <2>1, <2>2, <2>3, <2>4, Onward
<1>4. CASE FinishRun
  <2> DEFINE x == [process[Local] EXCEPT !.step = "closed"]
  <2>1. /\ process' = [process EXCEPT ![Local] = x] /\ process[Local].step = "running"
        /\ UNCHANGED <<directories, discovery, announced>>
    BY <1>4 DEF FinishRun, ProcessAt, GoesTo
  <2>2. /\ x \in ProcessRecord /\ x.step = "closed" /\ x.admitting = process[Local].admitting
        /\ x.kept = process[Local].kept
    BY <1>2, StepFields DEF Steps
  <2> HIDE DEF x
  <2>3. ~ x.kept /\ ~ x.admitting
    BY <1>2, <2>1, <2>2 DEF ProcessInv, Closing
  <2>4. /\ process[Local].step \in Owning /\ x.step \in Owning /\ x.step \notin OfBrokers
        /\ Follows(process[Local].step, x.step)
    BY <2>1, <2>2 DEF Owning, Follows, InService, Over, OfBrokers
  <2>. QED BY <1>1, <2>1, <2>2, <2>3, <2>4, Onward
<1>. QED BY <1>3, <1>4

-----------------------------------------------------------------------------
(* The commands.                                                           *)

LEMMA ShellFacts ==
    ASSUME BrokerInv, NEW s \in Shells
    PROVE  /\ shell[s] \in ShellRecord /\ ShellInv(shell[s])
           /\ (Editing(s) => discovery = Editor)
BY DEF BrokerInv, ShellsInv, ShellInv, EditorInv

LEMMA Proceeding ==
    ASSUME NEW y \in ShellRecord, NEW b \in ShellSteps
    PROVE  LET x == [y EXCEPT !.step = b]
           IN  /\ x \in ShellRecord /\ x.step = b /\ x.kind = y.kind /\ x.phase = y.phase
               /\ x.seen = y.seen /\ x.target = y.target /\ x.child = y.child
               /\ x.result = y.result
BY DEF ShellRecord

LEMMA Returning ==
    ASSUME NEW y \in ShellRecord, NEW r \in Results
    PROVE  LET x == [y EXCEPT !.step = "done", !.result = r]
           IN  /\ x \in ShellRecord /\ x.step = "done" /\ x.kind = y.kind /\ x.phase = y.phase
               /\ x.seen = y.seen /\ x.target = y.target /\ x.child = y.child /\ x.result = r
BY DEF ShellRecord, ShellSteps

\* Command s goes on at x, next to what became of the processes and the record.
LEMMA ShellMoves ==
    ASSUME BrokerInv, ProcessesInv', RecordInv', SeenStands,
           NEW s \in Shells, NEW x, shell' = [shell EXCEPT ![s] = x], ShellInv(x)',
           \A t \in Shells : t # s /\ Editing(t) => discovery' = Editor,
           x.step \in {"check", "unlink"} =>
               discovery' = Editor /\ \A t \in Shells : Editing(t) => t = s
    PROVE  BrokerInv'
<1>1. /\ Shells' = Shells /\ shell' = [t \in Shells |-> shell'[t]] /\ shell'[s] = x
      /\ \A t \in Shells : t # s => shell'[t] = shell[t]
  BY DEF BrokerInv, ShellsInv, Shells
<1>2. ASSUME NEW t \in Shells PROVE ShellInv(shell[t])'
  <2>1. CASE t = s
    BY <1>1, <2>1
  <2>2. CASE t # s
    <3>1. ShellInv(shell[t]) /\ shell'[t] = shell[t]
      BY <1>1, <2>2 DEF BrokerInv, ShellsInv
    <3>. QED BY <3>1, ShellKept
  <2>. QED BY <2>1, <2>2
<1>3. /\ Editing(s)' <=> x.step \in {"check", "unlink"}
      /\ \A t \in Shells : t # s => (Editing(t)' <=> Editing(t))
  BY <1>1 DEF Editing
<1>4. EditorInv'
  BY <1>1, <1>3 DEF BrokerInv, EditorInv
<1>. QED BY <1>1, <1>2, <1>4 DEF BrokerInv, ShellsInv

LEMMA CommandMoves ==
    ASSUME BrokerInv, ProcessesMoved, NEW s \in Shells, NEW x,
           shell' = [shell EXCEPT ![s] = x], ShellInv(x)', x.step \notin {"check", "unlink"}
    PROVE  BrokerInv'
BY ShellMoves DEF ProcessesMoved

LEMMA CommandReads ==
    ASSUME BrokerInv, UNCHANGED <<process, directories, discovery, announced>>,
           NEW s \in Shells, NEW x, shell' = [shell EXCEPT ![s] = x], ShellInv(x),
           x.step \notin {"check", "unlink"}
    PROVE  BrokerInv'
<1>1. ProcessesMoved
  BY NothingMoves
<1>2. ShellInv(x)'
  BY <1>1, ShellKept DEF ProcessesMoved
<1>. QED BY <1>1, <1>2, CommandMoves

LEMMA ReadSteps ==
    ASSUME BrokerInv, NEW s \in Shells,
           ReadRecord(s) \/ ProbeUp(s) \/ ProbeDown(s) \/ Watch(s) \/ PollStart(s) \/ Deadline(s)
    PROVE  BrokerInv'
<1>1. shell[s] \in ShellRecord /\ ShellInv(shell[s])
  BY ShellFacts
<1>2. UNCHANGED <<process, directories, discovery, announced>>
  BY DEF ReadRecord, ProbeUp, ProbeDown, Watch, PollStart, Deadline
<1>3. ASSUME NEW b \in {"lock", "spawn", "read"}, Proceeds(s, b),
             b = "lock" /\ shell[s].phase = "watch" => shell[s].seen = shell[s].target,
             b # "read" => shell[s].child = Nobody, shell[s].step = "probe"
      PROVE  BrokerInv'
  <2> DEFINE x == [shell[s] EXCEPT !.step = b]
  <2>1. shell' = [shell EXCEPT ![s] = x]
    BY <1>3 DEF Proceeds
  <2>2. b \in ShellSteps
    BY DEF ShellSteps
  <2>3. /\ x \in ShellRecord /\ x.step = b /\ x.phase = shell[s].phase /\ x.seen = shell[s].seen
        /\ x.target = shell[s].target /\ x.child = shell[s].child /\ x.result = shell[s].result
    BY <1>1, <2>2, Proceeding
  <2> HIDE DEF x
  <2>4. ShellInv(x) /\ x.step \notin {"check", "unlink"}
    BY <1>1, <1>3, <2>3 DEF ShellInv
  <2>. QED BY <1>2, <2>1, <2>4, CommandReads
<1>4. ASSUME NEW r \in Results, Returns(s, r), shell[s].step = "probe",
             r = "stopped" /\ shell[s].target # Nobody => Gone(shell[s].target),
             shell[s].child # Nobody => r = "started" \/ Ended(shell[s].child)
      PROVE  BrokerInv'
  <2> DEFINE x == [shell[s] EXCEPT !.step = "done", !.result = r]
  <2>1. shell' = [shell EXCEPT ![s] = x]
    BY <1>4 DEF Returns
  <2>2. /\ x \in ShellRecord /\ x.step = "done" /\ x.phase = shell[s].phase
        /\ x.seen = shell[s].seen /\ x.target = shell[s].target /\ x.child = shell[s].child
        /\ x.result = r
    BY <1>1, Returning
  <2> HIDE DEF x
  <2>3. ShellInv(x) /\ x.step \notin {"check", "unlink"}
    BY <1>1, <1>4, <2>2 DEF ShellInv
  <2>. QED BY <1>2, <2>1, <2>3, CommandReads
<1>5. {"started", "already-running", "stopped", "already-stopped", "error"} \subseteq Results
  BY DEF Results
<1> USE DEF ShellAt
<1>6. CASE ReadRecord(s)
  <2> DEFINE x == [shell[s] EXCEPT !.step = "probe", !.seen = announced]
  <2>1. shell' = [shell EXCEPT ![s] = x] /\ shell[s].step \in {"idle", "read"}
    BY <1>6 DEF ReadRecord
  <2>2. announced \in Named /\ (announced # Nobody => Recorded(announced))
    BY DEF BrokerInv, RecordInv, Recorded, Named
  <2>3. /\ x \in ShellRecord /\ x.step = "probe" /\ x.phase = shell[s].phase
        /\ x.seen = announced /\ x.target = shell[s].target /\ x.child = shell[s].child
        /\ x.result = shell[s].result
    BY <1>1, <2>2 DEF ShellRecord, ShellSteps
  <2> HIDE DEF x
  <2>4. ASSUME shell[s].target # Nobody, announced # shell[s].target
        PROVE  Gone(shell[s].target)
    BY <1>1, <2>4 DEF ShellInv, Recorded, Gone
  <2>5. ShellInv(x) /\ x.step \notin {"check", "unlink"}
    BY <1>1, <2>1, <2>2, <2>3, <2>4 DEF ShellInv
  <2>. QED BY <1>2, <2>1, <2>5, CommandReads
<1>7. CASE ProbeUp(s)
  <2>1. /\ shell[s].step = "probe" /\ shell[s].phase \in {"first", "again"}
        /\ \/ Proceeds(s, "spawn") \/ Proceeds(s, "lock")
           \/ Returns(s, "already-running") \/ Returns(s, "error")
    BY <1>7 DEF ProbeUp
  <2>2. shell[s].child = Nobody
    BY <1>1, <2>1 DEF ShellInv
  <2>. QED BY <1>3, <1>4, <1>5, <2>1, <2>2
<1>8. CASE ProbeDown(s)
  <2> DEFINE x == [shell[s] EXCEPT !.step = "signal", !.target = shell[s].seen]
  <2>1. /\ shell[s].step = "probe" /\ shell[s].phase = "first"
        /\ \/ Proceeds(s, "lock") \/ Returns(s, "already-stopped")
           \/ shell' = [shell EXCEPT ![s] = x] /\ shell[s].seen # Nobody
    BY <1>8 DEF ProbeDown, Answers
  <2>2. shell[s].child = Nobody
    BY <1>1, <2>1 DEF ShellInv
  <2>3. /\ x \in ShellRecord /\ x.step = "signal" /\ x.phase = shell[s].phase
        /\ x.seen = shell[s].seen /\ x.target = shell[s].seen /\ x.child = shell[s].child
        /\ x.result = shell[s].result
    BY <1>1 DEF ShellRecord, ShellSteps
  <2> HIDE DEF x
  <2>4. CASE shell' = [shell EXCEPT ![s] = x] /\ shell[s].seen # Nobody
    <3>1. ShellInv(x) /\ x.step \notin {"check", "unlink"}
      BY <1>1, <2>1, <2>2, <2>3, <2>4 DEF ShellInv
    <3>. QED BY <1>2, <2>4, <3>1, CommandReads
  <2>. QED BY <1>3, <1>4, <1>5, <2>1, <2>2, <2>4
<1>9. CASE Watch(s)
  <2>1. /\ shell[s].step = "probe" /\ shell[s].phase = "watch"
        /\ \/ Returns(s, "stopped") /\ (shell[s].seen = Nobody \/ shell[s].seen # shell[s].target)
           \/ Proceeds(s, "lock") /\ shell[s].seen = shell[s].target
           \/ Proceeds(s, "read")
    BY <1>9 DEF Watch, Answers
  <2>2. shell[s].child = Nobody
    BY <1>1, <2>1 DEF ShellInv
  <2>3. shell[s].target # Nobody /\ shell[s].seen # shell[s].target => Gone(shell[s].target)
    BY <1>1, <2>1 DEF ShellInv
  <2>. QED BY <1>3, <1>4, <1>5, <2>1, <2>2, <2>3
<1>10. CASE PollStart(s)
  <2> DEFINE x == [shell[s] EXCEPT !.step = "terminate", !.result = "already-running"]
  <2>1. /\ shell[s].step = "probe" /\ shell[s].phase = "poll"
        /\ \/ Returns(s, "started") \/ Proceeds(s, "read")
           \/ Returns(s, "error") /\ process[shell[s].child].step = "exited"
           \/ shell' = [shell EXCEPT ![s] = x]
    BY <1>10 DEF PollStart, FoundOther, ChildExited, ProcessAt
  <2>2. shell[s].child \in Brokers
    BY <1>1, <2>1 DEF ShellInv, Spawned
  <2>3. /\ x \in ShellRecord /\ x.step = "terminate" /\ x.phase = shell[s].phase
        /\ x.seen = shell[s].seen /\ x.target = shell[s].target /\ x.child = shell[s].child
        /\ x.result = "already-running"
    BY <1>1 DEF ShellRecord, ShellSteps, Results
  <2> HIDE DEF x
  <2>4. CASE shell' = [shell EXCEPT ![s] = x]
    <3>1. ShellInv(x) /\ x.step \notin {"check", "unlink"}
      BY <1>1, <2>1, <2>3 DEF ShellInv
    <3>. QED BY <1>2, <2>4, <3>1, CommandReads
  <2>5. CASE Returns(s, "error") /\ process[shell[s].child].step = "exited"
    BY <1>4, <1>5, <2>1, <2>2, <2>5 DEF Ended
  <2>6. CASE Returns(s, "started")
    BY <1>4, <1>5, <2>1, <2>6
  <2>. QED BY <1>3, <2>1, <2>4, <2>5, <2>6
<1>11. CASE Deadline(s)
  <2> DEFINE x == [shell[s] EXCEPT !.step = "done", !.result = "error"]
             y == [shell[s] EXCEPT !.step = "terminate", !.result = "error"]
  <2>1. /\ shell[s].step = "read"
        /\ \/ shell[s].phase = "watch" /\ shell' = [shell EXCEPT ![s] = x]
           \/ shell[s].phase = "poll" /\ shell' = [shell EXCEPT ![s] = y]
    BY <1>11 DEF Deadline, Returns
  <2>2. /\ x \in ShellRecord /\ x.step = "done" /\ x.phase = shell[s].phase
        /\ x.seen = shell[s].seen /\ x.target = shell[s].target /\ x.child = shell[s].child
        /\ x.result = "error"
        /\ y \in ShellRecord /\ y.step = "terminate" /\ y.phase = shell[s].phase
        /\ y.seen = shell[s].seen /\ y.target = shell[s].target /\ y.child = shell[s].child
        /\ y.result = "error"
    BY <1>1 DEF ShellRecord, ShellSteps, Results
  <2> HIDE DEF x, y
  <2>3. CASE shell[s].phase = "watch" /\ shell' = [shell EXCEPT ![s] = x]
    <3>1. ShellInv(x) /\ x.step \notin {"check", "unlink"}
      BY <1>1, <2>1, <2>2, <2>3 DEF ShellInv
    <3>. QED BY <1>2, <2>3, <3>1, CommandReads
  <2>4. CASE shell[s].phase = "poll" /\ shell' = [shell EXCEPT ![s] = y]
    <3>1. ShellInv(y) /\ y.step \notin {"check", "unlink"}
      BY <1>1, <2>1, <2>2, <2>4 DEF ShellInv
    <3>. QED BY <1>2, <2>4, <3>1, CommandReads
  <2>. QED BY <2>1, <2>3, <2>4
<1>. QED BY <1>6, <1>7, <1>8, <1>9, <1>10, <1>11

LEMMA SignalMoves ==
    ASSUME BrokerInv, NEW p \in Brokers, Signal(p), UNCHANGED announced
    PROVE  ProcessesMoved
<1>1. /\ p \in Processes /\ process[p] \in ProcessRecord
      /\ ProcessInv(p, process[p], Holds(p))
  BY Numbers, ProcessFacts
<1>2. CASE process[p].step = "serving"
  <2> DEFINE x == [process[p] EXCEPT !.step = "draining"]
  <2>1. process' = [process EXCEPT ![p] = x] /\ UNCHANGED <<directories, discovery>>
    BY <1>2 DEF Signal, ProcessAt, GoesTo
  <2>2. /\ x \in ProcessRecord /\ x.step = "draining" /\ x.kept = process[p].kept
    BY <1>1, StepFields DEF Steps
  <2> HIDE DEF x
  <2>3. /\ ~ x.kept /\ process[p].step \in Owning /\ x.step \in Owning
        /\ Follows(process[p].step, x.step)
    BY <1>1, <1>2, <2>2 DEF ProcessInv, Owning, Closing, Follows, InService, Over
  <2>. QED BY <1>1, <2>1, <2>2, <2>3, Onward
<1>3. CASE Exits(p)
  BY <1>1, <1>3, ExitMoves
<1>4. CASE UNCHANGED <<process, directories, discovery>>
  BY <1>4, NothingMoves
<1>. QED BY <1>2, <1>3, <1>4 DEF Signal, ProcessAt

LEMMA ChildSteps ==
    ASSUME BrokerInv, NEW s \in Shells,
           \/ RunLocally(s) \/ SignalBroker(s) \/ SpawnBroker(s) \/ TerminateChild(s)
           \/ AwaitChild(s)
    PROVE  BrokerInv'
<1>1. shell[s] \in ShellRecord /\ ShellInv(shell[s])
  BY ShellFacts
<1>2. ASSUME NEW p \in Processes, NEW b \in {"spawned", "registered"}, GoesTo(p, b),
             process[p].step = "none", b = "spawned" => p \in Brokers,
             b = "registered" => p = Local, UNCHANGED <<directories, discovery, announced>>
      PROVE  ProcessesMoved /\ process'[p].step = b
  <2> DEFINE x == [process[p] EXCEPT !.step = b]
  <2>1. process' = [process EXCEPT ![p] = x]
    BY <1>2 DEF GoesTo
  <2>2. /\ process[p] \in ProcessRecord /\ ProcessInv(p, process[p], Holds(p))
        /\ directories \in [Directories -> Processes \cup {Nobody}] /\ b \in Steps
    BY ProcessFacts DEF Steps
  <2>3. /\ x \in ProcessRecord /\ x.step = b /\ x.work = process[p].work
        /\ x.admitting = process[p].admitting /\ x.kept = process[p].kept
    BY <2>2, StepFields
  <2> HIDE DEF x
  <2>4. /\ Holds(p)' = {} /\ Storage(p) # {} /\ process[p].work \notin {"active", "parent"}
        /\ ~ process[p].admitting /\ ~ process[p].kept
    BY <1>2, <2>2, KeepsLocks DEF ProcessInv, Unowned, Owning, Closing, Storage
  <2>5. ProcessInv(p, x, Holds(p)')
    BY <1>2, <2>3, <2>4 DEF ProcessInv, Unowned, Owning, Closing, OfBrokers, InService
  <2>6. /\ Follows(process[p].step, x.step) /\ x.step \notin {"published", "serving"}
        /\ (p \in Brokers => x.step \notin Registered)
    BY <1>2, <2>3, Numbers DEF Follows, InService, Over, Registered
  <2>7. ProcessesMoved
    BY <1>2, <2>1, <2>2, <2>5, <2>6, KeepsLocks, ProcessMoves DEF ProcessesMoved
  <2>8. process'[p] = x
    BY <2>1 DEF BrokerInv, ProcessesInv
  <2>. QED BY <2>3, <2>7, <2>8
<1> USE DEF ShellAt, ProcessAt
<1>3. CASE RunLocally(s)
  <2>0. PICK x : x = [shell[s] EXCEPT !.step = "done", !.result = "none"]
    OBVIOUS
  <2>1. shell' = [shell EXCEPT ![s] = x] /\ shell[s].step = "idle"
    BY <1>3, <2>0 DEF RunLocally, Returns
  <2>2. ProcessesMoved
    BY <1>2, <1>3, Numbers DEF RunLocally
  <2>3. /\ x \in ShellRecord /\ x.step = "done" /\ x.phase = shell[s].phase
        /\ x.seen = shell[s].seen /\ x.target = shell[s].target /\ x.child = shell[s].child
        /\ x.result = "none"
    BY <1>1, <2>0, Returning, ZenonT(40) DEF Results
  <2>4. ShellInv(x)
    BY <1>1, <2>1, <2>3 DEF ShellInv
  <2>5. ShellInv(x)'
    BY <2>2, <2>4, ShellKept DEF ProcessesMoved
  <2>. QED BY <2>1, <2>2, <2>3, <2>5, CommandMoves
<1>4. CASE SignalBroker(s)
  <2>0. PICK x : x = [shell[s] EXCEPT !.step = "read", !.phase = "watch"]
    OBVIOUS
  <2>1. /\ shell' = [shell EXCEPT ![s] = x] /\ shell[s].step = "signal"
        /\ Signal(shell[s].target) /\ UNCHANGED announced
    BY <1>4, <2>0 DEF SignalBroker
  <2>2. /\ x \in ShellRecord /\ x.step = "read" /\ x.phase = "watch"
        /\ x.seen = shell[s].seen /\ x.target = shell[s].target /\ x.child = shell[s].child
        /\ x.result = shell[s].result
    BY <1>1, <2>0 DEF ShellRecord, ShellSteps, Phases
  <2>3. ShellInv(x)
    BY <1>1, <2>1, <2>2 DEF ShellInv
  <2>4. shell[s].target \in Brokers
    BY <1>1, <2>1 DEF ShellInv, ShellRecord, Named
  <2>5. ProcessesMoved
    BY <2>1, <2>4, SignalMoves
  <2>6. ShellInv(x)'
    BY <2>3, <2>5, ShellKept DEF ProcessesMoved
  <2>. QED BY <2>1, <2>2, <2>5, <2>6, CommandMoves
<1>5. CASE SpawnBroker(s)
  <2>1. PICK p \in Brokers :
            /\ process[p].step = "none" /\ GoesTo(p, "spawned")
            /\ shell' = [shell EXCEPT ![s].step = "read", ![s].phase = "poll", ![s].child = p]
    BY <1>5 DEF SpawnBroker
  <2>0. PICK x : x = [shell[s] EXCEPT !.step = "read", !.phase = "poll", !.child = p]
    OBVIOUS
  <2>2. /\ shell' = [shell EXCEPT ![s] = x] /\ shell[s].step = "spawn"
        /\ UNCHANGED <<directories, discovery, announced>>
    BY <1>5, <2>0, <2>1 DEF SpawnBroker
  <2>3. ProcessesMoved /\ process'[p].step = "spawned"
    BY <1>2, <2>1, <2>2, Numbers
  <2>4. /\ x \in ShellRecord /\ x.step = "read" /\ x.phase = "poll" /\ x.seen = shell[s].seen
        /\ x.target = shell[s].target /\ x.child = p /\ x.result = shell[s].result
    BY <1>1, <2>0, <2>1 DEF ShellRecord, ShellSteps, Phases, Named
  <2>6. (x.seen # Nobody => Recorded(x.seen)') /\ (x.target # Nobody => Recorded(x.target)')
    <3>1. /\ x.seen # Nobody => x.seen \in Brokers /\ Recorded(x.seen)
          /\ x.target # Nobody => x.target \in Brokers /\ Recorded(x.target)
      BY <1>1, <2>4 DEF ShellInv, Recorded
    <3>. QED BY <2>3, <3>1 DEF ProcessesMoved, SeenStands
  <2>7. Spawned(p)'
    BY <2>3 DEF Spawned
  <2>8. ShellInv(x)'
    BY <2>4, <2>6, <2>7 DEF ShellInv
  <2>. QED BY <2>2, <2>3, <2>4, <2>8, CommandMoves
<1>6. CASE TerminateChild(s)
  <2>0. PICK x : x = [shell[s] EXCEPT !.step = "grace"]
    OBVIOUS
  <2>1. /\ shell' = [shell EXCEPT ![s] = x] /\ shell[s].step = "terminate"
        /\ Signal(shell[s].child) /\ UNCHANGED announced
    BY <1>6, <2>0 DEF TerminateChild, Proceeds
  <2>2. /\ x \in ShellRecord /\ x.step = "grace" /\ x.phase = shell[s].phase
        /\ x.seen = shell[s].seen /\ x.target = shell[s].target /\ x.child = shell[s].child
        /\ x.result = shell[s].result
    BY <1>1, <2>0, Proceeding DEF ShellSteps
  <2>3. ShellInv(x)
    BY <1>1, <2>1, <2>2 DEF ShellInv
  <2>4. shell[s].child \in Brokers
    BY <1>1, <2>1 DEF ShellInv, Spawned
  <2>5. ProcessesMoved
    BY <2>1, <2>4, SignalMoves
  <2>6. ShellInv(x)'
    BY <2>3, <2>5, ShellKept DEF ProcessesMoved
  <2>. QED BY <2>1, <2>2, <2>5, <2>6, CommandMoves
<1>7. CASE AwaitChild(s)
  <2>0. PICK r, p, x : /\ r = shell[s].result /\ p = shell[s].child
                       /\ x = [shell[s] EXCEPT !.step = "done", !.result = r]
    OBVIOUS
  <2>1. /\ shell' = [shell EXCEPT ![s] = x] /\ shell[s].step = "grace" /\ UNCHANGED announced
        /\ \/ process[p].step = "exited" /\ UNCHANGED <<process, directories, discovery>>
           \/ Exits(p)
    BY <1>7, <2>0 DEF AwaitChild, Returns, ChildExited
  <2>2. r \in Results
    BY <1>1, <2>0 DEF ShellRecord
  <2>3. /\ x \in ShellRecord /\ x.step = "done" /\ x.phase = shell[s].phase
        /\ x.seen = shell[s].seen /\ x.target = shell[s].target /\ x.child = p
        /\ x.result = r
    BY <1>1, <2>0, <2>2, Returning, ZenonT(40)
  <2>4. p \in Brokers /\ p \in Processes /\ r # "stopped" /\ shell[s].phase = "poll"
    BY <1>1, <2>0, <2>1, Numbers DEF ShellInv, Spawned
  <2>5. ProcessesMoved /\ process'[p].step = "exited"
    <3>1. CASE process[p].step = "exited" /\ UNCHANGED <<process, directories, discovery>>
      BY <2>1, <3>1, NothingMoves
    <3>2. CASE Exits(p)
      <4> DEFINE y == [NewProcess EXCEPT !.step = "exited"]
      <4>1. y.step = "exited" /\ process' = [process EXCEPT ![p] = y]
        BY <3>2, NewProcesses DEF Exits, Steps
      <4> HIDE DEF y
      <4>2. process'[p] = y
        BY <2>4, <4>1 DEF BrokerInv, ProcessesInv
      <4>. QED BY <2>1, <2>4, <3>2, <4>1, <4>2, ExitMoves
    <3>. QED BY <2>1, <3>1, <3>2
  <2>6. Ended(p)' /\ Spawned(p)'
    BY <2>4, <2>5 DEF Ended, Spawned
  <2>7. (x.seen # Nobody => Recorded(x.seen)') /\ (x.target # Nobody => Recorded(x.target)')
    <3>1. /\ x.seen # Nobody => x.seen \in Brokers /\ Recorded(x.seen)
          /\ x.target # Nobody => x.target \in Brokers /\ Recorded(x.target)
      BY <1>1, <2>3 DEF ShellInv, Recorded
    <3>. QED BY <2>5, <3>1 DEF ProcessesMoved, SeenStands
  <2>8. ShellInv(x)'
    BY <2>3, <2>4, <2>6, <2>7 DEF ShellInv
  <2>. QED BY <2>1, <2>3, <2>5, <2>8, CommandMoves
<1>. QED BY <1>3, <1>4, <1>5, <1>6, <1>7

\* The stale record is removed by one command at a time, while no broker has the lock.
LEMMA RecordSteps ==
    ASSUME BrokerInv, NEW s \in Shells, LockRecord(s) \/ CheckRecord(s) \/ UnlinkRecord(s)
    PROVE  BrokerInv'
<1>1. /\ shell[s] \in ShellRecord /\ ShellInv(shell[s])
      /\ (Editing(s) => discovery = Editor) /\ EditorInv /\ RecordInv
  BY ShellFacts DEF BrokerInv
<1>2. UNCHANGED <<process, directories>>
  BY DEF LockRecord, CheckRecord, UnlinkRecord
<1>3. ASSUME discovery \in {Nobody, Editor}
      PROVE  \A p \in Brokers : process[p].step \notin Registered
  BY <1>1, <1>3, Numbers DEF RecordInv
<1>4. InService \subseteq Registered /\ {"published", "serving"} \subseteq Registered
  BY DEF InService, Registered
<1>5. ASSUME discovery \in {Nobody, Editor}, announced' \in {announced, Nobody}
      PROVE  ProcessesInv' /\ RecordInv' /\ SeenStands
  <2>1. ProcessesInv'
    BY <1>2 DEF BrokerInv, ProcessesInv, Holds
  <2>2. RecordInv'
    BY <1>1, <1>2, <1>3, <1>4, <1>5 DEF RecordInv
  <2>3. SeenStands
    BY <1>2, <1>3, <1>4, <1>5 DEF SeenStands, Recorded, Gone, Spawned, Ended
  <2>. QED BY <2>1, <2>2, <2>3
\* No broker is in service while the record is edited.
<1>6. ASSUME discovery \in {Nobody, Editor}, NEW p, Recorded(p) PROVE Gone(p)'
  BY <1>2, <1>3, <1>4, <1>6 DEF Recorded, Gone
<1> USE DEF ShellAt
<1>7. ASSUME NEW b \in {"read", "check", "unlink", "spawn"}, NEW ph \in {shell[s].phase, "again"},
             shell[s].step \in {"lock", "check", "unlink"},
             shell' = [shell EXCEPT ![s] = [shell[s] EXCEPT !.step = b, !.phase = ph]],
             discovery \in {Nobody, Editor}, announced' \in {announced, Nobody},
             b \in {"check", "unlink"} => discovery' = Editor,
             Editing(s) \/ discovery = Nobody
      PROVE  BrokerInv'
  <2>0. PICK x : x = [shell[s] EXCEPT !.step = b, !.phase = ph]
    OBVIOUS
  <2>1. /\ x \in ShellRecord /\ x.step = b /\ x.phase = ph /\ x.seen = shell[s].seen
        /\ x.target = shell[s].target /\ x.child = shell[s].child /\ x.result = shell[s].result
    BY <1>1, <1>7, <2>0 DEF ShellRecord, ShellSteps, Phases
  <2>2. shell' = [shell EXCEPT ![s] = x]
    BY <1>7, <2>0
  <2>3. ShellInv(x)
    BY <1>1, <1>7, <2>1 DEF ShellInv
  <2>4. ProcessesInv' /\ RecordInv' /\ SeenStands
    BY <1>5, <1>7
  <2>5. ShellInv(x)'
    BY <2>3, <2>4, ShellKept
  <2>6. \A t \in Shells : Editing(t) => t = s
    BY <1>1, <1>7, Numbers DEF EditorInv
  <2>. QED BY <1>7, <2>1, <2>2, <2>4, <2>5, <2>6, ShellMoves
<1>8. ASSUME NEW r \in {"stopped", "stale-record-removed", "error"}, Returns(s, r),
             shell[s].step \in {"check", "unlink"}, announced' \in {announced, Nobody},
             \A t \in Brokers : r = "stopped" /\ t = shell[s].target => Gone(t)'
      PROVE  BrokerInv'
  <2>0. PICK x : x = [shell[s] EXCEPT !.step = "done", !.result = r]
    OBVIOUS
  <2>1. shell' = [shell EXCEPT ![s] = x]
    BY <1>8, <2>0 DEF Returns
  <2>2. r \in Results
    BY DEF Results
  <2>3. /\ x \in ShellRecord /\ x.step = "done" /\ x.phase = shell[s].phase
        /\ x.seen = shell[s].seen /\ x.target = shell[s].target /\ x.child = shell[s].child
        /\ x.result = r
    BY <1>1, <2>0, <2>2, Returning
  <2>5. discovery = Editor /\ x.child = Nobody
    BY <1>1, <1>8, <2>3 DEF Editing, ShellInv
  <2>6. ProcessesInv' /\ RecordInv' /\ SeenStands
    BY <1>5, <1>8, <2>5
  <2>8. /\ x.seen # Nobody => Recorded(x.seen)'
        /\ x.target # Nobody => Recorded(x.target)'
        /\ x.phase = "poll" => Spawned(x.child)'
    <3>1. /\ x.seen # Nobody => x.seen \in Brokers /\ Recorded(x.seen)
          /\ x.target # Nobody => x.target \in Brokers /\ Recorded(x.target)
          /\ x.phase = "poll" => x.child \in Brokers /\ Spawned(x.child)
      BY <1>1, <2>3 DEF ShellInv, Recorded, Spawned
    <3>. QED BY <2>6, <3>1 DEF SeenStands
  <2>11. x.target # Nobody /\ r = "stopped" => Gone(x.target)'
    <3>1. x.target # Nobody => x.target \in Brokers
      BY <1>1, <2>3 DEF ShellInv, Recorded
    <3>. QED BY <1>8, <2>3, <3>1
  <2>9. ShellInv(x)'
    BY <1>8, <2>3, <2>5, <2>8, <2>11 DEF ShellInv
  <2>10. \A t \in Shells : Editing(t) => t = s
    BY <1>1, <1>8 DEF EditorInv, Editing
  <2>. QED BY <2>1, <2>3, <2>6, <2>9, <2>10, ShellMoves
<1>9. Editing(s) <=> shell[s].step \in {"check", "unlink"}
  BY DEF Editing
<1>11. CASE LockRecord(s)
  <2>1. shell[s].step = "lock" /\ announced' = announced
    BY <1>11 DEF LockRecord
  <2>2. CASE LockFree(s)
    <3>1. /\ discovery = Nobody /\ discovery' = Editor
          /\ shell' = [shell EXCEPT ![s].step = "check"]
      BY <1>11, <2>2 DEF LockRecord, LockFree, Editor, Proceeds
    <3>2. shell' = [shell EXCEPT ![s] = [shell[s] EXCEPT !.step = "check",
                                                         !.phase = shell[s].phase]]
      BY <1>1, <3>1 DEF ShellRecord
    <3>. QED BY <1>7, <2>1, <3>1, <3>2
  <2>3. CASE ~ LockFree(s)
    <3>1. UNCHANGED <<process, directories, discovery, announced>>
      BY <1>11, <2>3 DEF LockRecord
    <3>2. PICK x : x \in { [shell[s] EXCEPT !.step = "read"],
                           [shell[s] EXCEPT !.step = "done", !.result = "error"] }
                   /\ shell' = [shell EXCEPT ![s] = x]
      BY <1>11, <2>3 DEF LockRecord, Proceeds, Returns
    <3>3. /\ x \in ShellRecord /\ x.step \in {"read", "done"} /\ x.phase = shell[s].phase
          /\ x.seen = shell[s].seen /\ x.target = shell[s].target /\ x.child = shell[s].child
          /\ x.step = "done" => x.result = "error"
      BY <1>1, <3>2 DEF ShellRecord, ShellSteps, Results
    <3>4. ShellInv(x)
      BY <1>1, <2>1, <3>3 DEF ShellInv
    <3>. QED BY <3>1, <3>2, <3>3, <3>4, CommandReads
  <2>. QED BY <2>2, <2>3
<1>12. CASE CheckRecord(s)
  <2>1. shell[s].step = "check" /\ announced' = announced /\ discovery = Editor /\ Editing(s)
    BY <1>1, <1>9, <1>12 DEF CheckRecord
  <2>2. CASE announced = shell[s].seen
    <3>1. discovery' = Editor /\ shell' = [shell EXCEPT ![s].step = "unlink"]
      BY <1>12, <2>1, <2>2 DEF CheckRecord, Proceeds
    <3>2. shell' = [shell EXCEPT ![s] = [shell[s] EXCEPT !.step = "unlink",
                                                         !.phase = shell[s].phase]]
      BY <1>1, <3>1 DEF ShellRecord
    <3>. QED BY <1>7, <2>1, <3>1, <3>2
  <2>3. CASE announced # shell[s].seen
    <3>1. \/ shell[s].phase = "watch" /\ Returns(s, "stopped")
          \/ shell' = [shell EXCEPT ![s] = [shell[s] EXCEPT !.step = "read", !.phase = "again"]]
          \/ Returns(s, "error")
      BY <1>12, <2>3 DEF CheckRecord
    <3>2. ASSUME shell[s].phase = "watch", NEW t \in Brokers, t = shell[s].target PROVE Gone(t)'
      <4>1. Recorded(t)
        BY <1>1, <3>2, Numbers DEF ShellInv
      <4>. QED BY <1>6, <2>1, <4>1
    <3>. QED BY <1>7, <1>8, <2>1, <3>1, <3>2
  <2>. QED BY <2>2, <2>3
<1>13. CASE UnlinkRecord(s)
  <2>1. shell[s].step = "unlink" /\ announced' = Nobody /\ discovery = Editor /\ Editing(s)
    BY <1>1, <1>9, <1>13 DEF UnlinkRecord
  <2>2. \/ shell[s].phase = "watch" /\ Returns(s, "stopped")
        \/ Proceeds(s, "spawn")
        \/ Returns(s, "stale-record-removed")
    BY <1>13 DEF UnlinkRecord
  <2>3. ASSUME shell[s].phase = "watch", NEW t \in Brokers, t = shell[s].target PROVE Gone(t)'
    <3>1. Recorded(t)
      BY <1>1, <2>3, Numbers DEF ShellInv
    <3>. QED BY <1>6, <2>1, <3>1
  <2>4. CASE Proceeds(s, "spawn")
    <3>1. shell' = [shell EXCEPT ![s] = [shell[s] EXCEPT !.step = "spawn",
                                                         !.phase = shell[s].phase]]
      BY <1>1, <2>4 DEF ShellRecord, Proceeds
    <3>. QED BY <1>7, <2>1, <3>1
  <2>. QED BY <1>8, <2>1, <2>2, <2>3, <2>4
<1>. QED BY <1>11, <1>12, <1>13

-----------------------------------------------------------------------------
LEMMA BrokerStep == BrokerInv /\ [BrokerNext]_brokerVars => BrokerInv'
<1>1. SUFFICES ASSUME BrokerInv, [BrokerNext]_brokerVars PROVE BrokerInv'
  OBVIOUS
<1>2. ASSUME ProcessesMoved, UNCHANGED shell PROVE BrokerInv'
  BY <1>1, <1>2, ProcessesOnly DEF ProcessesMoved
<1>3. CASE RunJob \/ FinishRun
  <2>1. UNCHANGED shell
    BY <1>3 DEF RunJob, FinishRun
  <2>. QED BY <1>1, <1>2, <1>3, <2>1, LocalSteps
<1>4. ASSUME NEW p \in Processes,
             \/ ProcessSteps(p) \/ BeginAdmission(p) \/ ParentStartsJob(p) \/ WorkSettles(p)
             \/ KillProcess(p)
      PROVE  BrokerInv'
  <2>1. UNCHANGED shell
    BY <1>4 DEF ProcessSteps, Register, Acquire, RecoverWork, Listen, Publish, InstallHandlers,
                FinishAdmission, DrainServer, ShutDown, CloseResources, Unregister, Depart,
                BeginAdmission, ParentStartsJob, WorkSettles, KillProcess
  <2>2. ProcessesMoved
    BY <1>1, <1>4, StartSteps, WorkSteps, ServiceSteps DEF ProcessSteps
  <2>. QED BY <1>2, <2>1, <2>2
<1>5. ASSUME NEW s \in Shells, CommandSteps(s) PROVE BrokerInv'
  BY <1>1, <1>5, ReadSteps, ChildSteps, RecordSteps DEF CommandSteps
<1>6. CASE UNCHANGED brokerVars
  <2>1. UNCHANGED <<process, directories, discovery, announced>> /\ UNCHANGED shell
    BY <1>6 DEF brokerVars
  <2>. QED BY <1>1, <1>2, <2>1, NothingMoves
<1>. QED BY <1>1, <1>3, <1>4, <1>5, <1>6 DEF BrokerNext

LEMMA BrokerAlways == BrokerSpec => []BrokerInv
BY BrokerBegins, BrokerStep, PTL DEF BrokerSpec

\* The broker that serves is the one in the record (src/local-discovery.ts,
\* broker-lifecycle.ts), for any number of brokers and commands, of which any are killed.
THEOREM RecordNamesServer == BrokerSpec => []ServingBrokerKeepsRecord
<1>1. BrokerInv => ServingBrokerKeepsRecord
  BY BrokerSuffices
<1>. QED BY <1>1, BrokerAlways, PTL

\* What `broker up` and `broker down` report of their broker is so (src/broker-lifecycle.ts).
THEOREM CommandsTruthful == BrokerSpec => []CommandsAnswerTruly
<1>1. BrokerInv => CommandsAnswerTruly
  BY BrokerSuffices
<1>. QED BY <1>1, BrokerAlways, PTL

\* Work runs under the locks of its directories, and locks stay only for work
\* (src/runtime-ownership.ts, runtime.ts).
THEOREM OwnershipHeld == BrokerSpec => []OwnershipFollowsWork
<1>1. BrokerInv => OwnershipFollowsWork
  BY BrokerSuffices
<1>. QED BY <1>1, BrokerAlways, PTL
=============================================================================
