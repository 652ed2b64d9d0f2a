------------------------------- MODULE Broker -------------------------------
(***************************************************************************)
(* The brokers of one user and the commands that start and stop them:      *)
(* `agentknot broker run` (src/cli.ts, runtime.ts, http-server.ts), which  *)
(* owns its storage directories (runtime-ownership.ts) and is announced by *)
(* a discovery record (local-discovery.ts); `broker up` and `broker down`  *)
(* (broker-lifecycle.ts); and a local `agentknot run`, which owns storage  *)
(* without being announced.                                                *)
(*                                                                         *)
(* A lock is an open exclusive transaction: it is refused, not awaited,    *)
(* and ends with its process.  Processes are stopped at any point.         *)
(***************************************************************************)
EXTENDS Naturals, Sequences, FiniteSets

CONSTANTS MaxBrokers,    \* `broker run` processes, over time
          Scripts        \* what the user's shells run, each "up", "down" or "run", and how
                         \* many processes are killed meanwhile

ASSUME BrokerAssumption ==
    /\ MaxBrokers \in Nat \ {0}
    /\ Scripts \subseteq [commands: Seq({"up", "down", "run"}), kills: Nat]

Brokers == 1..MaxBrokers
Local == MaxBrokers + 1  \* the process of a local `agentknot run`
Processes == 1..Local
Nobody == 0

VARIABLES process,       \* the processes that own storage, or try to
          directories,   \* who holds the lock of each storage directory
          discovery,     \* who holds the lock of the discovery directory
          announced,     \* the broker that the discovery record names, or Nobody
          shell,         \* the commands, one of each shell
          kills          \* processes that may still be killed

brokerVars == <<process, directories, discovery, announced, shell, kills>>

-----------------------------------------------------------------------------
Directories == 1..3

\* The local command is configured with other directories, of which one is shared.
Storage(p) == IF p = Local THEN {2, 3} ELSE {1, 2}

NewProcess == [step |-> "none", work |-> "none", admitting |-> FALSE, admitted |-> FALSE,
               kept |-> FALSE]

NewShell(kind) == [kind |-> kind, step |-> "idle", phase |-> "first", seen |-> Nobody,
                   target |-> Nobody, child |-> Nobody, result |-> "none"]

\* A broker that died earlier may have left its record.
BrokerInit ==
    /\ announced \in {Nobody, 1}
    /\ process = [p \in Processes |->
                    [NewProcess EXCEPT !.step = IF p = announced THEN "exited" ELSE "none"]]
    /\ directories = [d \in Directories |-> Nobody]
    /\ discovery = Nobody
    /\ \E script \in Scripts :
        /\ shell = [s \in DOMAIN script.commands |-> NewShell(script.commands[s])]
        /\ kills = script.kills

Shells == DOMAIN shell

ProcessAt(p, step) == process[p].step = step
Alive(p) == process[p].step \notin {"none", "exited"}
GoesTo(p, step) == process' = [process EXCEPT ![p].step = step]
Holds(p) == {d \in Directories : directories[d] = p}
Released(p) == [d \in Directories |-> IF directories[d] = p THEN Nobody ELSE directories[d]]

\* The end of a process ends its work and its locks; the record stays.
Exits(p) ==
    /\ process' = [process EXCEPT ![p] = [NewProcess EXCEPT !.step = "exited"]]
    /\ directories' = Released(p)
    /\ discovery' = IF discovery = p THEN Nobody ELSE discovery

\* SIGTERM starts the close of a serving broker, once; any other time it ends the process.
Signal(p) ==
    IF ProcessAt(p, "serving")
      THEN GoesTo(p, "draining") /\ UNCHANGED <<directories, discovery>>
      ELSE IF Alive(p) THEN Exits(p) ELSE UNCHANGED <<process, directories, discovery>>

-----------------------------------------------------------------------------
(* The start of a process.                                                 *)

\* createLocalDiscoveryRegistration.  A refused broker has nothing to close.
Register(p) ==
    /\ ProcessAt(p, "spawned")
    /\ \/ discovery = Nobody /\ discovery' = p /\ GoesTo(p, "registered")
       \/ discovery # Nobody /\ GoesTo(p, "exited") /\ UNCHANGED discovery
    /\ UNCHANGED <<directories, announced, shell, kills>>

\* Bug: the directories that were taken before the refused one stay locked. (OwnershipFollowsWork)
AfterRefusalKept(p) == directories

AfterRefusal(p) == Released(p)

\* acquireRuntimeOwnership: one directory after the other, in their order.
Acquire(p) ==
    /\ ProcessAt(p, "registered")
    /\ LET left == Storage(p) \ Holds(p)
           next == CHOOSE d \in left : \A e \in left : d <= e
       IN IF directories[next] = Nobody
            THEN /\ directories' = [directories EXCEPT ![next] = p]
                 /\ GoesTo(p, IF left = {next} THEN "owning" ELSE "registered")
            ELSE directories' = AfterRefusal(p) /\ GoesTo(p, "unregistering")
    /\ UNCHANGED <<discovery, announced, shell, kills>>

\* createRuntime recovers Jobs, which run from then on, and then their parents, which run
\* with or without a Job.  A failure closes the stores and the ownership, whatever was
\* recovered before: that work is left without either.
RecoverWork(p) ==
    /\ ProcessAt(p, "owning")
    /\ \/ /\ \E work \in {"none", "active", "parent"} :
                process' = [process EXCEPT ![p].step = "recovered", ![p].work = work]
          /\ UNCHANGED directories
       \/ /\ \E work \in {"none", "abandoned"} :
                process' = [process EXCEPT ![p].step = "unregistering", ![p].work = work]
          /\ directories' = Released(p)
    /\ UNCHANGED <<discovery, announced, shell, kills>>

\* Runtime.close refuses while Jobs or operations are active; it does not ask for parents.
CloseRuntime(p) ==
    LET refused == process[p].work = "active"
        work == IF process[p].work = "parent" THEN "abandoned" ELSE process[p].work
    IN /\ process' = [process EXCEPT ![p].step = "unregistering", ![p].kept = refused,
                                     ![p].work = work]
       /\ directories' = IF refused THEN directories ELSE Released(p)

\* A port in use fails the startup.
Listen(p) ==
    /\ p \in Brokers /\ ProcessAt(p, "recovered")
    /\ \/ GoesTo(p, "listening") /\ UNCHANGED directories
       \/ CloseRuntime(p)
    /\ UNCHANGED <<discovery, announced, shell, kills>>

\* The record is replaced as a whole; if that fails the listener closes again.
Publish(p) ==
    /\ ProcessAt(p, "listening")
    /\ \/ GoesTo(p, "published") /\ announced' = p
       \/ GoesTo(p, "draining") /\ UNCHANGED announced
    /\ UNCHANGED <<directories, discovery, shell, kills>>

InstallHandlers(p) ==
    /\ ProcessAt(p, "published")
    /\ GoesTo(p, "serving")
    /\ UNCHANGED <<directories, discovery, announced, shell, kills>>

-----------------------------------------------------------------------------
(* Work and its end.                                                       *)

Listening(p) == process[p].step \in {"listening", "published", "serving", "draining", "stopping"}

BeginAdmission(p) ==
    /\ process[p].step \in {"listening", "published", "serving"}
    /\ ~ process[p].admitting /\ ~ process[p].admitted
    /\ process' = [process EXCEPT ![p].admitting = TRUE]
    /\ UNCHANGED <<directories, discovery, announced, shell, kills>>

FinishAdmission(p) ==
    /\ process[p].admitting
    /\ \/ process' = [process EXCEPT ![p].admitting = FALSE, ![p].admitted = TRUE,
                                     ![p].work = "active"]
       \/ process' = [process EXCEPT ![p].admitting = FALSE]
    /\ UNCHANGED <<directories, discovery, announced, shell, kills>>

\* A local command runs its one Job.
RunJob ==
    /\ ProcessAt(Local, "recovered")
    /\ process' = [process EXCEPT ![Local].step = "running", ![Local].work = "active"]
    /\ UNCHANGED <<directories, discovery, announced, shell, kills>>

\* A recovered parent starts a Job.
ParentStartsJob(p) ==
    /\ process[p].work = "parent"
    /\ process' = [process EXCEPT ![p].work = "active"]
    /\ UNCHANGED <<directories, discovery, announced, shell, kills>>

\* Every Job and parent of the process settled; completed or cancelled.
WorkSettles(p) ==
    /\ process[p].work # "none"
    /\ process' = [process EXCEPT ![p].work = "none"]
    /\ UNCHANGED <<directories, discovery, announced, shell, kills>>

\* drain: admission is closed; the kernel is shut down if something was admitted here.
DrainServer(p) ==
    /\ ProcessAt(p, "draining") /\ ~ process[p].admitting
    /\ GoesTo(p, IF process[p].admitted THEN "stopping" ELSE "closed")
    /\ UNCHANGED <<directories, discovery, announced, shell, kills>>

\* Runtime.shutdown cancels what is active and waits; then the listener closes.
ShutDown(p) ==
    /\ ProcessAt(p, "stopping") /\ process[p].work = "none"
    /\ GoesTo(p, "closed")
    /\ UNCHANGED <<directories, discovery, announced, shell, kills>>

FinishRun ==
    /\ ProcessAt(Local, "running") /\ process[Local].work = "none"
    /\ GoesTo(Local, "closed")
    /\ UNCHANGED <<directories, discovery, announced, shell, kills>>

\* closeServeResources goes on with the registration when the runtime refuses.
CloseResources(p) ==
    /\ ProcessAt(p, "closed")
    /\ CloseRuntime(p)
    /\ UNCHANGED <<discovery, announced, shell, kills>>

\* LocalDiscoveryRegistration.close: the own record goes, under the lock, then the lock.
Unregister(p) ==
    /\ ProcessAt(p, "unregistering")
    /\ announced' = IF announced = p THEN Nobody ELSE announced
    /\ discovery' = IF discovery = p THEN Nobody ELSE discovery
    /\ GoesTo(p, "leaving")
    /\ UNCHANGED <<directories, shell, kills>>

\* Nothing keeps the process but its work.
Depart(p) ==
    /\ ProcessAt(p, "leaving") /\ process[p].work = "none"
    /\ Exits(p)
    /\ UNCHANGED <<announced, shell, kills>>

KillProcess(p) ==
    /\ kills > 0 /\ Alive(p)
    /\ kills' = kills - 1
    /\ Exits(p)
    /\ UNCHANGED <<announced, shell>>

-----------------------------------------------------------------------------
(* broker up and broker down.                                              *)

ShellAt(s, step) == shell[s].step = step
Proceeds(s, step) == shell' = [shell EXCEPT ![s].step = step]
Returns(s, result) == shell' = [shell EXCEPT ![s].step = "done", ![s].result = result]

\* A local command is a process of its own.
RunLocally(s) ==
    /\ ShellAt(s, "idle") /\ shell[s].kind = "run" /\ ProcessAt(Local, "none")
    /\ GoesTo(Local, "registered")
    /\ Returns(s, "none")
    /\ UNCHANGED <<directories, discovery, announced, kills>>

\* The status is a read of the record, then a request to the endpoint it names.
ReadRecord(s) ==
    /\ shell[s].step \in {"idle", "read"} /\ shell[s].kind # "run"
    /\ shell' = [shell EXCEPT ![s].step = "probe", ![s].seen = announced]
    /\ UNCHANGED <<process, directories, discovery, announced, kills>>

\* Whoever answers must show the identity in the record; a live broker may answer too late.
Answers(s) ==
    IF shell[s].seen = Nobody THEN {"stopped"}
    ELSE IF Listening(shell[s].seen) THEN {"running", "unavailable"} ELSE {"unavailable"}

ProbeUp(s) ==
    /\ ShellAt(s, "probe") /\ shell[s].kind = "up" /\ shell[s].phase \in {"first", "again"}
    /\ \E state \in Answers(s) :
        CASE state = "stopped" -> Proceeds(s, "spawn")
          [] state = "running" -> Returns(s, "already-running")
          [] OTHER -> IF shell[s].phase = "first" THEN Proceeds(s, "lock")
                                                  ELSE Returns(s, "error")
    /\ UNCHANGED <<process, directories, discovery, announced, kills>>

\* Only a broker that shows the identity in the record is sent SIGTERM.
ProbeDown(s) ==
    /\ ShellAt(s, "probe") /\ shell[s].kind = "down" /\ shell[s].phase = "first"
    /\ \E state \in Answers(s) :
        CASE state = "stopped" -> Returns(s, "already-stopped")
          [] state = "running" -> shell' = [shell EXCEPT ![s].step = "signal",
                                                         ![s].target = shell[s].seen]
          [] OTHER -> Proceeds(s, "lock")
    /\ UNCHANGED <<process, directories, discovery, announced, kills>>

SignalBroker(s) ==
    /\ ShellAt(s, "signal")
    /\ Signal(shell[s].target)
    /\ shell' = [shell EXCEPT ![s].step = "read", ![s].phase = "watch"]
    /\ UNCHANGED <<announced, kills>>

Watch(s) ==
    /\ ShellAt(s, "probe") /\ shell[s].phase = "watch"
    /\ LET same == shell[s].seen = shell[s].target
       IN \E state \in Answers(s) :
            CASE state = "stopped" \/ (state = "running" /\ ~ same) -> Returns(s, "stopped")
              [] state = "unavailable" /\ same -> Proceeds(s, "lock")
              [] OTHER -> Proceeds(s, "read")
    /\ UNCHANGED <<process, directories, discovery, announced, kills>>

\* Bug: the record is removed without its lock. (ServingBrokerKeepsRecord)
LockUnneeded(s) == TRUE

LockFree(s) == discovery = Nobody

\* removeLocalDiscoveryIfIdentity
LockRecord(s) ==
    /\ ShellAt(s, "lock")
    /\ IF LockFree(s)
         THEN /\ discovery' = IF discovery = Nobody THEN MaxBrokers + 2 ELSE discovery
              /\ Proceeds(s, "check")
         ELSE /\ IF shell[s].phase = "watch" THEN Proceeds(s, "read") ELSE Returns(s, "error")
              /\ UNCHANGED discovery
    /\ UNCHANGED <<process, directories, announced, kills>>

Unlocked == discovery' = IF discovery \in Processes THEN discovery ELSE Nobody

CheckRecord(s) ==
    /\ ShellAt(s, "check")
    /\ IF announced = shell[s].seen
         THEN Proceeds(s, "unlink") /\ UNCHANGED discovery
         ELSE /\ Unlocked
              /\ CASE shell[s].phase = "watch" -> Returns(s, "stopped")
                   [] shell[s].kind = "up" -> shell' = [shell EXCEPT ![s].step = "read",
                                                                     ![s].phase = "again"]
                   [] OTHER -> Returns(s, "error")
    /\ UNCHANGED <<process, directories, announced, kills>>

UnlinkRecord(s) ==
    /\ ShellAt(s, "unlink")
    /\ announced' = Nobody
    /\ Unlocked
    /\ CASE shell[s].phase = "watch" -> Returns(s, "stopped")
         [] shell[s].kind = "up" -> Proceeds(s, "spawn")
         [] OTHER -> Returns(s, "stale-record-removed")
    /\ UNCHANGED <<process, directories, kills>>

\* The launch profile is written first; that changes nothing here.
SpawnBroker(s) ==
    /\ ShellAt(s, "spawn")
    /\ \E p \in Brokers :
        /\ ProcessAt(p, "none") /\ \A q \in Brokers : q < p => ~ ProcessAt(q, "none")
        /\ GoesTo(p, "spawned")
        /\ shell' = [shell EXCEPT ![s].step = "read", ![s].phase = "poll", ![s].child = p]
    /\ UNCHANGED <<directories, discovery, announced, kills>>

ChildExited(s) == ProcessAt(shell[s].child, "exited")

\* Bug: the child goes on beside the broker that was found. (CommandsAnswerTruly)
FoundOtherLeavesChild(s) == Returns(s, "already-running")

FoundOther(s) ==
    shell' = [shell EXCEPT ![s].step = "terminate", ![s].result = "already-running"]

PollStart(s) ==
    /\ ShellAt(s, "probe") /\ shell[s].phase = "poll"
    /\ \E state \in Answers(s) :
        CASE state = "running" -> IF shell[s].seen = shell[s].child THEN Returns(s, "started")
                                                                    ELSE FoundOther(s)
          [] state # "running" /\ ChildExited(s) -> Returns(s, "error")
          [] OTHER -> Proceeds(s, "read")
    /\ UNCHANGED <<process, directories, discovery, announced, kills>>

\* The deadline of either command.
Deadline(s) ==
    /\ ShellAt(s, "read")
    /\ \/ shell[s].phase = "watch" /\ Returns(s, "error")
       \/ /\ shell[s].phase = "poll"
          /\ shell' = [shell EXCEPT ![s].step = "terminate", ![s].result = "error"]
    /\ UNCHANGED <<process, directories, discovery, announced, kills>>

\* terminateStartupChild: SIGTERM, a grace period, SIGKILL.
TerminateChild(s) ==
    /\ ShellAt(s, "terminate")
    /\ Signal(shell[s].child)
    /\ Proceeds(s, "grace")
    /\ UNCHANGED <<announced, kills>>

AwaitChild(s) ==
    /\ ShellAt(s, "grace")
    /\ IF ChildExited(s) THEN UNCHANGED <<process, directories, discovery>>
                         ELSE Exits(shell[s].child)
    /\ Returns(s, shell[s].result)
    /\ UNCHANGED <<announced, kills>>

-----------------------------------------------------------------------------
ProcessSteps(p) ==
    \/ Register(p) \/ Acquire(p) \/ RecoverWork(p) \/ Listen(p) \/ Publish(p)
    \/ InstallHandlers(p) \/ FinishAdmission(p)
    \/ DrainServer(p) \/ ShutDown(p) \/ CloseResources(p) \/ Unregister(p) \/ Depart(p)

CommandSteps(s) ==
    \/ RunLocally(s) \/ ReadRecord(s) \/ ProbeUp(s) \/ ProbeDown(s) \/ SignalBroker(s) \/ Watch(s)
    \/ LockRecord(s) \/ CheckRecord(s) \/ UnlinkRecord(s)
    \/ SpawnBroker(s) \/ PollStart(s) \/ Deadline(s) \/ TerminateChild(s) \/ AwaitChild(s)

BrokerNext ==
    \/ RunJob \/ FinishRun
    \/ \E p \in Processes :
        ProcessSteps(p) \/ BeginAdmission(p) \/ ParentStartsJob(p) \/ WorkSettles(p) \/ KillProcess(p)
    \/ \E s \in Shells : CommandSteps(s)

BrokerSpec == BrokerInit /\ [][BrokerNext]_brokerVars

-----------------------------------------------------------------------------
(* Properties.                                                             *)

\* Whatever commands run beside it, whatever they believe of a broker that answers too
\* late, and whoever dies: the record names the broker that serves.  Removing a stale
\* record is a read, a lock, a second read and an unlink.
ServingBrokerKeepsRecord == \A p \in Brokers : ProcessAt(p, "serving") => announced = p

\* `down` says that the broker stopped only when nobody can reach it any more; `up`
\* leaves no process of its own behind unless it says that it started one.
CommandsAnswerTruly ==
    \A s \in Shells : ShellAt(s, "done") =>
        /\ shell[s].result = "stopped" /\ shell[s].target # Nobody => ~ Listening(shell[s].target)
        /\ shell[s].result # "started" /\ shell[s].child # Nobody => ~ Alive(shell[s].child)

\* Work runs under the locks of all its directories, so no two processes work on one; and
\* a process that was refused or has closed keeps no lock, except for work it still runs.
OwnershipFollowsWork ==
    \A p \in Processes :
        /\ process[p].work \in {"active", "parent"} => Storage(p) \subseteq Holds(p)
        /\ process[p].step \in {"unregistering", "leaving"} /\ ~ process[p].kept => Holds(p) = {}

\* docs/SPEC.md:699: close() waits for admissions, cancels and drains the active Jobs
\* and orchestrations while the listener still serves, and then closes the listener.
DrainedBeforeListenerCloses ==
    \A p \in Brokers : ProcessAt(p, "closed") => process[p].work = "none"
=============================================================================
