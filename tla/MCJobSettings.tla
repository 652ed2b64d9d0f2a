---------------------------- MODULE MCJobSettings ----------------------------
(***************************************************************************)
(* JobLifecycle in three settings: a Job recovered again and again by      *)
(* processes that stall, as the constants say (to the store a process that *)
(* crashed is one that stalls for good); a Job with a callback whose       *)
(* store, snapshot and adapter fail under stale clocks, and whose process  *)
(* may crash as well; two Jobs that compete for one slot while their       *)
(* process crashes and another one, running beside it, takes over.  In a   *)
(* fourth setting no Job is admitted, and the processes of Broker start    *)
(* and stop.  Every behaviour picks one of the four: the run costs the sum *)
(* of their states, not the product.                                       *)
(***************************************************************************)
EXTENDS MCJobLifecycle, MCBroker

CONSTANTS j1, j2, o1

VARIABLE setting

Faulty == INSTANCE JobLifecycle WITH
    MaxFence <- 2, MaxRevision <- 4, MayStall <- FALSE, MayCrash <- {o1}, StaleClock <- TRUE,
    StoreFaults <- TRUE, SnapshotFaults <- TRUE, Callbacks <- TRUE

Handover == INSTANCE JobLifecycle WITH
    MaxAttempts <- 1, Payloads <- 0..1, Sources <- {}, MaxFence <- 2, MayStall <- FALSE,
    MayCrash <- {o1}

\* The processes are alike, so that one of them may be the one that admits.
Admits(o) ==
    \A j \in Jobs : records[j].status = "none" /\ records'[j].status # "none" =>
        exec[o][j] # exec'[o][j]

\* So are the Jobs, and j2 may be the one admitted later, or not at all.
Later == records'[j2].status # "none" => records'[j1].status # "none"
Alone == records'[j2] = NoRecord

\* Every process ended, every command returned.
BrokersFinished ==
    /\ announced = Nobody
    /\ process = [p \in Processes |-> [NewProcess EXCEPT !.step = "exited"]]
    /\ directories = [d \in Directories |-> Nobody]
    /\ discovery = Nobody
    /\ shell = <<>>
    /\ kills = 0

MCInit ==
    \/ setting \in {"recovery", "faults", "handover"} /\ Init /\ BrokersFinished
    \/ setting = "brokers" /\ Init /\ BrokerInit

MCNext ==
    \/ /\ setting = "recovery"
       /\ Next /\ Alone /\ Admits(CHOOSE o \in Owners : TRUE)
       /\ UNCHANGED <<brokerVars, setting>>
    \/ setting = "faults" /\ Faulty!Next /\ Alone /\ UNCHANGED <<brokerVars, setting>>
    \/ setting = "handover" /\ Handover!Next /\ Later /\ UNCHANGED <<brokerVars, setting>>
    \/ setting = "brokers" /\ BrokerNext /\ UNCHANGED <<vars, setting>>

MCSpec == MCInit /\ [][MCNext]_<<vars, brokerVars, setting>>
=============================================================================
