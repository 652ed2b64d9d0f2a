------------------------------ MODULE MCRecords ------------------------------
(***************************************************************************)
(* The record store, and two of its uses in which its transactions are     *)
(* single steps: the evidence about a task and the admission to a pool.    *)
(* Every behaviour is one of them; the other two stay as they begin.       *)
(***************************************************************************)
EXTENDS MCDurableRecordStore, TaskEvidence, RoutePool

VARIABLE subject

\* A bound Job that has succeeded with a patch, as the binding commands leave it.
ExecutedTask ==
    /\ orders = <<[job |-> 1, revision |-> 2]>>
    /\ taskJobs = <<[status |-> "succeeded", patch |-> TRUE]>>
    /\ candidates = <<>> /\ reviews = <<>> /\ dispositions = {} /\ told = {}
    /\ ctl = [c \in Controllers |-> Idle]

\* To the pool, again under one key, and to its first member by name.
MCRequests ==
    {[target |-> 0, dirty |-> TRUE, keyed |-> TRUE],
     [target |-> 0, dirty |-> FALSE, keyed |-> FALSE],
     [target |-> 1, dirty |-> TRUE, keyed |-> FALSE]}

MCInit ==
    /\ StoreInit /\ PoolInit
    /\ \/ subject \in {"store", "binding", "pool"} /\ TaskInit
       \/ subject = "evidence" /\ ExecutedTask
    /\ (subject # "pool" => durable)

\* The binding of Jobs is explored up to the first Review, the rest from a bound Job on.
MCNext ==
    /\ UNCHANGED subject
    /\ \/ subject = "store" /\ StoreNext /\ UNCHANGED <<taskVars, poolVars>>
       \/ subject = "binding" /\ TaskNext /\ reviews' = <<>> /\ UNCHANGED <<storeVars, poolVars>>
       \/ subject = "evidence" /\ TaskNext /\ UNCHANGED <<storeVars, poolVars>>
       \/ subject = "pool" /\ PoolNext /\ UNCHANGED <<storeVars, taskVars>>

MCSpec == MCInit /\ [][MCNext]_<<storeVars, taskVars, poolVars, subject>>
=============================================================================
