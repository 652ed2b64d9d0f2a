----------------------- MODULE OrchestrationContract -----------------------
(***************************************************************************)
(* What an Orchestration promises to whoever reads its record and its      *)
(* Jobs, whichever process executes or recovers it: the saved status goes  *)
(* queued -> dispatching -> final, once, and what is final says never      *)
(* changes; a child Job starts only while the saved parent is dispatching, *)
(* after the children before it were recorded and below the bound; the     *)
(* reviewer's after every child succeeded; a success and a durable         *)
(* cancellation exclude each other.                                        *)
(***************************************************************************)
EXTENDS Naturals, FiniteSets

CONSTANTS MaxSubtasks, Terms

VARIABLES terms,   \* what was asked for: the length of the plan, the concurrency, and whether the
                   \* store may fail
          status,  \* the saved status, "none" before admission
          child,   \* what the saved record says of each subtask
          job,     \* what its Job has come to, "none" before its start; 0 is the reviewer's
          asked    \* a durable cancellation request

vars == <<terms, status, child, job, asked>>

Ended == {"succeeded", "failed", "cancelled"}
Plan == 1..terms.plan
\* The children that work, those aside that the record gives up: only a store that fails lets it
\* name an outcome before the Job has one.
Running == {k \in 1..MaxSubtasks : job[k] = "active" /\ child[k] \notin Ended}

Init ==
    /\ terms \in Terms
    /\ status = "none" /\ ~ asked
    /\ child = [k \in 1..MaxSubtasks |-> "none"]
    /\ job = [k \in 0..MaxSubtasks |-> "none"]

Admit ==
    /\ status = "none"
    /\ status' = "queued"
    /\ UNCHANGED <<terms, child, job, asked>>

RequestCancellation ==
    /\ status \in {"queued", "dispatching"}
    /\ asked' = TRUE
    /\ UNCHANGED <<terms, status, child, job>>

\* Children start in the order of the plan.
StartChild(k) ==
    /\ status = "dispatching"
    /\ k \in Plan /\ job[k] = "none"
    /\ \A i \in 1..(k - 1) : child[i] # "none"
    /\ Cardinality(Running) < terms.concurrency
    /\ job' = [job EXCEPT ![k] = "active"]
    /\ UNCHANGED <<terms, status, child, asked>>

StartReview ==
    /\ status = "dispatching"
    /\ \A k \in Plan : child[k] = "succeeded"
    /\ job[0] = "none"
    /\ job' = [job EXCEPT ![0] = "active"]
    /\ UNCHANGED <<terms, status, child, asked>>

JobEnds(k, outcome) ==
    /\ job[k] = "active"
    /\ job' = [job EXCEPT ![k] = outcome]
    /\ UNCHANGED <<terms, status, child, asked>>

\* The record may name a child once it has a Job, and takes back no outcome; with a store that
\* works it says of the child what its Job has come to.
MayRecord(k, value) ==
    \/ value = child[k]
    \/ /\ job[k] # "none"
       /\ value \in Ended \/ (value = "active" /\ child[k] \notin Ended)
       /\ ~ terms.faults => child[k] \notin Ended /\ value = job[k]

Save(next) ==
    /\ status \in {"queued", "dispatching"}
    /\ next \in {status, "dispatching"} \cup Ended
    /\ \A k \in 1..MaxSubtasks : MayRecord(k, child'[k])
    /\ next = "succeeded" => ~ asked /\ \A k \in Plan : child'[k] = "succeeded"
    /\ next = "cancelled" /\ ~ terms.faults => asked
    /\ status' = next
    /\ UNCHANGED <<terms, job, asked>>

Next ==
    \/ Admit \/ RequestCancellation \/ StartReview
    \/ \E k \in 1..MaxSubtasks : StartChild(k)
    \/ \E k \in 0..MaxSubtasks, outcome \in Ended : JobEnds(k, outcome)
    \/ \E next \in {"queued", "dispatching"} \cup Ended : Save(next)

Spec == Init /\ [][Next]_vars
=============================================================================
