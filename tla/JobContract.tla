---------------------------- MODULE JobContract ----------------------------
(***************************************************************************)
(* What a Job promises to whoever reads its record, whichever processes    *)
(* execute or recover it (docs/SPEC.md, "Job lifecycle"): the persisted    *)
(* status goes queued -> running -> terminal, once; the persisted attempt  *)
(* number only grows, one at a time and within the route's budget; and the *)
(* adapter is invoked at most once per attempt number.                     *)
(***************************************************************************)
EXTENDS Naturals

CONSTANTS Jobs, MaxAttempts

VARIABLES status,   \* the persisted status of each Job, "none" before admission
          attempt,  \* the persisted attempt number
          invoked   \* how often the adapter was called for each attempt number

vars == <<status, attempt, invoked>>

Terminal == {"succeeded", "failed", "cancelled"}

Init ==
    /\ status = [j \in Jobs |-> "none"]
    /\ attempt = [j \in Jobs |-> 0]
    /\ invoked = [j \in Jobs |-> [n \in 1..MaxAttempts |-> 0]]

Admit(j) ==
    /\ status[j] = "none"
    /\ status' = [status EXCEPT ![j] = "queued"]
    /\ UNCHANGED <<attempt, invoked>>

\* The next attempt number is reserved before the adapter is called for it.
Reserve(j, st) ==
    /\ status[j] \in {"queued", "running"}
    /\ st \in {status[j], "running"}
    /\ attempt[j] < MaxAttempts
    /\ attempt' = [attempt EXCEPT ![j] = @ + 1]
    /\ status' = [status EXCEPT ![j] = st]
    /\ UNCHANGED invoked

\* A Job recovered while queued already holds its first reservation.
Run(j) ==
    /\ status[j] = "queued"
    /\ attempt[j] = 1
    /\ status' = [status EXCEPT ![j] = "running"]
    /\ UNCHANGED <<attempt, invoked>>

Invoke(j, n) ==
    /\ n \in 1..attempt[j]
    /\ invoked[j][n] = 0
    /\ invoked' = [invoked EXCEPT ![j][n] = 1]
    /\ UNCHANGED <<status, attempt>>

\* Only a Job whose current attempt was invoked can succeed.
Finish(j, st) ==
    /\ status[j] \in {"queued", "running"}
    /\ st \in Terminal
    /\ st = "succeeded" => status[j] = "running" /\ invoked[j][attempt[j]] = 1
    /\ status' = [status EXCEPT ![j] = st]
    /\ UNCHANGED <<attempt, invoked>>

Next ==
    \E j \in Jobs :
        \/ Admit(j)
        \/ \E st \in {"queued", "running"} : Reserve(j, st)
        \/ Run(j)
        \/ \E n \in 1..MaxAttempts : Invoke(j, n)
        \/ \E st \in Terminal : Finish(j, st)

Spec == Init /\ [][Next]_vars
=============================================================================
