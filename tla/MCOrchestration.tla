-------------------------- MODULE MCOrchestration --------------------------
(* Instances of Orchestration for TLC. *)
EXTENDS Orchestration

Input(plan, concurrency, review, validation, faults, dies) ==
    [plan |-> plan, concurrency |-> concurrency, review |-> review, validation |-> validation,
     faults |-> faults, crashes |-> dies]

\* No child, one with its review and validation, two that take turns or run side by side, all with
\* one crash.  A failing store: one child with its evidence, or with two crashes; two side by side;
\* and two that take turns and one crash, where a child that is given up lets the next one start.
MCInputs ==
    {Input(0, 1, TRUE, TRUE, FALSE, 1), Input(1, 1, TRUE, TRUE, FALSE, 1),
     Input(2, 1, TRUE, FALSE, FALSE, 1), Input(2, 2, FALSE, TRUE, FALSE, 1),
     Input(1, 1, TRUE, TRUE, TRUE, 0), Input(2, 2, FALSE, FALSE, TRUE, 0),
     Input(1, 1, FALSE, FALSE, TRUE, 2), Input(2, 1, FALSE, FALSE, TRUE, 1)}

\* A bound: where two children meet a failing store, all callers but one have already failed.
FirstCaller == CHOOSE c \in Callers : TRUE
MCInit ==
    /\ input \in Inputs
    /\ calls = [c \in Callers |->
                   IF input.faults /\ input.plan = 2 /\ c # FirstCaller THEN "done" ELSE "idle"]
    /\ broker = "up" /\ crashes = 0 /\ snapshots = {} /\ parent = NoParent /\ run = NoRun
    /\ jobs = [k \in 0..MaxSubtasks |-> <<>>] /\ requested = FALSE /\ answer = "none"

MCFairSpec == MCInit /\ [][OrchNext]_orchVars /\ OrchFairness

\* One or two children, one crash.
MCOutage == {Input(1, 1, FALSE, FALSE, FALSE, 1), Input(2, 2, FALSE, FALSE, FALSE, 1)}
=============================================================================
