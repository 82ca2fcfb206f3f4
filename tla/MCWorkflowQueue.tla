-------------------------- MODULE MCWorkflowQueue --------------------------
(* Small instances of WorkflowQueue for TLC.                               *)
EXTENDS WorkflowQueue, TLC

Symmetry ==
    Permutations(Runs) \cup Permutations(Consumers) \cup Permutations(Guards)
        \cup Permutations(Hooks)

\* A body of POST and PATCH that takes over the first Gitea run.
TakesOver == {[status |-> "IN_PROGRESS", gitRunId |-> 1, started |-> FALSE, completed |-> FALSE]}

=============================================================================
