---------------------------- MODULE MCAiDecision ----------------------------
(* Small instances of AiDecision for TLC: one gating workflow that counts   *)
(* alone, or two of equal weight of which one gates.  Some score reaches the *)
(* threshold and still fails the minimum of the gating workflow.             *)
EXTENDS AiDecision

CONSTANTS w1, w2, Person

AllWorkflows == {w1, w2}
OneWorkflow == {w1}
HalfEach == [w \in Workflows |-> 50]
Whole == [w \in Workflows |-> 100]
Sixty == [w \in Workflows |-> 60]
SamePerson == [r \in Requests |-> Person]

=============================================================================
