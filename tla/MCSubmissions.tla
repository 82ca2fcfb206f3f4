---------------------------- MODULE MCSubmissions ----------------------------
(* Small instances of a challenge's submissions and summations, for TLC.     *)
EXTENDS Summations

CONSTANTS contest, checkpoint

InPhase == [k \in Kinds |-> 1]
Targets == [k \in Kinds |-> {2}]

V(i, f) == [initial |-> i, final |-> f]
SomeReviews == {V(0, Nobody), V(6001, 0), V(6001, 10000), V(Nobody, 6001)}

None == [b \in Budget |-> 0]

Begin(n, given, file, budgets) ==
    [phase |-> n, given |-> given, file |-> file, left |-> budgets]

\* Submissions made, deleted and changed; deleted while a run starts; stale
\* ones scanned; summations generated, and made by hand while a submission is
\* deleted.
SomeBudgets ==
    {Begin(1, 0, FALSE, [None EXCEPT !.deletes = 2]),
     Begin(1, 0, FALSE, [None EXCEPT !.deletes = 1, !.mishaps = 1]),
     Begin(1, 1, TRUE, [None EXCEPT !.deletes = 1, !.changes = 1]),
     Begin(1, 1, TRUE, [None EXCEPT !.deletes = 1, !.runs = 2]),
     Begin(2, 2, TRUE, [None EXCEPT !.mishaps = 2, !.ages = 2]),
     Begin(2, 2, FALSE, [None EXCEPT !.generations = 2, !.reviews = 2]),
     Begin(2, 2, FALSE, [None EXCEPT !.generations = 1, !.reviews = 1, !.byHand = 1, !.deletes = 1])}

SomeCreatable == {<<contest, TRUE>>, <<checkpoint, FALSE>>}

\* The cron fires again and a pass goes on; the scanner answers or an answer is
\* lost.
Spec ==
    /\ SubmissionsSpec
    /\ WF_submissionsVars(RetryStep /\ UNCHANGED <<challengeVars, sumVars>>)
    /\ \A s \in Subs : WF_submissionsVars(ScanAnswers(s) /\ UNCHANGED <<challengeVars, sumVars>>)

=============================================================================
