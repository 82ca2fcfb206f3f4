---------------------------- MODULE MCReviewRound ----------------------------
(* Small instances of a challenge's review round for TLC: one review of one  *)
(* question, its appeals, and three phases in order.                         *)
EXTENDS Appeals, TLC

Symmetry == Permutations(Calls) \cup Permutations(AppealCalls)

All == [q \in Questions |-> 100]

R(user, kind, status, answer, comments) ==
    [user |-> user, kind |-> kind, status |-> status,
     answers |-> [q \in Questions |-> answer], comments |-> comments]

CONSTANTS rev, cop, m2m

\* A review is begun, filled, completed, reopened, its item edited and dropped.
SomeRequests == {
    R(rev, "create", None, 1, FALSE), R(m2m, "create", "COMPLETED", 2, FALSE),
    R(rev, "update", "COMPLETED", 2, TRUE),
    R(m2m, "update", "COMPLETED", None, FALSE), R(cop, "update", "IN_PROGRESS", None, FALSE),
    R(rev, "add", None, 1, FALSE), R(rev, "edit", None, 2, TRUE), R(cop, "edit", None, 2, FALSE),
    R(rev, "drop", None, 1, FALSE), R(cop, "delete", None, None, FALSE)}

S(n, status, answer, comments, appealed, edits, appeals) ==
    [phase |-> n, status |-> status, answers |-> [q \in Questions |-> answer],
     comments |-> comments, appealed |-> appealed, edits |-> edits, appeals |-> appeals]

\* A review to be made, one without items, one completed, one under appeal, and
\* two to be appealed, in time and while reviews overrun.
SomeStarts == {
    S(1, "none", None, FALSE, FALSE, 2, 0), S(1, "IN_PROGRESS", None, FALSE, FALSE, 2, 0),
    S(1, "COMPLETED", 1, FALSE, FALSE, 2, 0), S(2, "COMPLETED", 1, TRUE, TRUE, 1, 1),
    S(2, "COMPLETED", 1, TRUE, FALSE, 0, 3), S(1, "COMPLETED", 1, TRUE, FALSE, 0, 3)}

OneAppeal == {S(2, "COMPLETED", 1, TRUE, FALSE, 0, 1)}

=============================================================================
