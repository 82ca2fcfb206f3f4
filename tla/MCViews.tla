------------------------------- MODULE MCViews -------------------------------
(* Small instances of what the members of a challenge see, for TLC.          *)
EXTENDS AiVisibility, TLC

CONSTANTS ann, bob, cy, dan, eve, fay, gil, hal, ian, jo, kim, m2m

\* Three reviewers, of whom one screens, an approver, a copilot, two submitters,
\* one who submits and reviews, an observer, a manager and one who submits and
\* manages.
SomeRoles == (m2m :> {}) @@ (ann :> {"reviewer", "checkpoint reviewer", "screener"})
             @@ (bob :> {"reviewer", "iterative reviewer"})
             @@ (cy :> {"approver", "checkpoint screener"}) @@ (dan :> {"copilot"})
             @@ (eve :> {"submitter"}) @@ (fay :> {"submitter"})
             @@ (gil :> {"submitter", "reviewer"}) @@ (hal :> {"observer"})
             @@ (ian :> {"iterative reviewer"}) @@ (jo :> {"manager"})
             @@ (kim :> {"submitter", "manager"})

SomePassed == [u \in Users |-> IF u = eve THEN {"review"} ELSE IF u = gil THEN {"approval"} ELSE
                               IF u = fay THEN {"screening"} ELSE {}]

L(type, a, b, c, d, e) == [type |-> type, names |-> <<a, b, c, d, e>>]

SomeLayouts == {
    L("challenge", "submission", "screening", "review", "appeals", "appeals response"),
    L("challenge", "checkpoint screening", "checkpoint review", "submission", "review", "approval"),
    L("f2f", "submission", "iterative review", "none", "none", "none"),
    L("marathon", "submission", "review", "approval", "none", "none"),
    L("task", "submission", "iterative review", "approval", "none", "none")}

=============================================================================
