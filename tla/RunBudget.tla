----------------------------- MODULE RunBudget -----------------------------
(***************************************************************************)
(* What the retry policy promises Gitea, without handlers, rows or locks:  *)
(* a run may be asked for once, and once more for each retry granted to    *)
(* it, and at most MaxRetries retries are granted.                         *)
(***************************************************************************)
EXTENDS Integers

CONSTANTS Runs, MaxRetries

VARIABLES tries,   \* retries granted to each run
          asked    \* the attempts at each run Gitea was asked for

Init == tries = [r \in Runs |-> 0] /\ asked = [r \in Runs |-> {}]

Grant(r) ==
    /\ tries[r] < MaxRetries
    /\ tries' = [tries EXCEPT ![r] = @ + 1]
    /\ UNCHANGED asked

\* Attempts may be asked for late and out of order, never twice.
Ask(r) ==
    /\ \E k \in (0..tries[r]) \ asked[r] : asked' = [asked EXCEPT ![r] = @ \cup {k}]
    /\ UNCHANGED tries

Next == \E r \in Runs : Grant(r) \/ Ask(r)

Spec == Init /\ [][Next]_<<tries, asked>>

=============================================================================
