----------------------------- MODULE AiDecision -----------------------------
(***************************************************************************)
(* The AI decision on one submission and the human reviews it gates.       *)
(*                                                                         *)
(*   - AiReviewerDecisionMakerService.evaluateSubmission reads the runs of *)
(*     the configured workflows, and writes the decision some awaits later;*)
(*   - a webhook that ends a run evaluates, then creates the pending human *)
(*     reviews of a submission that passes; an edit of a run item's score  *)
(*     only evaluates; the scan-complete handler only tries to create;     *)
(*   - AiReviewEscalationService overrides a decision: at once (Admin,     *)
(*     Copilot) or by a request that is approved or rejected later.        *)
(*                                                                         *)
(* Every call is a task that goes from await to await.  How a run comes to *)
(* its end is WorkflowQueue: here a run is open or has ended.  The review  *)
(* phase is open and has a reviewer, so what may create reviews creates    *)
(* some.  Scores and weights are whole numbers, for which roundTo2 of the  *)
(* weighted total is exact.                                                *)
(***************************************************************************)
EXTENDS Integers, FiniteSetsExt

CONSTANTS
    Workflows,   \* workflows of the AI review config
    MaxRuns,     \* bound: runs of one workflow for the submission
    Retriggered, \* bound: workflows that get more than one
    Scores,      \* scores a run may be given
    Weight,      \* weightPercent
    Gating,      \* workflows with isGating
    Minimum,     \* minimumPassingScore of a workflow's scorecard
    Threshold,   \* minPassingThreshold
    GatingMode,  \* mode = AI_GATING
    MaxTime,     \* bound: starts and ends of runs

    Hooks,       \* webhook requests in flight
    Scorers,     \* updateRunItem requests in flight
    Scans,       \* scan-complete messages in flight
    Unlocks,     \* escalation requests of an Admin or a Copilot
    Requests,    \* escalation requests of Reviewers and Screeners
    Author,      \* who makes a request
    Reviewers,   \* the authors that are Reviewers
    Updates,     \* requests to approve or reject an escalation
    LateScores,  \* the score of a run may be posted after its end
    UnseenEnds,  \* the guard or a disabled workflow may end a run
    MaxMishaps,  \* bound: calls that fail, tasks that are aborted
    None

ASSUME RunsAssumption == MaxRuns \in Nat \ {0}
ASSUME ScoresAssumption == Scores \subseteq Nat /\ None \notin Scores
ASSUME ConfigAssumption ==
    /\ Weight \in [Workflows -> Nat]
    /\ Minimum \in [Workflows -> Nat]
    /\ Gating \subseteq Workflows
    /\ Threshold \in Nat
ASSUME BoundsAssumption == MaxTime \in Nat /\ MaxMishaps \in Nat
ASSUME SwitchAssumption == {GatingMode, LateScores, UnseenEnds} \subseteq BOOLEAN
ASSUME TasksAssumption ==
    /\ Hooks \cap Scorers = {} /\ Hooks \cap Scans = {} /\ Scorers \cap Scans = {}
    /\ Unlocks \cap Requests = {} /\ Updates \cap (Unlocks \cup Requests) = {}

Slots == 1..MaxRuns
Tasks == Hooks \cup Scorers \cup Scans
Creates == Unlocks \cup Requests
Callers == Creates \cup Updates

ASSUME NoneAssumption == None \notin Workflows \X Slots /\ None \notin Creates

VARIABLES
    run,        \* runs of a workflow: status, score, startedAt and completedAt
    decision,   \* the row of aiReviewDecision, status "none" before it exists
    reviews,    \* the submission has pending human reviews
    esc,        \* status of the escalation a create call has made
    pc,         \* where a task is
    row,        \* the run a webhook request is about
    verdict,    \* what evaluateSubmission has made of the runs it has read
    callerPc,   \* where an escalation call is
    target,     \* the escalation an update call is about
    merited,    \* auxiliary: at some time the runs deserved a pass
    mishaps

evalVars == <<pc, row, verdict>>
escVars == <<esc, callerPc, target>>
vars == <<run, decision, reviews, merited, mishaps, evalVars, escVars>>

Ended == {"SUCCESS", "FAILURE", "CANCELLED"}
Open == {"PASSED", "HUMAN_OVERRIDE"}

\* 0 stands for null in startedAt and completedAt.
Run == [status : {"none", "open"} \cup Ended, score : Scores \cup {None},
        startedAt : 0..MaxTime, completedAt : 0..MaxTime]
Decision == [status : {"none", "PENDING", "PASSED", "FAILED", "ERROR", "HUMAN_OVERRIDE"},
             locked : BOOLEAN, final : BOOLEAN]

TypeOK ==
    /\ run \in [Workflows \X Slots -> Run]
    /\ decision \in Decision
    /\ reviews \in BOOLEAN
    /\ esc \in [Creates -> {"none", "PENDING_APPROVAL", "APPROVED", "REJECTED"}]
    /\ pc \in [Tasks -> {"idle", "accepted", "read", "upsert", "write", "gate", "create", "error"}]
    /\ row \in [Hooks -> (Workflows \X Slots) \cup {None}]
    /\ verdict \in [Tasks -> {"wait", "pass", "fail"}]
    /\ callerPc \in [Callers -> {"start", "approved", "own", "commit", "done", "granted"}]
    /\ target \in [Updates -> Creates \cup {None}]
    /\ merited \in BOOLEAN
    /\ mishaps \in 0..MaxMishaps

Absent == [status |-> "none", score |-> None, startedAt |-> 0, completedAt |-> 0]
Fresh == [Absent EXCEPT !.status = "open"]

Init ==
    /\ run = [r \in Workflows \X Slots |-> IF r[2] = 1 THEN Fresh ELSE Absent]
    /\ decision = [status |-> "none", locked |-> FALSE, final |-> FALSE]
    /\ reviews = FALSE
    /\ esc = [c \in Creates |-> "none"]
    /\ pc = [t \in Tasks |-> IF t \in Scans THEN "gate" ELSE "idle"]
    /\ row = [t \in Hooks |-> None]
    /\ verdict = [t \in Tasks |-> "wait"]
    /\ callerPc = [c \in Callers |-> "start"]
    /\ target = [c \in Updates |-> None]
    /\ merited = FALSE
    /\ mishaps = 0

Goto(t, label) == pc' = [pc EXCEPT ![t] = label]

-----------------------------------------------------------------------------
(* buildDecisionContext: the latest run of every workflow.                 *)

PrecedesByEnd(a, b) == a.completedAt > b.completedAt

\* orderBy startedAt, then completedAt, both descending with nulls last
Precedes(a, b) ==
    \/ a.startedAt > b.startedAt
    \/ a.startedAt = b.startedAt /\ a.completedAt > b.completedAt

Runs(w) == {r \in {w} \X Slots : run[r].status # "none"}

\* Runs that tie come in any order.
Latest(w) == {r \in Runs(w) : \A q \in Runs(w) : ~Precedes(run[q], run[r])}

\* One latest run, or none, for every workflow.
Contexts ==
    {c \in [Workflows -> (Workflows \X Slots) \cup {None}] :
        \A w \in Workflows : IF Runs(w) = {} THEN c[w] = None ELSE c[w] \in Latest(w)}

-----------------------------------------------------------------------------
(* evaluateSubmission: what it makes of a context.                         *)

ReadyOnSuccess(c) == \A w \in Workflows : c[w] # None /\ run[c[w]].status = "SUCCESS"

Ready(c) == \A w \in Workflows : c[w] # None /\ run[c[w]].status \in Ended

Cancelled(c) == \E w \in Workflows : run[c[w]].status = "CANCELLED"

BelowMinimum(w, score) == score = None \/ score < Minimum[w]

GatingFailure(c) == \E w \in Gating : BelowMinimum(w, run[c[w]].score)

\* In hundredths.
WeightedTotal(c) ==
    MapThenSumSet(LAMBDA w : Weight[w] * (IF run[c[w]].score = None THEN 0 ELSE run[c[w]].score),
                  Workflows)

PassesOnTotal(c) == ~Cancelled(c) /\ WeightedTotal(c) >= 100 * Threshold

Passes(c) ==
    /\ ~Cancelled(c)
    /\ ~GatingFailure(c)
    /\ WeightedTotal(c) >= 100 * Threshold

Verdict(c) == IF ~Ready(c) THEN "wait" ELSE IF Passes(c) THEN "pass" ELSE "fail"

-----------------------------------------------------------------------------
(* Runs.                                                                   *)

RunsOnly == UNCHANGED <<decision, reviews, mishaps, escVars>>

\* Times only order the runs of one workflow: the time of an event is the least one
\* after every start and end among them.
After(w) == {n \in 1..MaxTime : \A q \in Runs(w) : run[q].startedAt < n /\ run[q].completedAt < n}
Now(w) == {n \in After(w) : \A m \in After(w) : n <= m}

\* The webhook tells that a job of the run is in progress.
StartRun(r) ==
    /\ run[r].status = "open"
    /\ run[r].startedAt = 0
    /\ \E now \in Now(r[1]) : run' = [run EXCEPT ![r].startedAt = now]
    /\ UNCHANGED evalVars /\ RunsOnly

\* The timeout guard tries again; the score of the failed attempt stays.
RequeueRun(r) ==
    /\ run[r].status = "open"
    /\ run' = [run EXCEPT ![r].startedAt = 0]
    /\ UNCHANGED evalVars /\ RunsOnly

\* updateWorkflowRun: the AI workflow posts its score; nothing evaluates it.
PostScore(r, score) ==
    /\ run[r].status = "open" \/ (LateScores /\ run[r].status \in Ended)
    /\ run' = [run EXCEPT ![r].score = score]
    /\ UNCHANGED evalVars /\ RunsOnly

\* retriggerWorkflowRun: one more run of a workflow that has one
Retrigger(r) ==
    /\ r[1] \in Retriggered
    /\ run[r].status = "none"
    /\ run[<<r[1], r[2] - 1>>].status # "none"
    /\ run' = [run EXCEPT ![r] = Fresh]
    /\ UNCHANGED evalVars /\ RunsOnly

EndsAs(r, status) ==
    \E now \in Now(r[1]) :
        run' = [run EXCEPT ![r].status = status, ![r].completedAt = now]

\* The timeout guard, or a dispatch that finds its workflow disabled, ends a run.
EndUnseen(r, status) ==
    /\ UnseenEnds
    /\ run[r].status = "open"
    /\ EndsAs(r, status)
    /\ UNCHANGED evalVars /\ RunsOnly

\* handleWorkflowRunEvents takes a completed event of a run that has not ended ...
HookAccept(t, r) ==
    /\ pc[t] = "idle"
    /\ run[r].status = "open"
    /\ row' = [row EXCEPT ![t] = r]
    /\ Goto(t, "accepted")
    /\ UNCHANGED <<run, verdict>> /\ RunsOnly

\* ... and ends it, and evaluates its submission.
HookEnd(t, status) ==
    /\ pc[t] = "accepted"
    /\ EndsAs(row[t], status)
    /\ row' = [row EXCEPT ![t] = None]
    /\ Goto(t, "read")
    /\ UNCHANGED verdict /\ RunsOnly

\* ... or has retryWorkflowRunIfEligible try again, and evaluates nothing.
HookRetry(t) ==
    /\ pc[t] = "accepted"
    /\ run[row[t]].status = "open"
    /\ run' = [run EXCEPT ![row[t]].startedAt = 0]
    /\ row' = [row EXCEPT ![t] = None]
    /\ Goto(t, "idle")
    /\ UNCHANGED verdict /\ RunsOnly

\* updateRunItem: the edit of an item's score gives its run a new one.
EditScore(t, r, score) ==
    /\ pc[t] = "idle"
    /\ run[r].status # "none"
    /\ run' = [run EXCEPT ![r].score = score]
    /\ Goto(t, "read")
    /\ UNCHANGED <<row, verdict>> /\ RunsOnly

-----------------------------------------------------------------------------
(* evaluateSubmission, from await to await.                                *)

Write(d) == decision' = d

EvalRead(t) ==
    /\ pc[t] = "read"
    /\ \E c \in Contexts : verdict' = [verdict EXCEPT ![t] = Verdict(c)]
    /\ Goto(t, "upsert")
    /\ UNCHANGED <<run, decision, reviews, mishaps, row, escVars>>

\* ensurePendingDecision
EvalUpsert(t) ==
    /\ pc[t] = "upsert"
    /\ Write(IF decision.status = "none" THEN [decision EXCEPT !.status = "PENDING"] ELSE decision)
    /\ Goto(t, "write")
    /\ UNCHANGED <<run, reviews, mishaps, row, verdict, escVars>>

Decided(v) ==
    [status |-> IF v = "pass" THEN "PASSED" ELSE "FAILED", final |-> TRUE,
     locked |-> GatingMode /\ v = "fail"]

\* triggerEvaluateSubmission goes on to the pending reviews when it passes.
EvalWrite(t) ==
    /\ pc[t] = "write"
    /\ Write(IF verdict[t] = "wait" THEN [decision EXCEPT !.status = "PENDING"]
                                    ELSE Decided(verdict[t]))
    /\ Goto(t, IF t \in Hooks /\ verdict[t] = "pass" THEN "gate" ELSE "idle")
    /\ UNCHANGED <<run, reviews, mishaps, row, verdict, escVars>>

\* ensurePendingReviewsForSubmission reads the decision ...
GateUnchecked(t) ==
    /\ pc[t] = "gate"
    /\ Goto(t, IF decision.status = "FAILED" THEN "idle" ELSE "create")
    /\ UNCHANGED <<run, decision, reviews, mishaps, row, verdict, escVars>>

Gate(t) ==
    /\ pc[t] = "gate"
    /\ Goto(t, IF decision.status \in Open THEN "create" ELSE "idle")
    /\ UNCHANGED <<run, decision, reviews, mishaps, row, verdict, escVars>>

\* ... and some awaits later creates the reviews.
CreateReviews(t) ==
    /\ pc[t] = "create"
    /\ reviews' = TRUE
    /\ Goto(t, "idle")
    /\ UNCHANGED <<run, decision, mishaps, row, verdict, escVars>>

Mishap == mishaps < MaxMishaps /\ mishaps' = mishaps + 1

\* A call to the database or the challenge service fails: a webhook marks the
\* decision, an edit and a scan give up.
TaskFails(t) ==
    /\ Mishap
    /\ pc[t] \in {"read", "upsert", "write", "gate", "create"}
    /\ Goto(t, IF t \in Hooks THEN "error" ELSE "idle")
    /\ UNCHANGED <<run, decision, reviews, row, verdict, escVars>>

\* markDecisionError
MarkError(t) ==
    /\ pc[t] = "error"
    /\ Write(IF decision.status = "none" THEN decision ELSE [decision EXCEPT !.status = "ERROR"])
    /\ Goto(t, "idle")
    /\ UNCHANGED <<run, reviews, mishaps, row, verdict, escVars>>

\* The process stops, or marking the error fails too.
TaskAborts(t) ==
    /\ Mishap
    /\ pc[t] # "idle"
    /\ Goto(t, "idle")
    /\ row' = IF t \in Hooks THEN [row EXCEPT ![t] = None] ELSE row
    /\ UNCHANGED <<run, decision, reviews, verdict, escVars>>

-----------------------------------------------------------------------------
(* Escalations: create and update, from await to await.                    *)

CallerGoto(c, label) == callerPc' = [callerPc EXCEPT ![c] = label]

Escalating == UNCHANGED <<run, mishaps, evalVars>>

Approved == \E e \in Creates : esc[e] = "APPROVED"

\* Approves e and every escalation that still waits for it, unlocks, opens.
Override(e) ==
    /\ esc' = [x \in Creates |->
                  IF x = e \/ esc[x] = "PENDING_APPROVAL" THEN "APPROVED" ELSE esc[x]]
    /\ Write([decision EXCEPT !.status = "HUMAN_OVERRIDE", !.locked = FALSE])
    /\ reviews' = TRUE

\* The decision of a call exists and has not passed.
CreateRead(c) ==
    /\ callerPc[c] = "start"
    /\ decision.status # "none"
    /\ CallerGoto(c, IF decision.status = "PASSED" THEN "done" ELSE "approved")
    /\ UNCHANGED <<decision, reviews, esc, target>> /\ Escalating

\* ensureNoApprovedEscalationExists
CreateCheckApproved(c) ==
    /\ callerPc[c] = "approved"
    /\ CallerGoto(c, IF Approved THEN "done"
                     ELSE IF c \in Requests /\ Author[c] \in Reviewers THEN "own" ELSE "commit")
    /\ UNCHANGED <<decision, reviews, esc, target>> /\ Escalating

\* existingEscalationByReviewer
CreateCheckOwn(c) ==
    /\ callerPc[c] = "own"
    /\ CallerGoto(c, IF \E e \in Requests : Author[e] = Author[c] /\ esc[e] # "none"
                     THEN "done" ELSE "commit")
    /\ UNCHANGED <<decision, reviews, esc, target>> /\ Escalating

\* createDirectUnlockEscalation
Unlock(c) ==
    /\ c \in Unlocks
    /\ callerPc[c] = "commit"
    /\ Override(c)
    /\ CallerGoto(c, "granted")
    /\ UNCHANGED target /\ Escalating

\* createPendingEscalationForRole
Request(c) ==
    /\ c \in Requests
    /\ callerPc[c] = "commit"
    /\ esc' = [esc EXCEPT ![c] = "PENDING_APPROVAL"]
    /\ CallerGoto(c, "done")
    /\ UNCHANGED <<decision, reviews, target>> /\ Escalating

\* update reads an escalation that waits for approval ...
UpdateRead(u, e) ==
    /\ callerPc[u] = "start"
    /\ esc[e] = "PENDING_APPROVAL"
    /\ target' = [target EXCEPT ![u] = e]
    /\ CallerGoto(u, "commit")
    /\ UNCHANGED <<decision, reviews, esc>> /\ Escalating

\* ... and some awaits later approves or rejects it.
Approve(u) ==
    /\ callerPc[u] = "commit"
    /\ Override(target[u])
    /\ CallerGoto(u, "granted")
    /\ UNCHANGED target /\ Escalating

Reject(u) ==
    /\ callerPc[u] = "commit"
    /\ esc' = [esc EXCEPT ![target[u]] = "REJECTED"]
    /\ CallerGoto(u, "done")
    /\ UNCHANGED <<decision, reviews, target>> /\ Escalating

-----------------------------------------------------------------------------
RunStep ==
    \E r \in DOMAIN run :
        \/ StartRun(r) \/ RequeueRun(r) \/ Retrigger(r)
        \/ \E score \in Scores : PostScore(r, score)
        \/ \E status \in Ended : EndUnseen(r, status)

Event ==
    \/ \E t \in Hooks, r \in DOMAIN run : HookAccept(t, r)
    \/ \E t \in Scorers, r \in DOMAIN run, score \in Scores : EditScore(t, r, score)

Advance(t) ==
    \/ t \in Hooks /\ \E status \in Ended : HookEnd(t, status)
    \/ t \in Hooks /\ HookRetry(t)
    \/ EvalRead(t) \/ EvalUpsert(t) \/ EvalWrite(t)
    \/ Gate(t) \/ CreateReviews(t) \/ MarkError(t)

Escalate ==
    \/ \E c \in Creates :
          CreateRead(c) \/ CreateCheckApproved(c) \/ CreateCheckOwn(c) \/ Unlock(c) \/ Request(c)
    \/ \E u \in Updates : \/ \E e \in Creates : UpdateRead(u, e)
                          \/ Approve(u) \/ Reject(u)

Work == RunStep \/ Event \/ Escalate \/ \E t \in Tasks : TaskFails(t) \/ TaskAborts(t)

\* What the AI review config asks of a submission, for the latest run of each
\* workflow: it has ended by itself, it meets the minimum of its scorecard where
\* the workflow gates, and together they reach the threshold.
Deserved(c) ==
    /\ \A w \in Workflows : c[w] # None
    /\ \A w \in Workflows : run[c[w]].status \in {"SUCCESS", "FAILURE"}
    /\ \A w \in Gating : run[c[w]].score # None /\ run[c[w]].score >= Minimum[w]
    /\ WeightedTotal(c) >= 100 * Threshold

Merit == \E c \in Contexts : Deserved(c)
Remember == merited' = (merited \/ Merit)

Next == (Work \/ \E t \in Tasks : Advance(t)) /\ Remember

Spec == Init /\ [][Next]_vars

\* A request or a message that is being handled goes on, and Gitea reports the end
\* of a run once it has accepted an event of it.
FairSpec == Spec /\ \A t \in Tasks : WF_vars(Advance(t) /\ Remember)

-----------------------------------------------------------------------------
(* Properties.                                                             *)

Granted == \E c \in Unlocks \cup Updates : callerPc[c] = "granted"

\* "Pending human review rows are created only when the AI decision is PASSED or
\* HUMAN_OVERRIDE": there are human reviews only of a submission whose runs at some
\* time deserved a pass, or that a person has let through, however stale the
\* decision and the verdict were that the handlers acted on.
GateKept == reviews => merited \/ Granted

\* A decision that says PASSED goes back to runs that deserved it.
PassedOnMerit == decision.status = "PASSED" => merited

\* A submission is never both let through and locked.
LockedMeansRefused == decision.locked => GatingMode /\ decision.status \notin Open

\* What makes them inductive: a verdict, and a task about to create reviews, go back
\* to such runs as well.
IInv ==
    /\ TypeOK /\ GateKept /\ PassedOnMerit /\ LockedMeansRefused
    /\ decision.status = "HUMAN_OVERRIDE" => Granted
    /\ \A t \in Tasks : verdict[t] = "pass" => merited
    /\ \A t \in Tasks : pc[t] = "create" => merited \/ Granted
    /\ \A t \in Hooks : pc[t] = "accepted" => row[t] # None
    /\ \A c \in Unlocks : callerPc[c] # "own"
    /\ \A u \in Updates : callerPc[u] = "commit" => target[u] # None

AllEnded == \A r \in DOMAIN run : run[r].status \in Ended \cup {"none"}
Quiet == \A t \in Hooks \cup Scorers : pc[t] = "idle"

\* While webhooks do not overlap, the decision is that of the runs as they are, and
\* a submission that passed has its reviews, whenever nothing is left to be done.
DecisionCurrent ==
    AllEnded /\ Quiet =>
        /\ decision.status = IF Merit THEN "PASSED" ELSE "FAILED"
        /\ Merit => reviews

\* When all has come to rest, a gating workflow whose run was started last was
\* cancelled or scored too low has the submission refused, whatever its other runs
\* say and whichever of them ended last.
RetriggerSupersedes ==
    AllEnded /\ Quiet =>
        \A w \in Gating : \A r \in Runs(w) :
            /\ \A q \in Runs(w) \ {r} : run[q].startedAt < run[r].startedAt
            /\ run[r].status = "CANCELLED" \/ run[r].score = None \/ run[r].score < Minimum[w]
            => decision.status = "FAILED"

\* Once every run has ended for good the decision is made for good.
DecidedInTheEnd == <>[]AllEnded => <>[](decision.status \in {"PASSED", "FAILED"})

=============================================================================
