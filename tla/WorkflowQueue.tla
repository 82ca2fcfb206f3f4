--------------------------- MODULE WorkflowQueue ---------------------------
(***************************************************************************)
(* Life of the aiWorkflowRun rows of review-api-v6: how they are queued    *)
(* once per submission, dispatched to Gitea, moved by the workflow_job     *)
(* webhooks, retried, timed out by the interval guard, retriggered by an   *)
(* administrator, and created or changed by callers of the API             *)
(* (workflow-queue.handler.ts, ai-workflow.service.ts).                    *)
(*                                                                         *)
(* Every handler is asynchronous: a task stops at each await, and other    *)
(* tasks of this or of another instance of the service run in between.     *)
(* A step of this model is what a handler does from one await to the next. *)
(***************************************************************************)
EXTENDS Integers, FiniteSets

CONSTANTS
    Submissions,      \* submissions of one challenge
    Workflows,        \* AI workflows configured for the challenge
    Runs,             \* identifiers for rows of aiWorkflowRun
    GitIds,           \* identifiers Gitea gives to its runs, in increasing order
    Consumers,        \* deliveries of scan-complete messages being handled
    Guards,           \* firings of the timeout guard (they may overlap)
    Hooks,            \* webhook requests being handled
    Admins,           \* retrigger requests being handled
    Conclusions,      \* conclusions Gitea's jobs may report
    Switchable,       \* workflows an administrator may disable or enable
    MaxRetries,       \* AI_WORKFLOW_MAX_RETRIES
    DispatchEnabled,  \* DISPATCH_AI_REVIEW_WORKFLOWS
    IsF2F,            \* the challenge is a First2Finish
    Bodies,           \* what callers of the API write into rows
    MaxByCaller,      \* bound: rows callers write
    MaxJobs,          \* bound: conclusions one Gitea run reports
    MaxFaults,        \* bound: aborted tasks, failed calls, lost or repeated events
    None              \* null

Tasks == Consumers \cup Guards \cup Hooks \cup Admins

RawConclusions == {"success", "failure", "cancelled", "timed_out", "skipped", "other"}

ASSUME RetriesAssumption == MaxRetries \in Nat
ASSUME BoundsAssumption == {MaxJobs, MaxFaults, MaxByCaller} \subseteq Nat
ASSUME GitIdsAssumption == GitIds \subseteq Nat
ASSUME ConclusionsAssumption == Conclusions \subseteq RawConclusions
ASSUME SwitchAssumption ==
    DispatchEnabled \in BOOLEAN /\ IsF2F \in BOOLEAN /\ Switchable \subseteq Workflows
ASSUME NoneAssumption ==
    None \notin Tasks \cup Runs \cup GitIds \cup Submissions \cup Workflows
ASSUME RolesAssumption ==
    /\ Consumers \cap (Guards \cup Hooks \cup Admins) = {}
    /\ Guards \cap (Hooks \cup Admins) = {}
    /\ Hooks \cap Admins = {}

-----------------------------------------------------------------------------
(* Rows.                                                                   *)

InProgressStatuses == {"INIT", "QUEUED", "DISPATCHED", "IN_PROGRESS"}
TerminalStatuses == {"SUCCESS", "FAILURE", "CANCELLED", "TIMEOUT"}
WatchedStatuses == {"DISPATCHED", "IN_PROGRESS", "QUEUED"}

\* completed, started and dispatched say that completedAt, startedAt and
\* lastDispatchedAt are not null; gitRunId is None for '' and for a text that is
\* no id of Gitea's.  origin and writer are auxiliary: where the row comes from,
\* and whether a caller of the API has written it.
Row == [status     : InProgressStatuses \cup TerminalStatuses \cup {"ABSENT"},
        workflow   : Workflows \cup {None},
        submission : Submissions \cup {None},
        origin     : {"queue", "retrigger", "request", "none"},
        writer     : {"service", "caller"},
        completed  : BOOLEAN,
        started    : BOOLEAN,
        dispatched : BOOLEAN,
        gitRunId   : GitIds \cup {None},
        retryCount : Nat]

ASSUME BodiesAssumption ==
    Bodies \subseteq [status : InProgressStatuses \cup TerminalStatuses,
                     gitRunId : GitIds \cup {None}, started : BOOLEAN, completed : BOOLEAN]

AbsentRow == [status |-> "ABSENT", workflow |-> None, submission |-> None,
              origin |-> "none", writer |-> "service",
              completed |-> FALSE, started |-> FALSE, dispatched |-> FALSE,
              gitRunId |-> None, retryCount |-> 0]

NewRow(w, s, o) == [AbsentRow EXCEPT !.status = "INIT", !.workflow = w,
                                     !.submission = s, !.origin = o]

Closed(row) == row.completed /\ row.status \in TerminalStatuses

WatchedWithoutDispatched(row) == /\ row.status \in {"IN_PROGRESS", "QUEUED"}
                                 /\ ~row.completed
                                 /\ row.dispatched \/ row.started

\* What the guard's query and its reference time select.
Watched(row) == /\ row.status \in WatchedStatuses
                /\ ~row.completed
                /\ row.dispatched \/ row.started

NormalizeFallsToSuccess(c) == CASE c = "failure"                  -> "FAILURE"
                                [] c \in {"cancelled", "skipped"} -> "CANCELLED"
                                [] c = "timed_out"                -> "TIMEOUT"
                                [] OTHER                          -> "SUCCESS"

Normalize(c) == CASE c = "success"                   -> "SUCCESS"
                  [] c \in {"cancelled", "skipped"}  -> "CANCELLED"
                  [] c = "timed_out"                 -> "TIMEOUT"
                  [] OTHER                           -> "FAILURE"

-----------------------------------------------------------------------------
(* Gitea, its events, and the tasks.                                       *)

\* attempt is auxiliary: the retry of the row the Gitea run was made for.
GitRun == [run : Runs \cup {None}, attempt : Nat,
           started : BOOLEAN, done : SUBSET RawConclusions]
NoGitRun == [run |-> None, attempt |-> 0, started |-> FALSE, done |-> {}]

Event == [git : GitIds, action : {"in_progress", "completed"},
          conclusion : RawConclusions \cup {None}]
InProgress(g) == [git |-> g, action |-> "in_progress", conclusion |-> None]
Completed(g, c) == [git |-> g, action |-> "completed", conclusion |-> c]

Labels == {"idle", "q_lock", "q_create", "loop", "a_create",
           "d_workflow", "d_cancel", "d_read", "d_write", "d_call",
           "d_record", "d_restore", "r_lock", "r_commit",
           "h_start", "h_close", "h_publish"}

\* Local variables of a handler.
Local == [run        : Runs \cup {None},        \* row in hand
          todo       : SUBSET Runs,             \* rows left in a for loop
          saved      : Row,                     \* row as it was last read
          attempt    : Nat,                     \* retryInfo.retryCount
          verdict    : TerminalStatuses \cup {None},
          git        : GitIds \cup {None},      \* dispatchResult.workflow_run_id
          submission : Submissions \cup {None},
          active     : SUBSET Workflows]

NoLocal == [run |-> None, todo |-> {}, saved |-> AbsentRow, attempt |-> 0,
            verdict |-> None, git |-> None, submission |-> None, active |-> {}]

VARIABLES
    run,        \* the table aiWorkflowRun
    disabled,   \* workflows with disabled = true
    rlock,      \* advisory lock retryWorkflowRun, one per row
    qlock,      \* advisory lock queueWorkflowRuns, one per submission
    overdue,    \* rows whose reference time is more than the timeout ago
    pc, local,  \* the tasks
    git,        \* the runs Gitea has made
    mail,       \* workflow_job events on their way
    published,  \* submissions with an aiworkflow.action.completed event
    faults

vars == <<run, disabled, rlock, qlock, overdue, pc, local, git, mail, published, faults>>
external == <<git, mail>>
locks == <<rlock, qlock>>

TypeOK ==
    /\ run \in [Runs -> Row]
    /\ disabled \subseteq Workflows
    /\ rlock \in [Runs -> Tasks \cup {None}]
    /\ qlock \in [Submissions -> Tasks \cup {None}]
    /\ overdue \subseteq Runs
    /\ pc \in [Tasks -> Labels]
    /\ local \in [Tasks -> Local]
    /\ git \in [GitIds -> GitRun]
    /\ mail \subseteq Event
    /\ published \subseteq Submissions
    /\ faults \in 0..MaxFaults

Exists(r) == run[r].status # "ABSENT"
RowsOf(s) == {r \in Runs : Exists(r) /\ run[r].submission = s}

Init ==
    /\ run = [r \in Runs |-> AbsentRow]
    /\ disabled = {}
    /\ rlock = [r \in Runs |-> None]
    /\ qlock = [s \in Submissions |-> None]
    /\ overdue = {}
    /\ pc = [t \in Tasks |-> "idle"]
    /\ local = [t \in Tasks |-> NoLocal]
    /\ git = [g \in GitIds |-> NoGitRun]
    /\ mail = {}
    /\ published = {}
    /\ faults = 0

-----------------------------------------------------------------------------
(* Control of a task.                                                      *)

Goto(t, label, l) ==
    /\ pc' = [pc EXCEPT ![t] = label]
    /\ local' = [local EXCEPT ![t] = l]

Return(t) == Goto(t, "idle", NoLocal)

BackToLoop(t) == Goto(t, "loop", [NoLocal EXCEPT !.todo = local[t].todo])

\* Where dispatchWorkflowRun returns to: the loop of the queue or of the guard,
\* or the end of the request.
DispatchReturns(t) ==
    IF t \in Consumers \cup Guards THEN BackToLoop(t) ELSE Return(t)

\* Where retryWorkflowRunIfEligible returns false to.
RetryRefused(t) ==
    IF t \in Hooks
    THEN Goto(t, "h_close", [NoLocal EXCEPT !.run = local[t].run,
                                            !.verdict = local[t].verdict])
    ELSE BackToLoop(t)

-----------------------------------------------------------------------------
(* queueWorkflowRuns: a clean scan queues one run per active workflow.      *)

QueueRead(t, s) ==
    /\ DispatchEnabled
    /\ pc[t] = "idle"
    /\ Workflows \ disabled # {}
    /\ Goto(t, "q_lock", [NoLocal EXCEPT !.submission = s,
                                         !.active = Workflows \ disabled])
    /\ UNCHANGED <<run, disabled, locks, overdue, external, published, faults>>

\* The advisory lock is taken, then hasQueuedWorkflowRuns reads the table.
QueueAlreadyQueued(t) ==
    /\ pc[t] = "q_lock"
    /\ qlock[local[t].submission] = None
    /\ RowsOf(local[t].submission) # {}
    /\ Return(t)
    /\ UNCHANGED <<run, disabled, locks, overdue, external, published, faults>>

QueueWithoutLock(t) ==
    /\ pc[t] = "q_lock"
    /\ RowsOf(local[t].submission) = {}
    /\ qlock' = [qlock EXCEPT ![local[t].submission] = t]
    /\ Goto(t, "q_create", local[t])
    /\ UNCHANGED <<run, disabled, rlock, overdue, external, published, faults>>

QueueLock(t) ==
    /\ pc[t] = "q_lock"
    /\ qlock[local[t].submission] = None
    /\ RowsOf(local[t].submission) = {}
    /\ qlock' = [qlock EXCEPT ![local[t].submission] = t]
    /\ Goto(t, "q_create", local[t])
    /\ UNCHANGED <<run, disabled, rlock, overdue, external, published, faults>>

\* createManyAndReturn; the commit releases the lock.
QueueCreate(t) ==
    LET s == local[t].submission
        active == local[t].active
    IN  /\ pc[t] = "q_create"
        /\ \E new \in [active -> {r \in Runs : ~Exists(r)}] :
              /\ \A v, w \in active : new[v] = new[w] => v = w
              /\ run' = [r \in Runs |->
                           IF \E w \in active : new[w] = r
                           THEN NewRow(CHOOSE w \in active : new[w] = r, s, "queue")
                           ELSE run[r]]
              /\ Goto(t, "loop", [NoLocal EXCEPT !.todo = {new[w] : w \in active}])
        /\ qlock' = [qlock EXCEPT ![s] = None]
        /\ UNCHANGED <<disabled, rlock, overdue, external, published, faults>>

\* for (const run of workflowRuns), and for (const run of activeRuns).
LoopNext(t, r) ==
    /\ pc[t] = "loop"
    /\ r \in local[t].todo
    /\ LET rest == local[t].todo \ {r}
       IN  IF t \in Guards
           THEN Goto(t, "r_lock", [NoLocal EXCEPT !.todo = rest, !.run = r,
                                                  !.verdict = "TIMEOUT"])
           ELSE Goto(t, "d_workflow", [NoLocal EXCEPT !.todo = rest, !.run = r])
    /\ UNCHANGED <<run, disabled, locks, overdue, external, published, faults>>

LoopEnd(t) ==
    /\ pc[t] = "loop"
    /\ local[t].todo = {}
    /\ Return(t)
    /\ UNCHANGED <<run, disabled, locks, overdue, external, published, faults>>

-----------------------------------------------------------------------------
(* retriggerWorkflowRun: a fresh row for the workflow of an existing one.   *)

RetriggerRead(t, r) ==
    /\ pc[t] = "idle"
    /\ Exists(r)
    /\ run[r].workflow \notin disabled
    /\ Goto(t, "a_create", [NoLocal EXCEPT !.submission = run[r].submission,
                                           !.active = {run[r].workflow}])
    /\ UNCHANGED <<run, disabled, locks, overdue, external, published, faults>>

RetriggerCreate(t, r) ==
    /\ pc[t] = "a_create"
    /\ ~Exists(r)
    /\ \E w \in local[t].active :
          run' = [run EXCEPT ![r] = NewRow(w, local[t].submission, "retrigger")]
    /\ IF DispatchEnabled
       THEN Goto(t, "d_workflow", [NoLocal EXCEPT !.run = r])
       ELSE Return(t)
    /\ UNCHANGED <<disabled, locks, overdue, external, published, faults>>

-----------------------------------------------------------------------------
(* createWorkflowRun and updateWorkflowRun: a caller sets what the handlers *)
(* otherwise set, whatever they are doing with the row.                     *)

\* A date can be set, not taken back; leaving a field out is repeating its value.
FromCaller(row, b) ==
    [row EXCEPT !.writer = "caller", !.status = b.status, !.gitRunId = b.gitRunId,
                !.started = @ \/ b.started, !.completed = @ \/ b.completed]

CallerMayWrite(r) ==
    Cardinality({q \in Runs : run[q].writer = "caller"} \cup {r}) <= MaxByCaller

\* workflow.disabled is read two awaits before the row is made: a slow request
\* makes it whatever the workflow has become.
CreateWorkflowRun(r, w, s) ==
    /\ ~Exists(r)
    /\ CallerMayWrite(r)
    /\ \E b \in Bodies : run' = [run EXCEPT ![r] = FromCaller(NewRow(w, s, "request"), b)]
    /\ UNCHANGED <<disabled, locks, overdue, pc, local, external, published, faults>>

UpdateWorkflowRun(r) ==
    /\ Exists(r)
    /\ CallerMayWrite(r)
    /\ \E b \in Bodies :
          /\ run' = [run EXCEPT ![r] = FromCaller(@, b)]
          /\ overdue' \in IF b.started /\ ~run[r].dispatched
                          THEN {overdue, overdue \ {r}} ELSE {overdue}
    /\ UNCHANGED <<disabled, locks, pc, local, external, published, faults>>

Callers ==
    \E r \in Runs :
        \/ UpdateWorkflowRun(r)
        \/ \E w \in Workflows, s \in Submissions : CreateWorkflowRun(r, w, s)

-----------------------------------------------------------------------------
(* dispatchWorkflowRun.                                                     *)

DispatchReadWorkflow(t) ==
    /\ pc[t] = "d_workflow"
    /\ Goto(t, IF run[local[t].run].workflow \in disabled THEN "d_cancel" ELSE "d_read",
            local[t])
    /\ UNCHANGED <<run, disabled, locks, overdue, external, published, faults>>

DispatchCancel(t) ==
    /\ pc[t] = "d_cancel"
    /\ run' = [run EXCEPT ![local[t].run].status = "CANCELLED",
                          ![local[t].run].completed = TRUE]
    /\ DispatchReturns(t)
    /\ UNCHANGED <<disabled, locks, overdue, external, published, faults>>

\* initialState
DispatchRead(t) ==
    /\ pc[t] = "d_read"
    /\ Goto(t, "d_write", [local[t] EXCEPT !.saved = run[local[t].run]])
    /\ UNCHANGED <<run, disabled, locks, overdue, external, published, faults>>

DispatchWriteUndated(t) ==
    LET r == local[t].run
    IN  /\ pc[t] = "d_write"
        /\ run' = [run EXCEPT ![r] = [@ EXCEPT !.status = "DISPATCHED",
                                               !.completed = FALSE,
                                               !.started = FALSE]]
        /\ overdue' = overdue \ {r}
        /\ Goto(t, "d_call", local[t])
        /\ UNCHANGED <<disabled, locks, external, published, faults>>

DispatchWrite(t) ==
    LET r == local[t].run
    IN  /\ pc[t] = "d_write"
        /\ run' = [run EXCEPT ![r] = [@ EXCEPT !.status = "DISPATCHED",
                                               !.dispatched = TRUE,
                                               !.completed = FALSE,
                                               !.started = FALSE]]
        /\ overdue' = overdue \ {r}
        /\ Goto(t, "d_call", local[t])
        /\ UNCHANGED <<disabled, locks, external, published, faults>>

\* Gitea makes its next run for the row in hand.
GitMakesRun(t, g) ==
    /\ git[g].run = None
    /\ \A h \in GitIds : git[h].run = None => g <= h
    /\ git' = [git EXCEPT ![g] = [NoGitRun EXCEPT !.run = local[t].run,
                                                  !.attempt = local[t].attempt]]

DispatchCall(t, g) ==
    /\ pc[t] = "d_call"
    /\ GitMakesRun(t, g)
    /\ Goto(t, "d_record", [local[t] EXCEPT !.git = g, !.saved = AbsentRow])
    /\ UNCHANGED <<run, disabled, locks, overdue, mail, published, faults>>

\* The call fails before Gitea acted, or Gitea acted and the answer is lost.
DispatchCallFails(t) ==
    /\ pc[t] = "d_call"
    /\ faults < MaxFaults
    /\ faults' = faults + 1
    /\ UNCHANGED git \/ \E g \in GitIds : GitMakesRun(t, g)
    /\ Goto(t, "d_restore", local[t])
    /\ UNCHANGED <<run, disabled, locks, overdue, mail, published>>

\* The error is thrown again: a loop is left with its other rows untouched.
DispatchRestore(t) ==
    LET r == local[t].run
        saved == local[t].saved
    IN  /\ pc[t] = "d_restore"
        /\ run' = [run EXCEPT ![r] = [@ EXCEPT !.status = saved.status,
                                               !.dispatched = saved.dispatched,
                                               !.completed = saved.completed,
                                               !.started = saved.started]]
        /\ overdue' = overdue \ {r}
        /\ Return(t)
        /\ UNCHANGED <<disabled, locks, external, published, faults>>

\* Takes the newest run of the repository for the answer of this call.
DispatchRecordNewest(t) ==
    /\ pc[t] = "d_record"
    /\ \E g \in GitIds :
          /\ git[g].run # None
          /\ \A h \in GitIds : git[h].run # None => h <= g
          /\ run' = [run EXCEPT ![local[t].run].gitRunId = g]
    /\ DispatchReturns(t)
    /\ UNCHANGED <<disabled, locks, overdue, external, published, faults>>

DispatchRecord(t) ==
    /\ pc[t] = "d_record"
    /\ run' = [run EXCEPT ![local[t].run].gitRunId = local[t].git]
    /\ DispatchReturns(t)
    /\ UNCHANGED <<disabled, locks, overdue, external, published, faults>>

-----------------------------------------------------------------------------
(* retryWorkflowRunIfEligible: a transaction under an advisory lock that    *)
(* only this function takes; other handlers write the row without it.       *)

RetryWithoutLock(t) ==
    LET r == local[t].run
    IN  /\ pc[t] = "r_lock"
        /\ rlock' = [rlock EXCEPT ![r] = t]
        /\ Goto(t, "r_commit", [local[t] EXCEPT !.saved = run[r]])
        /\ UNCHANGED <<run, disabled, qlock, overdue, external, published, faults>>

RetryLock(t) ==
    LET r == local[t].run
    IN  /\ pc[t] = "r_lock"
        /\ rlock[r] = None
        /\ rlock' = [rlock EXCEPT ![r] = t]
        /\ Goto(t, "r_commit", [local[t] EXCEPT !.saved = run[r]])
        /\ UNCHANGED <<run, disabled, qlock, overdue, external, published, faults>>

RetryUnlock(t) ==
    /\ pc[t] = "r_commit"
    /\ rlock' = [rlock EXCEPT ![local[t].run] = None]
    /\ UNCHANGED <<disabled, qlock, external, published, faults>>

RetrySettled(t) ==
    /\ RetryUnlock(t)
    /\ Closed(local[t].saved)
    /\ RetryRefused(t)
    /\ UNCHANGED <<run, overdue>>

RetryExhausted(t) ==
    /\ RetryUnlock(t)
    /\ ~Closed(local[t].saved)
    /\ local[t].saved.retryCount >= MaxRetries
    /\ run' = [run EXCEPT ![local[t].run].status = local[t].verdict,
                          ![local[t].run].completed = TRUE]
    /\ RetryRefused(t)
    /\ UNCHANGED overdue

RetryRequeueOnceMore(t) ==
    LET r == local[t].run
    IN  /\ RetryUnlock(t)
        /\ ~Closed(local[t].saved)
        /\ local[t].saved.retryCount <= MaxRetries
        /\ run' = [run EXCEPT ![r] = [@ EXCEPT !.status = "QUEUED",
                                               !.retryCount = run[r].retryCount + 1,
                                               !.completed = FALSE,
                                               !.started = FALSE,
                                               !.dispatched = FALSE,
                                               !.gitRunId = None]]
        /\ overdue' = overdue \ {r}
        /\ Goto(t, "d_workflow",
                [NoLocal EXCEPT !.run = r, !.todo = local[t].todo,
                                !.attempt = local[t].saved.retryCount + 1])

RetryRequeue(t) ==
    LET r == local[t].run
    IN  /\ RetryUnlock(t)
        /\ ~Closed(local[t].saved)
        /\ local[t].saved.retryCount < MaxRetries
        /\ run' = [run EXCEPT ![r] = [@ EXCEPT !.status = "QUEUED",
                                               !.retryCount = run[r].retryCount + 1,
                                               !.completed = FALSE,
                                               !.started = FALSE,
                                               !.dispatched = FALSE,
                                               !.gitRunId = None]]
        /\ overdue' = overdue \ {r}
        /\ Goto(t, "d_workflow",
                [NoLocal EXCEPT !.run = r, !.todo = local[t].todo,
                                !.attempt = local[t].saved.retryCount + 1])

-----------------------------------------------------------------------------
(* processTimedOutWorkflowRuns.                                             *)

\* Time passes: the reference time of a row gets older than the timeout.
Expire(r) ==
    /\ Watched(run[r])
    /\ overdue' = overdue \cup {r}
    /\ UNCHANGED <<run, disabled, locks, pc, local, external, published, faults>>

GuardTick(t) ==
    LET late == {r \in overdue : Watched(run[r])}
    IN  /\ DispatchEnabled
        /\ pc[t] = "idle"
        /\ late # {}
        /\ Goto(t, "loop", [NoLocal EXCEPT !.todo = late])
        /\ UNCHANGED <<run, disabled, locks, overdue, external, published, faults>>

-----------------------------------------------------------------------------
(* handleWorkflowRunEvents: a workflow_job event reaches the webhook.       *)

\* The only row with the event's gitRunId, in a status the handler expects.
Accepts(e, r) ==
    /\ {q \in Runs : run[q].gitRunId = e.git} = {r}
    /\ run[r].status \in IF e.action = "in_progress"
                         THEN {"DISPATCHED"}
                         ELSE {"INIT", "DISPATCHED", "IN_PROGRESS"}

\* No such row, several of them, or a status that makes the event moot: the
\* request is answered and the event is gone.
HookIgnore(e) ==
    /\ e \in mail
    /\ ~\E r \in Runs : Accepts(e, r)
    /\ mail' = mail \ {e}
    /\ UNCHANGED <<run, disabled, locks, overdue, pc, local, git, published, faults>>

HookInProgress(t, e, r) ==
    /\ pc[t] = "idle"
    /\ e \in mail
    /\ e.action = "in_progress"
    /\ Accepts(e, r)
    /\ mail' = mail \ {e}
    /\ Goto(t, "h_start", [NoLocal EXCEPT !.run = r])
    /\ UNCHANGED <<run, disabled, locks, overdue, git, published, faults>>

HookCompleted(t, e, r) ==
    LET verdict == Normalize(e.conclusion)
    IN  /\ pc[t] = "idle"
        /\ e \in mail
        /\ e.action = "completed"
        /\ Accepts(e, r)
        /\ mail' = mail \ {e}
        /\ Goto(t, IF verdict \in {"FAILURE", "TIMEOUT"} THEN "r_lock" ELSE "h_close",
                [NoLocal EXCEPT !.run = r, !.verdict = verdict])
        /\ UNCHANGED <<run, disabled, locks, overdue, git, published, faults>>

HookStart(t) ==
    /\ pc[t] = "h_start"
    /\ run' = [run EXCEPT ![local[t].run].status = "IN_PROGRESS",
                          ![local[t].run].started = TRUE]
    /\ Return(t)
    /\ UNCHANGED <<disabled, locks, overdue, external, published, faults>>

HookClose(t) ==
    /\ pc[t] = "h_close"
    /\ run' = [run EXCEPT ![local[t].run].status = local[t].verdict,
                          ![local[t].run].completed = TRUE]
    /\ Goto(t, "h_publish", local[t])
    /\ UNCHANGED <<disabled, locks, overdue, external, published, faults>>

\* publishAiWorkflowPhaseCompletedEvent while the AI Screening phase is open;
\* the rows it counts are those of the submission or of the whole challenge.
HookPublish(t) ==
    LET s == run[local[t].run].submission
        counted == IF IsF2F THEN RowsOf(s) ELSE {r \in Runs : Exists(r)}
        complete == \A r \in counted : run[r].status \notin InProgressStatuses
        representative == \E r \in RowsOf(s) : run[r].status \in TerminalStatuses
    IN  /\ pc[t] = "h_publish"
        /\ published' = IF complete /\ representative THEN published \cup {s} ELSE published
        /\ Return(t)
        /\ UNCHANGED <<run, disabled, locks, overdue, external, faults>>

-----------------------------------------------------------------------------
(* Around the service.                                                      *)

\* updateWorkflow with disabled = true or false.
SetDisabled(w) ==
    /\ disabled' = IF w \in disabled THEN disabled \ {w} ELSE disabled \cup {w}
    /\ UNCHANGED <<run, locks, overdue, pc, local, external, published, faults>>

GitStarts(g) ==
    /\ git[g].run # None
    /\ ~git[g].started
    /\ git[g].done = {}
    /\ git' = [git EXCEPT ![g].started = TRUE]
    /\ mail' = mail \cup {InProgress(g)}
    /\ UNCHANGED <<run, disabled, locks, overdue, pc, local, published, faults>>

GitJobEnds(g, c) ==
    /\ git[g].run # None
    /\ git[g].started \/ Normalize(c) = "CANCELLED"
    /\ c \notin git[g].done
    /\ Cardinality(git[g].done) < MaxJobs
    /\ git' = [git EXCEPT ![g].done = @ \cup {c}]
    /\ mail' = mail \cup {Completed(g, c)}
    /\ UNCHANGED <<run, disabled, locks, overdue, pc, local, published, faults>>

Sent(e) == IF e.action = "in_progress" THEN git[e.git].started
                                       ELSE e.conclusion \in git[e.git].done

\* A delivery is lost, or Gitea or an operator repeats one.
EventLost(e) ==
    /\ e \in mail
    /\ faults < MaxFaults
    /\ faults' = faults + 1
    /\ mail' = mail \ {e}
    /\ UNCHANGED <<run, disabled, locks, overdue, pc, local, git, published>>

EventRepeated(e) ==
    /\ e \notin mail
    /\ Sent(e)
    /\ faults < MaxFaults
    /\ faults' = faults + 1
    /\ mail' = mail \cup {e}
    /\ UNCHANGED <<run, disabled, locks, overdue, pc, local, git, published>>

\* The instance stops, or a database call of the task throws: what was written
\* stays, an open transaction is rolled back and its lock released.
Abort(t) ==
    /\ pc[t] # "idle"
    /\ faults < MaxFaults
    /\ faults' = faults + 1
    /\ rlock' = [r \in Runs |-> IF rlock[r] = t THEN None ELSE rlock[r]]
    /\ qlock' = [s \in Submissions |-> IF qlock[s] = t THEN None ELSE qlock[s]]
    /\ Return(t)
    /\ UNCHANGED <<run, disabled, overdue, external, published>>

-----------------------------------------------------------------------------
Events == {InProgress(g) : g \in GitIds} \cup {Completed(g, c) : g \in GitIds, c \in Conclusions}

Dispatch(t) ==
    \/ DispatchReadWorkflow(t) \/ DispatchCancel(t) \/ DispatchRead(t)
    \/ DispatchWrite(t) \/ \E g \in GitIds : DispatchCall(t, g)
    \/ DispatchRecord(t) \/ DispatchRestore(t)

Retry(t) == RetryLock(t) \/ RetrySettled(t) \/ RetryExhausted(t) \/ RetryRequeue(t)

Loop(t) == LoopEnd(t) \/ \E r \in Runs : LoopNext(t, r)

\* A task carries on with what it has begun.
Advance(t) ==
    \/ Dispatch(t) \/ Retry(t) \/ Loop(t)
    \/ QueueAlreadyQueued(t) \/ QueueLock(t) \/ QueueCreate(t)
    \/ \E r \in Runs : RetriggerCreate(t, r)
    \/ HookStart(t) \/ HookClose(t) \/ HookPublish(t)

Deliver(e) ==
    \/ HookIgnore(e)
    \/ \E t \in Hooks, r \in Runs : HookInProgress(t, e, r) \/ HookCompleted(t, e, r)

Begin ==
    \/ \E t \in Consumers, s \in Submissions : QueueRead(t, s)
    \/ \E t \in Admins, r \in Runs : RetriggerRead(t, r)
    \/ \E t \in Guards : GuardTick(t)
    \/ \E e \in Events : Deliver(e)

Fault ==
    \/ \E t \in Tasks : Abort(t) \/ DispatchCallFails(t)
    \/ \E e \in Events : EventLost(e) \/ EventRepeated(e)

Environment ==
    \/ \E r \in Runs : Expire(r)
    \/ \E w \in Switchable : SetDisabled(w)
    \/ \E g \in GitIds : GitStarts(g) \/ \E c \in Conclusions : GitJobEnds(g, c)

Next == Begin \/ (\E t \in Tasks : Advance(t)) \/ Callers \/ Environment \/ Fault

Spec == Init /\ [][Next]_vars

-----------------------------------------------------------------------------
(* Safety.                                                                  *)

\* No row is retried more often than AI_WORKFLOW_MAX_RETRIES allows, whatever
\* webhooks, guards and instances retry it at the same time.
RetryBound == \A r \in Runs : run[r].retryCount <= MaxRetries

\* Gitea is asked at most once for each attempt at a row, and only for attempts
\* the row's retryCount admits: AI runs are paid for, and two Gitea runs for
\* one attempt would report to the same row.
DispatchOnce ==
    /\ \A g \in GitIds : git[g].run # None => git[g].attempt <= run[git[g].run].retryCount
    /\ \A g, h \in GitIds : /\ git[g].run # None
                            /\ git[g].run = git[h].run
                            /\ git[g].attempt = git[h].attempt
                            => g = h

\* However often a scan-complete message is delivered, a submission gets one
\* row per workflow from the queue, also when callers post rows for it meanwhile.
QueuedOnce ==
    \A q, r \in Runs :
        /\ run[q].origin = "queue" /\ run[r].origin = "queue"
        /\ run[q].submission = run[r].submission
        /\ run[q].workflow = run[r].workflow
        => q = r

\* Rows that only the service's own handlers have written.
OfService(r) == run[r].writer = "service"

\* The gitRunId dispatchWorkflowRun writes, however late, is that of a Gitea run
\* made for this very row.  POST and PATCH store whatever id the caller names: two
\* rows share a gitRunId, and the webhook handler finds several matches, only if a
\* caller has written one of them.
GitRunIdOwned ==
    \A r \in Runs :
        OfService(r) /\ run[r].gitRunId # None => git[run[r].gitRunId].run = r

\* What the jobs of the Gitea runs made for a row have concluded.
Ends(r) == UNION {git[g].done : g \in {h \in GitIds : git[h].run = r}}

VouchedBy(ends, status) ==
    /\ status = "SUCCESS" => "success" \in ends
    /\ status = "FAILURE" =>
          \E c \in ends : c \notin {"success", "cancelled", "skipped", "timed_out"}

Vouched(r, status) == VouchedBy(Ends(r), status)

\* A row no caller has written says SUCCESS or FAILURE only if a job of a Gitea run
\* made for this row ended that way, however writes of stale handlers interleave
\* and whatever callers write into other rows.
ResultHonest == \A r \in Runs : OfService(r) => Vouched(r, run[r].status)

InHand(r) ==
    \E t \in Tasks : local[t].run = r \/ (t \in Consumers /\ r \in local[t].todo)

\* completedAt under a status that is not terminal: what is left when a late
\* in_progress handler writes over the end of the run.
Overwritten(row) == row.completed /\ row.status \notin TerminalStatuses

\* While nothing fails, a row that no caller has written and no handler has in hand
\* is closed, or the guard will find it, or a late in_progress write hides it from
\* the guard.
NoForgottenRun ==
    faults = 0 /\ DispatchEnabled =>
        \A r \in Runs : Exists(r) /\ OfService(r) =>
            Closed(run[r]) \/ Watched(run[r]) \/ InHand(r) \/ Overwritten(run[r])

-----------------------------------------------------------------------------
(* The inductive invariant behind these properties.                         *)

DispatchLabels == {"d_workflow", "d_cancel", "d_read", "d_write", "d_call"}
RunLabels == DispatchLabels \cup {"d_record", "d_restore", "r_lock", "r_commit",
                                  "h_start", "h_close", "h_publish"}

\* What a handler has in hand at each await.
HandShape(t) ==
    /\ pc[t] \in {"q_lock", "q_create"} => t \in Consumers
    /\ pc[t] = "loop" => t \in Consumers \cup Guards
    /\ pc[t] \in {"r_lock", "r_commit"} => t \in Guards \cup Hooks
    /\ pc[t] \in {"q_lock", "q_create", "a_create"} => local[t].submission \in Submissions
    /\ pc[t] \in RunLabels => local[t].run \in Runs /\ Exists(local[t].run)
    /\ \A r \in local[t].todo : Exists(r)
    /\ pc[t] \in {"d_write", "d_call", "d_restore"} => local[t].saved.status # "ABSENT"
    /\ pc[t] \in {"r_lock", "r_commit", "h_close"} => local[t].verdict \in TerminalStatuses

Shape ==
    /\ \A r \in Runs : IF Exists(r)
                      THEN run[r].workflow \in Workflows /\ run[r].submission \in Submissions
                      ELSE run[r] = AbsentRow
    /\ \A t \in Tasks : HandShape(t)

\* A lock belongs to the one task inside the transaction.
LockHeld ==
    \A t \in Tasks :
        /\ \A r \in Runs : rlock[r] = t <=> pc[t] = "r_commit" /\ local[t].run = r
        /\ \A s \in Submissions : qlock[s] = t <=> pc[t] = "q_create" /\ local[t].submission = s

\* What was read under a lock still holds when the transaction writes, although
\* other handlers write the row meanwhile.
ReadStable ==
    \A t \in Tasks :
        /\ pc[t] = "r_commit" => local[t].saved.retryCount = run[local[t].run].retryCount
        /\ pc[t] = "q_create" => \A r \in RowsOf(local[t].submission) : run[r].origin # "queue"
        /\ pc[t] = "a_create" => RowsOf(local[t].submission) # {}

\* The right to ask Gitea for attempt k at row r: with the handler that dispatches
\* it, or with the consumer that has yet to come to the row.
Holds(t, r, k) ==
    \/ pc[t] \in DispatchLabels /\ local[t].run = r /\ local[t].attempt = k
    \/ t \in Consumers /\ r \in local[t].todo /\ k = 0

Spent(r, k) == \E g \in GitIds : git[g].run = r /\ git[g].attempt = k

Ledger ==
    /\ \A t \in Tasks, r \in Runs : \A k \in 0..MaxRetries :
          Holds(t, r, k) =>
            /\ k <= run[r].retryCount
            /\ ~Spent(r, k)
            /\ \A u \in Tasks \ {t} : ~Holds(u, r, k)
    /\ \A t \in Tasks : pc[t] \in DispatchLabels => local[t].attempt <= MaxRetries
    /\ \A t \in Consumers : pc[t] \in DispatchLabels => local[t].run \notin local[t].todo

RecordOwned ==
    /\ \A t \in Tasks : pc[t] = "d_record" =>
          local[t].git \in GitIds /\ git[local[t].git].run = local[t].run
    /\ \A g \in GitIds : git[g].run # None => Exists(git[g].run)

\* Events, handlers and the service's rows only say what a job of the row's own
\* runs concluded.
Provenance ==
    /\ ResultHonest
    /\ \A g \in GitIds : git[g].run = None => git[g].done = {}
    /\ \A e \in mail : e.action = "completed" => e.conclusion \in git[e.git].done
    /\ \A t \in Tasks :
          /\ pc[t] \in {"r_lock", "r_commit", "h_close"} /\ OfService(local[t].run) =>
                Vouched(local[t].run, local[t].verdict)
          /\ pc[t] \in {"d_write", "d_call", "d_restore"} /\ OfService(local[t].run) =>
                Vouched(local[t].run, local[t].saved.status)

Core ==
    /\ Shape /\ LockHeld /\ ReadStable /\ Ledger /\ RecordOwned
    /\ RetryBound /\ QueuedOnce /\ DispatchOnce /\ GitRunIdOwned

IInv == Core /\ Provenance

\* The abstract promise, read off the table and off Gitea.
Asked(r) == {git[g].attempt : g \in {h \in GitIds : git[h].run = r}}

Budget == INSTANCE RunBudget WITH tries <- [r \in Runs |-> run[r].retryCount],
                                  asked <- [r \in Runs |-> Asked(r)]

\* The handlers implement the retry budget: every step of every interleaving is
\* a grant, a request of an attempt not asked for before, or neither.
BudgetKept == Budget!Spec

-----------------------------------------------------------------------------
(* Liveness.                                                                *)

\* What the service itself and the clock do: a handler goes on after an await,
\* the interval fires, time passes.
ServiceFairness ==
    /\ \A t \in Tasks : WF_vars(Advance(t))
    /\ WF_vars(\E t \in Guards : GuardTick(t))
    /\ \A r \in Runs : WF_vars(Expire(r))

GuardedSpec == Spec /\ ServiceFairness

\* With the guard alone, whatever becomes of Gitea's runs and events, every row
\* that callers leave alone gets a completedAt in the end and keeps it: none waits
\* or retries forever.
EveryRunCompletes ==
    \A r \in Runs : Exists(r) ~> ([](run[r].completed) \/ ~OfService(r))

=============================================================================
