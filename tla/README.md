# A TLA+ model of review-api-v6

`review-api-v6` is Topcoder's review service: a NestJS application over one
PostgreSQL database (schema `review`, reached through Prisma), which several
instances run at the same time. It queues AI review workflows on Gitea, turns
their results into decisions about submissions, keeps submissions, reviews, appeals
and review summations, and consumes and publishes Kafka messages. This directory
models the parts of it in which the order of steps, or the agreement of rules
written in several places, matters; it checks them with TLC on small instances,
and proves the main results about the core with TLAPS.

Paths below are relative to the root of the repository. `PROJECT.json` maps every
definition to the lines it models and lists the hazards behind the properties.

## 1. Inventory

### What runs at the same time

The code is JavaScript: a handler runs from one `await` to the next without
interruption, and at each `await` any other handler of this instance, or any
handler of another instance, may run. So the unit of every model is the code
between two awaits that touch shared state: the database, Gitea, Kafka, the event
bus. Handlers are started by

- Kafka messages (`kafka-consumer.service.ts`), one at a time per partition while
  the consumer group is stable;
- HTTP requests: users, and Gitea's webhooks, any number at the same time;
- timers: the timeout guard of AI runs and the cron that retries virus scans;
  neither waits for other instances, and the guard does not wait for its own
  earlier firing.

Beside the service there is `src/prisma/migrate.ts`, a script that imports the legacy
export and keeps its memory in files.

The database is the only state shared by instances. Transactions are few: the
retry of a run and the queueing of runs, each under an advisory lock; and writes
that belong together, such as an escalation with its decision, an item of a run
with the run's score, a batch of summations. The checks that come before a write
are, but for the two locked ones, outside of its transaction.

### Components

| Component | State it keeps | Operations | Talks to | What makes it correct |
|---|---|---|---|---|
| AI workflow queue (`src/shared/modules/global/workflow-queue.handler.ts`, `submission-scan-complete.orchestrator.ts`) | rows of `aiWorkflowRun`; two kinds of advisory lock | queue, dispatch, retry, time out, take webhook events, publish completion | Gitea, event bus, AI decision maker, submissions | one row per workflow and scan; a paid attempt is asked for once and at most `AI_WORKFLOW_MAX_RETRIES` more times; results are of the row's own runs; every row is completed in the end |
| AI workflow administration (`src/api/ai-workflow/ai-workflow.service.ts`) | `aiWorkflow`, run items, comments, votes, scores | retrigger, enable/disable, post and patch a run (`POST`, `PATCH` under `/:workflowId/runs`), post and edit items, vote | queue, decision maker | a retrigger is a row of its own; a caller's rows do not confuse the service's; the run's score is that of its items; first scores are kept; a vote stands |
| Webhook endpoint (`src/api/webhook/`) | `gitWebhookLog` | log and hand over a `workflow_job` event | queue | an event is handed over once per delivery |
| Kafka consumer (`src/shared/modules/kafka/kafka-consumer.service.ts`) | the stream and its loop, the state of the consumer, retry counts | consume, retry, bury, commit, reconnect, shut down | Kafka, handlers | at-least-once; a poison message does not block; one loop per instance; it consumes or says that it does not |
| Scan-complete handler (`kafka/handlers/submission-scan-complete.handler.ts`) | `submission.virusScan`, `url`, `eventRaised` | handle a scan | queue, submissions, event bus | a handled scan has had all its effects, however often it was tried; the event is not repeated without need |
| AI decision maker (`ai-reviewer-decision-maker.service.ts`) | `aiReviewDecision` | evaluate a submission, mark an error | runs, configs | the decision is that of the latest runs; only a deserved pass passes |
| Escalations (`src/api/ai-review-escalation/`) | `aiReviewDecisionEscalation`, the decision | unlock, request, approve, reject | decision maker, submissions | an unlocked submission is reviewed as if it had passed; one reaction per request |
| Submissions (`src/api/submission/submission.service.ts`) | `submission`, pending `review` rows, the counters of the challenge | create, upload by hand or for validation, update, delete, list, download; create pending reviews behind the AI gate | resources, challenges, S3, event bus | counters are the numbers of submissions; no human review before the AI lets the submission pass; lists and files agree on who sees what |
| Virus-scan retry (`submission-virus-scan-retry.service.ts`) | a flag per instance | ask again for the scan of stale submissions | S3, event bus | no submission waits for ever behind others |
| Human reviews (`src/api/review/review.service.ts`) | `review`, items, comments, scores, status, `reviewAudit` | create, edit, complete, reopen, delete; list and read | resources, event bus, scorecards | a review's scores are those of its items; a completion is announced; reviewers do not see each other's scores |
| Appeals (`src/api/appeal/appeal.service.ts`, a trigger) | `appeal`, `appealResponse`, `review_pending_summary` | create, edit, answer, delete, by phase | reviews | one answer per appeal, of the text that was answered; the pending count is right |
| Review summations (`src/api/review-summation/`) | `reviewSummation` | generate initial and final, make and edit by hand | reviews, challenges | one per submission; the average of the reviews read |
| Opportunities and applications (`src/api/review-opportunity/`, `review-application/`) | `reviewOpportunity`, `reviewApplication` | open, apply, approve, reject | resource database, event bus, mail | an approved reviewer has one resource and autopilot knows |
| AI review configs, templates (`src/api/ai-review-config/`, `ai-review-template/`) | configs, templates, default reviewers | create, edit, disable, delete | submissions, workflows | no change under queued runs; weights are whole; no disabled default |
| Scorecards, scores (`src/api/scorecard/`, `scorecard-score.util.ts`) | `scorecard` tree | create, edit, clone; score from items | | the score formula |
| Challenge (`src/shared/modules/global/challenge.service.ts`, `challenge-whitelist.service.ts`) | none here: phases and whitelist of the challenge database | read phases, whitelist | | one reading of "open" |
| Legacy import (`src/prisma/migrate.ts`) | files of maps from legacy to new ids | full and incremental import | export files, database | a record has one row however often it is imported |
| My reviews, project results, contact requests, review types, history, challenge context | tables of their own | queries, plain writes | | |
| Clients and infrastructure (resource, member, event bus, tokens, Prisma, Gitea client, guards, health) | caches of tokens | calls | other services | |

### Hard behaviours

- **Interleaving at awaits.** A webhook, the guard and a dispatch in progress write
  the same run row; two evaluations write one decision; two edits make one score;
  two administrators approve one member. Only retries and queueing take a lock, and
  the lock excludes only others that take it.
- **Writers from outside.** Callers of the API post and patch AI runs, with a status,
  dates and a `gitRunId` of their choice, over whatever the handlers do with the row.
- **Stale reads.** Almost every handler checks a row or a phase, awaits, and writes
  without a condition.
- **Two systems, no transaction.** A row is written, then Gitea, Kafka or another
  database is called; either may fail, or the process may stop, or the answer may
  be lost.
- **At-least-once delivery.** Messages come again after a crash or a rebalance, and
  a handler that throws is run again from its start on what it has left.
- **Timeouts racing answers.** The guard times a row out while its webhook, or its
  dispatch, is on its way; a stream error, a failed start and a shutdown come
  together.
- **One rule written several times.** Who sees a review is decided by the review
  list, the review by id, two submission lists, the submission by id, three
  downloads and three AI services; the latest submission by three queries; the
  reviews of a submission by two services.
- **Liveness.** Rows that no timer selects any more, decisions that no event
  evaluates, files nobody scans, a consumer that no longer consumes.

## 2. Modules

| Module | Models | Uses |
|---|---|---|
| `WorkflowQueue` | the life of `aiWorkflowRun` rows, with Gitea around them | `RunBudget` |
| `RunBudget` | the abstract promise of the retry policy | |
| `WorkflowQueueInvariant`, `WorkflowQueueTheorems` | types and the inductive invariant; what follows | `WorkflowQueue` |
| `KafkaDelivery` | one partition: receive, handle, retry, bury, commit | |
| `KafkaConnection` | the stream of one instance, its loop, reconnects and shutdown | |
| `ScanComplete` | the scan-complete handler in the place of "the handler" of `KafkaDelivery` | `KafkaDelivery` |
| `KafkaDeliveryProofs` | theorems about delivery, its handler and the connection | `ScanComplete`, `KafkaConnection` |
| `AiDecision` | evaluations, the gate of human reviews, escalations, of one submission | |
| `AiDecisionProofs` | theorems about it | `AiDecision` |
| `ChallengePhases` | phases, status and whitelist of a challenge (moved by others) and how the code reads them | |
| `Reviews` | one human review, from creation to completion, reopening, deletion | `ChallengePhases` |
| `Appeals` | its appeals and responses, the cascade from its items, the trigger | `Reviews` |
| `ReviewVisibility` | who sees which review in the lists and by id | `ChallengePhases` |
| `SubmissionVisibility` | who sees, and may fetch, what of a submission | `ReviewVisibility` |
| `AiVisibility` | who sees runs, decisions, escalations, configs | `SubmissionVisibility` |
| `Submissions` | creation, upload, type change, deletion, counters, the scan retry | `ChallengePhases` |
| `Summations` | generated and hand-made summations, in the same database | `Submissions` |
| `Applications` | applications, the reviewer's resource, the event, the mail | |
| `AiConfigs` | config, templates, default reviewers, the disabling of workflows | |
| `RunItems` | items of an AI run, its score, votes | |
| `LegacyImport` | `migrate.ts`: its kinds of records, batches, maps | |
| `ReviewAdmission` | which submissions reviews are taken for; which one is the latest | |
| `PendingReviews` | the reviews made by a pass of the AI gate and by an unlock | |
| `ReviewRoundProofs` | theorems about the review round and the three visibilities | `Appeals`, `AiVisibility` |
| `SubmissionsProofs` | theorems about submissions and summations | `Summations`, `SetSums` |
| `OfficeProofs` | theorems about the six modules above | all six, `SetSums` |
| `SetSums` | lemmas: what a sum over a finite set is, for any set | |
| `MC*` | finite instances, symmetry and compositions for TLC | |

Constants are the environment variables and sizes of the system; a constant whose
comment says *bound* exists for TLC only, and no theorem depends on its value.
Auxiliary variables (so named in their comments) record history that properties
speak of; no guard reads them.

### WorkflowQueue

`run` is the table; a row keeps its status and whether `completedAt`, `startedAt`
and `lastDispatchedAt` are null, which is all the code asks of them. Time appears
as `overdue`, the rows whose reference time is older than the timeout: `Expire`
puts a row in at any moment it is watched, and the writes that renew the
reference time take it out. `pc` and `local` are the position and the local
variables of each handler; `local[t].saved` is a row as it was read, which may be
stale. `rlock` and `qlock` are the advisory locks, released by commit or rollback.

| Actions | Code |
|---|---|
| `QueueRead`, `QueueAlreadyQueued`, `QueueLock`, `QueueCreate`, `LoopNext`, `LoopEnd` | `orchestrateScanComplete`, `queueWorkflowRuns` |
| `DispatchReadWorkflow`, `DispatchCancel`, `DispatchRead`, `DispatchWrite`, `DispatchCall`, `DispatchCallFails`, `DispatchRestore`, `DispatchRecord` | `dispatchWorkflowRun` and `runDispatchWorkflow`, one action per await |
| `RetryLock`, `RetrySettled`, `RetryExhausted`, `RetryRequeue` | `retryWorkflowRunIfEligible` |
| `GuardTick`, `Expire` | `processTimedOutWorkflowRuns` |
| `HookIgnore`, `HookInProgress`, `HookCompleted`, `HookStart`, `HookClose`, `HookPublish` | `handleWorkflowRunEvents`, `publishAiWorkflowPhaseCompletedEvent` |
| `RetriggerRead`, `RetriggerCreate`, `SetDisabled` | `retriggerWorkflowRun`, `updateWorkflow` |
| `CreateWorkflowRun`, `UpdateWorkflowRun` | `createWorkflowRun` and `updateWorkflowRun` (POST and PATCH of runs): a caller sets status, dates and `gitRunId`, at any moment |
| `GitMakesRun`, `GitStarts`, `GitJobEnds`, `EventLost`, `EventRepeated`, `Abort` | external: Gitea, its deliveries, a process that stops |

`Bodies` is what callers may send. A row says by `writer` whether one of them has
written it: what a caller stores there is no promise of the service, so the properties
about a row's own history speak of rows that only handlers have written, while callers
write the others. Everything else (`QueuedOnce`, `DispatchOnce`, `BudgetKept`) holds of
every row.

Two choices deserve a word. The lock transaction reads under the lock
(`RetryLock`) and writes at commit (`RetryRequeue`, ...) in two steps, because
handlers that do not take the lock may write in between. And `DispatchCallFails`
covers the lost answer: Gitea may have made its run although the call failed.

Left out: the completion e-mail, log and message texts, and the evaluation that
follows `HookClose`, which is `AiDecision`.

### KafkaDelivery, KafkaConnection and ScanComplete

`KafkaDelivery` follows a message through `processMessage`, `handleFailedMessage`,
`sendToDLQ` and `commitMessage`; what the handler does is either return or throw.
`DlqInstances` are the instances started with `KAFKA_DLQ_ENABLED`. The
broker is external: it remembers an offset, hands the partition to one instance at
a time (`Assign`, `Rebalance`), and an instance that has lost it may still process
what it had fetched (`next` and `current` stay), but its commit is refused.
`MaxRetries` is `maxRetries || 3`, so a configured 0 counts as 3.

`KafkaConnection` is the rest of the service, for one instance: `Bootstrap` and
`BootstrapFails` (`onApplicationBootstrap`), `StreamFails` (external), `OnError` and
`LoopEnds` (the listener and the loop, which both report the failure through
`HandleKafkaFailure`), the reconnection task `TaskCloses`, `TaskAwaitsLoop`,
`TaskStarts`, `TaskFailsToStart`, `TaskTriesAgain` (`performReconnect`, which closes
what is left, starts anew, and waits longer after each failure), and
`onModuleDestroy` as `Destroy`, `DestroyAwaitsTask`, `DestroyCloses`,
`DestroyAwaitsLoop`. Each start makes a new stream with a loop of its own;
`consumerLoop` is the one the service remembers, and `leaked` says that it has
forgotten one because closing its stream threw. Delays have no length.

`ScanComplete` replaces the handler by the awaits of `handle`: `UpdateUrl`,
`Queue`, `Dispatch`, `Reviews`, `Publish`, `Mark`, each able to fail as its code
lets it fail: `CallFails` throws into the retry of `KafkaDelivery`, `ReviewsFail` and
`MarkFails` are swallowed. `setup` is the switch of the service and the kind of
the challenge; it is chosen in the initial state and never changes. Queueing is
one step here, in detail it is `WorkflowQueue`; `AiPasses` stands for `AiDecision`.

### AiDecision

`run` holds the runs of each workflow with what `buildDecisionContext` orders and
weighs: status, score, `startedAt`, `completedAt` (0 for null). Times are ranks
among the events of one workflow. `evaluateSubmission` is `EvalRead`, `EvalUpsert`,
`EvalWrite`; `ensurePendingReviewsForSubmission` is `Gate`, `CreateReviews`; the
escalation service is `CreateRead` ... `Unlock` or `Request`, and `UpdateRead` then
`Approve` or `Reject`. Two runs that tie in the order are a nondeterministic
choice, as in SQL. `Remember` records, beside every step, whether the runs
deserve a pass; it is stated from the config (`Deserved`), not from the code's
`Verdict`, so that the two are compared.

Assumed: the submission exists and its review phase is open with a reviewer; one
config, which does not change (`AiConfigs` has the changes); scores are whole
numbers, for which `roundTo2` of the weighted total is exact, so the total is
compared in hundredths.

### ChallengePhases, Reviews and Appeals

`ChallengePhases` is what `ChallengeApiService` reads: status, whitelist and, for
every phase, whether it is flagged open, has an actual start and end, and whether
now lies in its schedule. `StartPhase`, `EndPhase`, `Schedule`, `EndChallenge` and
`Bar` are external (the challenge platform). `IsPhaseOpen` is the code's reading,
which takes the schedule for an answer when no actual dates say otherwise;
`PhaseCompleted` and `PhaseWindowOpen` are the readings of other services.

`Reviews` has one review. A call is one of six kinds and goes from await to await:

| Actions | Code |
|---|---|
| `CreateWrite`, `PersistScore` | `createReview`, as far as one review goes (who, status, items), and the score it stores after the insert |
| `UpdateRead`, `UpdateCheck`, `UpdateWrite` | `updateReview`: the row it compares with is the one it has read |
| `ItemRead`, `ItemWrite`, `WriteFails` | `createReviewItemComments`, `updateReviewItem`, `deleteReviewItem` |
| `RecomputeRead`, `RecomputeItems`, `RecomputeWrite` | `recomputeAndUpdateReviewScores`, two reads and a write |
| `Announce`, `Audit` | `publishReviewCompletedEvent`, `recordReviewAuditEntry` |
| `Delete` | `deleteReview` |

Abstracted: a review has one score (the initial and the final ones are computed side
by side), an item one answer and one comment; items and comments are known by the
question and the call that made them, because appeals hang on the comment row and go
when an edit replaces it. No key keeps a second item from a question: then the score is
that of whichever is read last (`Picks`, `Totals`), and the audit compares one item of
each question (`Disagree`). An edit of an item keeps its question. Whether a review is
completed, and what an audit row says, goes by the row as written against the one read
before (`Completes`, `Differs`).

`Appeals` adds the calls of `AppealService`: `AppealRead` (existence and role),
`PhaseCheck`, `ChallengeCheck`, then one of `CreateAppeal`, `UpdateAppeal`,
`DeleteAppeal`, `CreateAppealResponse`, `UpdateAppealResponse`; `PublishResponded`
follows the response. `Cascade` deletes the appeals of a comment with every
step of `Reviews` that deletes the comment, and `Triggers` is the database trigger
that keeps `review_pending_summary`. `responding` remembers that the response phase has
been open, by its flag or by its schedule, and `mixed` that appeals were open with it or
after it.

### ReviewVisibility, SubmissionVisibility, AiVisibility

These three have no steps of their own: the challenge moves, and operators say who
sees what at each moment, one operator per place in the code that decides it.
`ReviewVisibility`: the list of one challenge (`Listed`, `ScoreListed`), the list of
all challenges (`ListedAcross`), appeals (`AppealsListed`, `AppealsAmongAll`), and the
review by id (`Readable`, `ItemsReadable`). `SubmissionVisibility`: scores of reviews
in submissions (`ScoreInSubmission`), the URL in the list and by id, the download, the
zip of all files and the names in it, artifacts (listed, fetched, stored, deleted),
members' e-mails, and who may search summations. `AiVisibility`: runs, decisions,
escalations and configs, in lists and by id. A user is a set of roles in the
challenge; which scorecards a submitter has passed is given.

### Submissions and Summations

`Submissions` numbers submissions in order of creation. A creation is `CreateCheck`,
`Insert`, `AskScan`, `Count`, `AnnounceCreated` (`createSubmission` with its helper
calls); `UploadValidation` is the upload that is not counted; `ChangeKind` is
`updateSubmission`; a deletion is `DeleteRead` (checks), `Purge` (the AI runs that are
not active), `DeleteRow`, `Discount`. `counter` is the pair of counters in the
challenge database, decremented with `GREATEST(.., 0)`. The scan retry is `StartPass`,
`RetryNext`, `EndPass` over the oldest `Batch` candidates. `ScanAnswers`, `ScanLost`,
`StartRunOf`, `EndRunOf`, `Age` are external to it.

`Summations` puts the generation beside them: `GenerateStart` (phase checks),
`GenerateRead`, `GenerateWrite` (one transaction) or `GenerateFails`; by hand
`CreateSummation`, `UpdateSummation`, `DeleteSummation`; `Score` is a review that is
committed or changed. Deleting a submission deletes its summations (`CascadeSums`). The
reads of a generation are one step, scores are in hundredths, the average is rounded to
the nearest of them, and `lastRow` numbers rows so that a row and one made in its place
differ.

### Applications, AiConfigs, RunItems

`Applications` is one challenge. `Apply` is a plain insert behind a unique key.
An approval goes through `ApproveStart`, `Look` (is there a resource), `Make`,
`Publish`, `SetApproved`, `Mail`, and `ApproveFails` may end it at any of them, with
the effect of the call done or not; `Reject`, and `RejectAllRead` then `Sweep`.
`Reconfigure` is the challenge's reviewer configuration, which turns regular reviews
into iterative ones.

`AiConfigs` has the config calls (`CreateCheck`, `ReadTemplate`, `CheckWorkflows`,
`InsertConfig`, `Fill`; `UpdateCheck`/`DeleteCheck` to `WriteConfig` or
`WriteRefused`), those of templates (`TemplateCheck`, `InsertTemplate`,
`FillTemplate`, `EditCheck`, `EditWrite`, `DropDefaults`, `DeleteTemplate`; a template may
be made disabled, and an update may ask for none, `Unlinked`) and the
disabling of a workflow, which disables what uses it (`DisableCheck`,
`DisableWorkflow`). `Submit`, `QueueRead`, `QueueWrite`, `Judge`, `Complete` stand for
the first submission, its queueing, decision and the end of the challenge. All
versions of a config are 1, because the code never makes a second; weights are in
thousandths of a percent and the column keeps hundredths (`Kept`).

`RunItems` is one AI run: `PostItems` and `PostScore` by the machine; an edit is
`Begin`, `CheckPhase`, `ComputeTotal` (from items read before), `Write` (one
transaction for item and run); a vote is `Unvote` then `CastVote`. Two reads of
an edit, of the run and of the item, are one step. Items answer one question each.

### LegacyImport, ReviewAdmission, PendingReviews

`LegacyImport` follows a run of `migrate.ts` kind by kind in its order (`Order`): it
converts (`Convert`, with what must be mapped before), writes a batch (`InsertAll`)
or, when that fails, each record by itself (`InsertSingly`), or upserts what changed
(`Upsert`), reads the Elasticsearch export (`ImportEs`), and writes its maps when it
ends well (`Finish`); `Down` and `Crash` end it otherwise. `Importer` says how the kinds
differ: sixteen kinds, each imported by code of the same shape with exceptions of its
own. A record is its kind and a number. `FitsAmong` are the keys a write must meet: its
id, a unique name, the foreign keys, and for reviews, appeals and responses the unique
key of all they refer to (`sole`). A single insert, like a batch, may be done and its
answer lost.

`ReviewAdmission` relates what `createReview` refuses (`RefusedAsOld`) with what
`SubmissionService` shows as latest (`MayBeFlagged`, `ListedAsLatest`, `FlagShown`);
`HandIn`, `Amend`, `Remove` and `OpenNext` move the submissions, their dates and the
phases. A clock gives dates.

`PendingReviews` compares the rows of `ensurePendingReviewsForSubmission`
(`EnsuredRows`) with those of an unlock (`OverrideRows`), each read at one moment
(`EnsureRead`, `UnlockRead`) and inserted at a later one (`EnsureInsert`,
`UnlockCommit`). `UnlockRead` is guard, phases, assignees and existing rows at once.
Assumed: a resource made for a phase has the role of that phase.

### Compositions

`MCKafkaDelivery` runs `KafkaDelivery` and `KafkaConnection` under one
specification, and `MCOffice` the six modules of the last two sections. Their
parts share no variable; `part`, chosen in the initial state, says which one
moves, so that a run is one of the parts and not their product. Compositions
with shared state are the `EXTENDS` chains: `Appeals` with `Reviews` and
`ChallengePhases`, `Summations` with `Submissions` and `ChallengePhases`,
`ScanComplete` with `KafkaDelivery`.

## 3. What TLC checks

A run that must pass shows that its properties hold in every state of its instance;
for each of its properties `PROJECT.json` names a plausible bug in the code
(a *mutant*, an operator next to the definition it changes) that TLC finds with it.

| Run | Instance | Shows |
|---|---|---|
| `WQRaces` | 1 row, 1 consumer, 1 guard, 1 webhook task, 1 retry, 1 fault | `DispatchOnce`, `ResultHonest`, `NoForgottenRun`; the handlers implement `RunBudget` (`BudgetKept`, a refinement) |
| `WQQueue` | 2 consumers, 1 administrator, 1 webhook task, callers who write 1 row, 1 workflow, 2 rows | `QueuedOnce`, `GitRunIdOwned` |
| `WQGuardAlone` | 1 row, whose workflow is disabled and enabled, the guard and Gitea's events, of which only the guard is fair | `EveryRunCompletes` |
| `KDelivery` | 2 instances, one without a dead letter queue, 3 messages, 1 retry, 2 faults; one instance with 2 attempts to reconnect, 3 troubles and 2 tasks | `NothingSkipped`, `GivenUpAfterRetries`, `EveryMessageSettled`; `OneLoop`, `ConsumesOrAdmits` |
| `SCScan` | 2 instances, 2 messages about one submission with every result, all 16 setups, 1 fault and 1 failing call | `HandledMeansDone`, `EventRepeatsAreFaults`, `ShortTroubleSurvived` |
| `ADGate` | 1 gating workflow with one run, a webhook, an edit or a late score, a scan, an unlock, a request, an update, 1 mishap | `GateKept`, `PassedOnMerit` |
| `ADLatest` | 2 workflows, one retriggered, 1 webhook task | `DecisionCurrent`, `RetriggerSupersedes`, `DecidedInTheEnd` |
| `RRound` | a review of one question and its appeals in 3 phases of which the last two may be open by schedule while an earlier one overruns; 2 calls on the review and 2 on appeals, 10 requests, 1 mishap; 6 starts | `ScoreFollowsItems`, `EffectsFollow`, `AnsweredTextStands` |
| `VViews` | 12 users, in every role but those of project manager and administrator (who sees what a machine sees), one of whom competes and manages, 5 layouts of 5 phases (challenge, checkpoint, first2finish, marathon, task), one member removed from the whitelist | `ReviewersApart`, `ListedIsReadable`, `SubmissionShowsNoMore`, `AiListedIsReadable` |
| `SMSubmissions` | 2 submissions of 2 kinds, 2 calls, a batch of 1, 2 generations, 2 reviewers, scores whose average has no exact hundredth; 7 starts | `CountersFollow`, `ActiveRunsStay`, `OneSummationEach`, `SummationFollowsReviews`, `StaleIsScanned` |
| `Office` | six parts, each with starts of its own | `DecisionsFollow`, `OneResourceEach` (applications); `ConfigsServe` (configs); `EditsHold` (items); `OneRowEach`, `FullRunMakesWhole` (import); `RefusedIsShown` (admission); `UnlockedIsReviewed` (pending) |
| `RRPending` | one appeal | **violated**: `PendingFollowsAppeals` |

Four of these are conjunctions of named parts: `EffectsFollow` is
`CompletionAnnounced`, `ManagersAudited` and `RespondedOnce`; `DecisionsFollow` is
`ApprovedIsAnnounced` and `MailTellsStatus`; `ConfigsServe` is `AwaitedIsQueued`,
`WeightsWhole` and `DefaultsUsable`; `EditsHold` is `RunScoreFollowsItems`,
`FirstScoresKept` and `VoteStands`.

Many properties have an *unless*: unless calls met, unless one failed. It is always
stated with a history variable that records exactly that, and only that, event; the
properties then say that nothing else breaks the promise, and the exception is
itself a statement about the code, which has no lock there.

### Why the bounds are enough

- *Rows.* Handlers of the queue touch one row at a time and share between rows only
  the lock of a submission and Gitea's counter. So races on a row need one row
  (`WQRaces`), and confusion between rows needs two that are in dispatch at the same
  time (`WQQueue`: one queued and one retriggered or posted, or two queued if the lock
  failed; Gitea makes two runs there). A loop over several rows of one message is in the
  theorems only, which take any number of workflows.
- *Callers.* In `WQQueue` a body takes over the first Gitea run and is posted or patched
  into one row (`MaxByCaller`), at any moment; `WQRaces` and `WQGuardAlone` have no
  callers. The theorems take any bodies and any number of rows written.
- *Retries.* One retry reaches both sides of the limit; the theorems cover any
  maximum, 0 included. `GitIds` has one more than attempts can be granted, so that
  `DispatchOnce` could fail.
- *Faults.* One fault (two or three in `KDelivery`) at any await, with everything
  after it explored; the theorems take any number.
- *Gitea.* `MaxJobs = 1`: one conclusion per Gitea run; a repeated delivery or a
  second Gitea run of the row brings a second event to it.
- *Decision.* In `ADGate` one workflow decides, with a score (55) that reaches the
  threshold and misses the minimum; its one run ends once, so a stale verdict is that
  of the webhook against the scorer's PATCH, an edit, the scan or an escalation.
  `ADLatest` has two runs of one workflow and `MaxTime = 4`, enough
  for both starts and both ends in every order.
- *Kafka.* Three messages allow an overtaking instance to be two messages ahead of
  a stale one. For the connection, three troubles are a stream that fails, a close
  that throws and a start that fails, in any order; two tasks are one more than may
  run.
- *Review round.* Two calls interleave at every await. `Starts` begins where a long
  history would have led (a review to be made, without items, completed, under
  appeal), so that two calls reach each case. Three appeal calls are an appeal, its
  answer and a change of either; with `Overrun` of both phases an appeal may be raised
  and answered by schedule alone while reviews overrun, and changed in its own phase.
- *Views.* No state but the challenge, so every user and every phase fits. A layout
  has each phase that its rules name; phase 2 may be open with phase 1, phase 4
  before phase 3 ends.
- *Submissions.* A batch of 1 with 2 stale files has a submission wait behind
  another. Each start gives its budget to one conversation: creations with
  deletions, a deletion with a type change, a deletion with AI runs, the scans, the
  generations, hand-made rows with a deletion.
- *Office.* Three decisions on two applications of one member with one failure have
  an approval fail and be repeated while the other runs; two config calls, or one
  with two of templates, and one break; two edits, or an edit and a vote, or two
  votes, and what the machine posts; two full imports with two faults, or an
  incremental one between or after; three ticks of the clock and two submissions,
  with every reading of the limit; two unlocks and a pass.

`CHECK_DEADLOCK FALSE` is set where the system may come to rest: all messages
handled, all requests answered, all budgets spent. `WorkflowQueue` keeps deadlock
checking: a scan-complete message may always come again, and must find a task to
take it.

### Fairness

- `WorkflowQueue!ServiceFairness`: a handler goes on after an await, the interval
  fires, time passes. That is what the event loop and `setInterval` give while the
  process lives (no faults in this run). Gitea is *not* fair in `WQGuardAlone`:
  the guard must do without it.
- `MCKafkaDelivery!KafkaSpec`: the group assigns a free partition, an instance goes on
  with its message, and a handler ends in one way or the other; nothing says that it
  ever succeeds. Listeners, loops, timers and calls of the Kafka client come to an
  end. A stream need not fail, a message need not come, a shutdown need not begin.
- `ScanComplete!ScanFairness`: the handler's calls end. Failures are bounded by
  `MaxMishaps`, which is the premise of `ShortTroubleSurvived`.
- `AiDecision!FairSpec`: a request being handled goes on. Webhooks' arrival is not
  fair: `DecidedInTheEnd` speaks of runs that have ended.
- `MCSubmissions!Spec`: the cron fires again and a pass goes on; the scanner answers a
  request or its answer is lost, and losses are bounded (`mishaps`), the premise of
  `StaleIsScanned`.

### A disagreement found

`RRPending` (a `finding`): `review_pending_summary` counts, for the resource of a
reviewer, the appeals without an answer. Its trigger on `appeal`
(`src/prisma/migrations/20251102001629_add_review_pending_summary/migration.sql:81`)
recomputes the row of the resource that *appeals*, so a new, or withdrawn, appeal
leaves the reviewer's count as it was.

### What else the models show of the code

These have no run of their own: they are exceptions in a property, choices of an
action, or were met while reading. A maintainer may want to decide each.

*Queue and decisions.* The guard that ends the last open row publishes no
phase-completed event and causes no evaluation, though the webhook does both
(`workflow-queue.handler.ts:904`). With dispatch switched off, a challenge with an AI
config gets no reviews: the gate in `ensurePendingReviewsForSubmission` does not look
at the switch, while `docs/MANUAL_UPLOAD_FLOW.md:218` sends such uploads straight to
reviews. An evaluation that read an open run may write PENDING over a later final
decision; an evaluation after an approved escalation locks the submission again; a
rejection may be written over an approval, and two unlocks or two requests of one
reviewer may both be stored. An edit of a score that makes the decision PASSED creates
no pending reviews, unlike the webhook. A call to Gitea that fails may leave its row
where no timer selects it. A row a caller has posted makes the queue take the submission
for queued (`hasQueuedWorkflowRuns` asks for any row); a PATCH may give a row the
`gitRunId` of another, after which the webhook ignores the events of both, or write over
an end.

*Kafka.* A configured maximum of 0 retries gives 3. An error when closing a stream is
swallowed and leaves its loop running beside the next one (`leaked`). A stream that
ends without an error is not noticed. Shutdown hooks are not enabled in
`src/main.ts`, so `onModuleDestroy` does not run on a signal. A failure to create
pending reviews is swallowed by the scan handler.

*Reviews and appeals.* Two calls on items of one review may leave its score behind; a
reopening that meets another update is not announced again; a failed publication ends
the call with an error but the review stays completed, and no later call announces it
or writes the audit. An edit that replaces a review's comments deletes the appeals on
them. A question may have several items, of which the score takes the one read last. An
appeal may be changed after it was answered when the response phase is open by its
schedule before appeals are over. `deleteAppeal` asks for no phase, and changes of
items do not ask whether the review is completed.

*Who sees what.* Managers may download a submission whose URL the list hides from
them; one who also competes may download others' files while the list of all
submissions hides them, and sees in that list e-mails that a read by id hides
(`SubmissionShowsNoMore` names this exception, `ManagesAndCompetes`); the list of a
challenge's submissions names submitters that `getSubmission` hides, and
`getSubmission` gives a URL the list does not; whether a submitter has passed is read
from three sets of scorecards. Project managers see runs but not decisions; approvers,
observers and managers see decisions but not runs; checkpoint reviewers read items of
runs they cannot list. The AI endpoints and the search for summations do not ask for
the whitelist, although `docs/CHALLENGE_WHITELIST_ACCESS.md` says that a removal cuts
off access at once; `getAppeals` checks no role.

*Submissions.* The statuses `deleteSubmission` calls terminal lack TIMEOUT; runs with
items keep their submission from being purged (the foreign key restricts). A submission
deleted before it is counted, an upload for validation, and a type change each make
the counters wrong for good. An infected file, or one that has left the DMZ bucket
unscanned, stays among the oldest stale ones, and a hundred of them stop the retry.
Summations can be generated twice at the same time; the phase checks of a
generation ask for the flag only, not for the schedule.

*Latest submissions and pending reviews.* `submissionLimit` is read in two ways, which
differ on words such as `unlimited` and `yes`; a row without a member is reviewed and
never flagged; a checkpoint submission is refused when a later contest submission
exists; ties are left to the database. An unlock ignores the kind of the submission
and the phase a resource was made for, makes rows for the iterative reviews of
First2Finish challenges, which a pass leaves to the autopilot, and none for approval
and checkpoint review; rows may be made for
a phase that has closed meanwhile.

*Applications and configs.* A rejected application may be approved; rejecting an
approved one leaves its resource; neither the status nor the positions of the
opportunity are enforced; a mail that fails after the approval answers 500. A
workflow disabled after its config was made is waited for without an end; a disabled
template falls back to the legacy workflows; a create that fails between its rows
leaves a config without workflows; a template's total is taken with a tolerance,
a config's is not; re-enabling a template does not look at its workflows. A
vote stays when the score in the same request is refused.

*Import.* An error ends the script with `process.exit(1)` inside `catch`, so the
`finally` that writes the maps does not run, and the next run duplicates what this one
wrote; so does a write whose answer was lost, because its records are unmapped, but for
reviews, appeals and responses, whose unique key refuses the second row ever after.
Scorecards, models and workflows are not rechecked. Appeals are mapped under the id of
an item and dropped under that of a comment. A resource's submission that could not
be written is not tried again by full runs.

## 4. What is proved

Every invariant that a run checks is the consequence of a theorem, and so is one of the
temporal properties, the refinement `BudgetKept`. TLAPS checks them for every value of
the constants: any number of tasks, rows, messages, workflows, users, phases and
faults. They rest on the assumptions named in the modules and on nothing else. Most of
these say what kind a constant is: counts are naturals, sets that are counted or summed
over are finite, kinds of tasks are disjoint, `None` is outside the sets it completes.
Two say something of the surroundings. `ChallengesAssumption`: a resource made for a
phase has the role of that phase. `GroupAssumption`: a consumer group has finitely many
instances.

Each proof is the same argument: an invariant that is inductive, `Init` makes it true,
every action keeps it (one step per action, one lemma for what is hard), and it
implies the property. What follows says what had to be added to the property to make
it inductive, which is usually the reason why the code is right.

**WorkflowQueue** (`WorkflowQueueInvariant`, `WorkflowQueueTheorems`). `IInv == Core /\
Provenance` is inductive with `TypeOK`. The bounds themselves are not: a retry that is
about to commit, or a dispatch that is about to call, must know that nobody else has
the same right. `LockHeld` ties a lock to the one task inside its transaction;
`ReadStable` says that what was read under the lock still holds at commit although
unlocked handlers write the row (they never write `retryCount`); `Ledger` makes the
right to ask for attempt *k* of a row a token: held by at most one task, and not spent
yet. From these follow `RetryBound`, `DispatchOnce`, `QueuedOnce`, `GitRunIdOwned`.
Callers write any row at any of these moments: what a handler holds is therefore tied
to Gitea's runs and to `retryCount`, which callers do not write, and only for rows of
the service to status and `gitRunId`. `Provenance` follows a conclusion from Gitea
through events and handlers into the row: `ResultHonest`. `NoForgottenRun` needs
`NobodyForgotten`: while nothing has failed, a row that is not watched is in the hands
of a task at one of the few places from which every way on watches it again.
`ImplementsBudget` (`Spec => BudgetKept`) shows that every step is a step of
`RunBudget` or stutters.

**KafkaDelivery, ScanComplete, KafkaConnection** (`KafkaDeliveryProofs`).
`NothingSkipped` speaks of the committed offset; it is inductive only with `Behind`:
an instance has left nothing behind the message in its hand, also one that has lost
the partition. `GivenUpAfterRetries` needs `BuriesExhausted`. `ScanImplementsDelivery`
(`ScanSpec => Spec`) shows that each step of the scan handler is a step of the
abstract consumer or a stutter, so both hold of it too. `HandledMeansDone` needs, at
each await, what the earlier ones have done (`StepFits`); `EventRepeatsAreFaults` is a
count: events of a submission, and the instances that may still publish one, are at
most one more than the faults so far (`RepeatsFit`), which is why the group must be
finite. `OneLoop` needs `ConnectionIInv`: a loop that runs is the one the service
remembers, and a task about to start one remembers none.

**AiDecision** (`AiDecisionProofs`). `IInv` adds to `GateKept`, `PassedOnMerit` and
`LockedMeansRefused` what tasks carry across awaits: a verdict `pass`, and a task
about to create reviews, go back to runs that deserved it, or to a person. The link
from `Passes` (the code) to `Deserved` (the config) is lemma `PassDeserved`.
`DecisionCurrent` and `RetriggerSupersedes` are proved under `Undisturbed`, the
setting in which `ADLatest` checks them: one webhook at work, no edits, no
escalations, no failures, every end of a run told. Without it they are false, for
reasons section 3 lists. `CurrentInv` adds that ended runs of a workflow do not tie,
and that once all have ended a webhook still on its way will decide by what they are
now.

**Reviews, Appeals** (`ReviewRoundProofs`). `RoundIInv`: a score that a call has
computed is that of the items, and a wrong score has a call that will put it right
(`ScoreFits`); a completion not announced, or a change not logged, has a call that
will do it and still sees what has changed (`CompletionFits`, `AuditFits`); an answered
appeal means that responses have been open, after which an open appeals phase is on
record (`TextFits`); each answered appeal has its event or
a call that publishes it, never both (`EventsFit`).

**The visibilities** (`ReviewRoundProofs`). The four properties compare operators of
several services in one state. They turn out to need nothing of the states: they
follow from the operators, by cases on the roles of the user and the kind of the
challenge, in whatever phases a challenge is.

**Submissions, Summations** (`SubmissionsProofs`). `CountersFollow`: the counter is
the number of stored submissions, less one for each call between its insert and its
count, plus one for each between its delete and its discount (`CountHolds`, a
statement about cardinalities). `ActiveRunsStay` needs `PurgeFollows`.
`OneSummationEach`: what a generation about to write has read is all there is, unless
two overlapped (`SumIInv`). `SummationFollowsReviews`: a row follows the reviews
unless they changed since (`SumRowsFit`), and the rounded quotient is within half a
hundredth of the true average.

**The office** (`OfficeProofs`):

- *Applications*: two calls at work on one member, or on one application, are on
  record, and any other call knows how its application stands (`AppIInv`).
- *AiConfigs*: once runs are queued no call may change the config (`QueuedAlone`); two
  calls on a template have met (`TemplatesApart`); a template that was disabled is a
  default no more or its call will drop it (`DefaultsDropped`); and a weighting that
  adds up to a whole is, after each column has rounded its part, whole but for half a
  hundredth of a percent for each workflow (lemma `KeptNearWhole`).
- *RunItems*: edits that have not met are one, and what it has read is current
  (`ItemsIInv`).
- *LegacyImport*: `ImportIInv` says where the script is and what its batch holds
  (`StageFits`, `BatchFits`); that ids given to different records of a kind differ
  (`IdsApart`); that what is mapped has a row or waits in the batch (`Backed`), from
  which follows what a full run has made whole up to its present kind (`WholeFits`),
  because it makes scorecards again, so that its reviews refer to those of this run and
  none is refused for its unique key (`CardsFit`);
  and that rows have the id their record is mapped to (`OneRowFits`). Ids are numbered
  after the largest record, which exists because `Copies` is finite
  (`FiniteIsBounded`).
- *ReviewAdmission*: little is needed of the states (`RowsFit`, their shape); the
  proof is about the three orders of submissions, and that a review whose phase is
  open has a target phase (`OpenHasTarget`).
- *PendingReviews*: what is owed to a submission is among what its unlock is about to
  insert and what is there (`PendingIInv`).

**Sums** (`SetSums`). Totals and averages are `MapThenSumSet` of the community
modules, defined by a recursive function on subsets. That it exists is proved here by
building it from the sets of at most *n* elements to those of *n + 1*, and taking a
least *n* for which that would fail (`SumsExist`); what holds of sums is then shown
one element at a time the same way (`SubsetsOneByOne`): sums of summands that differ by
*d* at most differ by at most *d* for each (`SumsApart`). This stands in for
an induction rule.

The inductive invariants held in TLC on the instances of section 3 before they were
proved; the runs check only what they imply.

Only model-checked: liveness (`EveryRunCompletes`, `EveryMessageSettled`,
`ConsumesOrAdmits`, `ShortTroubleSurvived`, `DecidedInTheEnd`, `StaleIsScanned`),
because fairness and ENABLED are outside what the prover's backends reach.
`PendingFollowsAppeals` is false and has its counterexample.

## 5. What is not modelled, and the plan

Not modelled because nothing of it depends on order, or on agreement with another
part: my reviews, project results and review progress (queries); contact
requests, review types, history, the challenge context, creating workflows, editing
and cloning scorecards (plain writes); the generated Gitea client; event bus and
machine tokens (one call each, which fails or not wherever it is used);
authentication, health check, logs, e-mails, CSV exports, request validation; the
contents of files in S3. Waiting for a database connection is not modelled either:
only the transaction that queues runs takes a second connection while it holds one,
and messages are handled one at a time.

Limits of the present models: one partition and one kind of message; one review, one
challenge, one application per member and role; POST and PATCH of runs in
`WorkflowQueue`, and of the score in `AiDecision` and `RunItems`, while the status a
caller may write does not reach the decision modelled there (the code evaluates nothing
after a PATCH); `LateScores` and `UnseenEnds` are FALSE where `DecisionCurrent` is checked,
because a score that is patched after the end, and a run ended by the guard, are
followed by no evaluation; a challenge that changes while an AI decision about
it is made; of `migrate.ts` the lookup tables, the pass over
`submission-is-file` and the verification at the end.

Left of the plan: type correctness of the modules of the office and of the review
round as theorems of their own (parts of it are in their invariants); an abstract
*ledger of effects* for the scan handler (each effect at least once, the event at
most once per failure), which `ScanComplete` would implement, as the next abstract
specification; the safety half of the liveness properties (that a variant
falls with each fair step), which TLC now checks only on small instances; and
the lookup tables of `migrate.ts`.
