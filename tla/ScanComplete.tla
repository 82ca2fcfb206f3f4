---------------------------- MODULE ScanComplete ----------------------------
(***************************************************************************)
(* The consumer of submission.scan.complete: KafkaDelivery with the        *)
(* handler of submission-scan-complete.handler.ts in the place of "the     *)
(* handler", one step from await to await.  A handler that throws is run   *)
(* again from its start, and messages are delivered again after a crash or *)
(* a rebalance, so its steps meet what earlier attempts have left.         *)
(*                                                                         *)
(* Queueing and dispatching AI workflows is WorkflowQueue, here two steps; *)
(* the AI decision is AiDecision, here one event.                          *)
(***************************************************************************)
EXTENDS KafkaDelivery, FiniteSets

CONSTANTS
    Submissions,
    Setups,      \* how the service and the challenge may be set up
    MaxMishaps   \* bound: calls of the handler that fail

Results == {"clean", "infected", "nourl"}

ASSUME PayloadAssumption == Payloads \subseteq Submissions \X Results
ASSUME SetupAssumption ==
    Setups \subseteq [dispatch : BOOLEAN, config : BOOLEAN, listed : BOOLEAN, rapid : BOOLEAN]
ASSUME MishapsAssumption == MaxMishaps \in Nat
ASSUME GroupAssumption == IsFiniteSet(Instances)

VARIABLES
    setup,     \* of the service and of the challenge all submissions are for
    step,      \* where the handler is
    seen,      \* eventRaised as the handler read it
    scanned,   \* submissions with virusScan = true
    rows,      \* AI workflow runs of a submission
    passed,    \* submissions whose AI decision lets them pass
    pending,   \* submissions with pending human reviews
    raised,    \* submissions with eventRaised = true
    events,    \* auxiliary: rapid-submission events published for a submission
    mishaps

records == <<scanned, rows, passed, pending, raised, events>>
handler == <<step, seen, records, mishaps>>
allVars == <<vars, setup, handler>>

DispatchAi == setup.dispatch        \* DISPATCH_AI_REVIEW_WORKFLOWS = 'true'
ConfigWorkflows == setup.config     \* the challenge's AI review config has workflows
ChallengeWorkflows == setup.listed  \* the challenge itself lists workflows
RapidChallenge == setup.rapid       \* First2Finish, Topgear Task or Marathon Match

Steps == {"update", "queue", "dispatch", "reviews", "publish", "mark"}

ScanTypeOK ==
    /\ TypeOK
    /\ setup \in Setups
    /\ step \in [Instances -> Steps]
    /\ \A i \in Instances : step[i] = "update" \/ pc[i] = "handle"
    /\ seen \in [Instances -> BOOLEAN]
    /\ scanned \subseteq Submissions
    /\ rows \in [Submissions -> {"none", "queued", "dispatched"}]
    /\ passed \subseteq Submissions
    /\ pending \subseteq Submissions
    /\ raised \subseteq Submissions
    /\ events \in [Submissions -> Nat]
    /\ mishaps \in 0..MaxMishaps

ScanInit ==
    /\ Init
    /\ setup \in Setups
    /\ step = [i \in Instances |-> "update"]
    /\ seen = [i \in Instances |-> FALSE]
    /\ scanned = {}
    /\ rows = [s \in Submissions |-> "none"]
    /\ passed = {}
    /\ pending = {}
    /\ raised = {}
    /\ events = [s \in Submissions |-> 0]
    /\ mishaps = 0

-----------------------------------------------------------------------------
(* Control of the handler.                                                 *)

Sub(i) == log[current[i]][1]
Result(i) == log[current[i]][2]

At(i, label) == pc[i] = "handle" /\ step[i] = label

Goto(i, label) == step' = [step EXCEPT ![i] = label] /\ UNCHANGED vars

Returns(i) == step' = [step EXCEPT ![i] = "update"] /\ HandlerReturns(i)

Throws(i) == step' = [step EXCEPT ![i] = "update"] /\ HandlerThrows(i)

Mishap == mishaps < MaxMishaps /\ mishaps' = mishaps + 1

\* Nothing more is done for a submission whose row was not updated.
AfterQueue(i) == IF Result(i) = "nourl" THEN Returns(i) ELSE Goto(i, "reviews")

-----------------------------------------------------------------------------
(* handle                                                                   *)

SkipInfected(i) ==
    /\ At(i, "update")
    /\ Result(i) = "infected"
    /\ Returns(i)
    /\ UNCHANGED <<seen, records, mishaps>>

RowUpdate(i) ==
    IF Result(i) = "clean"
    THEN /\ scanned' = scanned \cup {Sub(i)}
         /\ seen' = [seen EXCEPT ![i] = Sub(i) \in raised]
    ELSE UNCHANGED <<scanned, seen>>

\* A submission scanned before is taken for one whose scan was handled.
UpdateUrlOnce(i) ==
    /\ At(i, "update")
    /\ Result(i) # "infected"
    /\ RowUpdate(i)
    /\ IF Sub(i) \in scanned THEN Returns(i)
       ELSE IF DispatchAi THEN Goto(i, "queue") ELSE AfterQueue(i)
    /\ UNCHANGED <<rows, passed, pending, raised, events, mishaps>>

\* updateSubmissionUrl
UpdateUrl(i) ==
    /\ At(i, "update")
    /\ Result(i) # "infected"
    /\ RowUpdate(i)
    /\ IF DispatchAi THEN Goto(i, "queue") ELSE AfterQueue(i)
    /\ UNCHANGED <<rows, passed, pending, raised, events, mishaps>>

\* orchestrateScanComplete and queueWorkflowRuns, which queues only once
Queue(i) ==
    LET queues == (ConfigWorkflows \/ ChallengeWorkflows) /\ rows[Sub(i)] = "none"
    IN  /\ At(i, "queue")
        /\ rows' = IF queues THEN [rows EXCEPT ![Sub(i)] = "queued"] ELSE rows
        /\ IF queues THEN Goto(i, "dispatch") ELSE AfterQueue(i)
        /\ UNCHANGED <<seen, scanned, passed, pending, raised, events, mishaps>>

Dispatch(i) ==
    /\ At(i, "dispatch")
    /\ rows' = [rows EXCEPT ![Sub(i)] = "dispatched"]
    /\ AfterQueue(i)
    /\ UNCHANGED <<seen, scanned, passed, pending, raised, events, mishaps>>

\* ensurePendingReviewsForSubmission, whose own gate asks for the AI decision
\* when the AI review config of the challenge has workflows
EnsurePending(s) ==
    pending' = IF s \in scanned /\ (ConfigWorkflows => s \in passed)
               THEN pending \cup {s} ELSE pending

\* ensurePendingReviewsForScannedSubmission
Reviews(i) ==
    /\ At(i, "reviews")
    /\ IF DispatchAi /\ ChallengeWorkflows THEN UNCHANGED pending ELSE EnsurePending(Sub(i))
    /\ Goto(i, "publish")
    /\ UNCHANGED <<seen, scanned, rows, passed, raised, events, mishaps>>

\* Its errors are logged and swallowed.
ReviewsFail(i) ==
    /\ Mishap
    /\ At(i, "reviews")
    /\ Goto(i, "publish")
    /\ UNCHANGED <<seen, records>>

Publishes(i) == RapidChallenge /\ ~seen[i]
Announce(s) == events' = [events EXCEPT ![s] = @ + 1]

PublishAlways(i) ==
    /\ At(i, "publish")
    /\ IF RapidChallenge THEN Announce(Sub(i)) /\ Goto(i, "mark")
                         ELSE UNCHANGED events /\ Returns(i)
    /\ UNCHANGED <<seen, scanned, rows, passed, pending, raised, mishaps>>

\* publishFirst2FinishEvent, publishTopgearTaskEvent, publishMarathonMatchEvent:
\* a challenge has one type, so at most one of the three publishes.
Publish(i) ==
    /\ At(i, "publish")
    /\ IF Publishes(i) THEN Announce(Sub(i)) /\ Goto(i, "mark")
                       ELSE UNCHANGED events /\ Returns(i)
    /\ UNCHANGED <<seen, scanned, rows, passed, pending, raised, mishaps>>

\* markEventRaised
Mark(i) ==
    /\ At(i, "mark")
    /\ raised' = raised \cup {Sub(i)}
    /\ Returns(i)
    /\ UNCHANGED <<seen, scanned, rows, passed, pending, events, mishaps>>

MarkFails(i) ==
    /\ Mishap
    /\ At(i, "mark")
    /\ Returns(i)
    /\ UNCHANGED <<seen, records>>

\* A call to the database, to Gitea, to the challenge service or to the event bus
\* fails; the bus may have published the event all the same.
CallFails(i) ==
    /\ Mishap
    /\ \/ \E label \in {"update", "queue", "dispatch"} : At(i, label)
          /\ UNCHANGED events
       \/ /\ At(i, "publish") /\ ~seen[i]
          /\ UNCHANGED events \/ (RapidChallenge /\ Announce(Sub(i)))
    /\ Result(i) # "infected"
    /\ Throws(i)
    /\ UNCHANGED <<seen, scanned, rows, passed, pending, raised>>

\* triggerEvaluateSubmission: the workflows have ended and the AI lets it pass.
AiPasses(s) ==
    /\ rows[s] = "dispatched"
    /\ ConfigWorkflows
    /\ passed' = passed \cup {s}
    /\ pending' = IF s \in scanned THEN pending \cup {s} ELSE pending
    /\ UNCHANGED <<vars, step, seen, scanned, rows, raised, events, mishaps>>

-----------------------------------------------------------------------------
Handle(i) ==
    \/ SkipInfected(i) \/ UpdateUrl(i) \/ Queue(i) \/ Dispatch(i) \/ Reviews(i)
    \/ Publish(i) \/ Mark(i)

HandleFails(i) == ReviewsFail(i) \/ MarkFails(i) \/ CallFails(i)

\* What KafkaDelivery does around the handler; a crash ends the handler too.
Deliver(i) ==
    \/ (Assign(i) \/ Process(i) \/ Rebalance(i) \/ BuryFails(i) \/ CommitFails(i)) /\ UNCHANGED step
    \/ Crash(i) /\ step' = [step EXCEPT ![i] = "update"]

ScanNext ==
    /\ \/ \E i \in Instances : Handle(i) \/ HandleFails(i)
       \/ \E i \in Instances : Deliver(i) /\ UNCHANGED <<seen, records, mishaps>>
       \/ \E s \in Submissions : AiPasses(s)
    /\ UNCHANGED setup

ScanSpec == ScanInit /\ [][ScanNext]_allVars

ScanFairness ==
    /\ WF_allVars(\E i \in Instances : Assign(i) /\ UNCHANGED <<setup, handler>>)
    /\ \A i \in Instances :
          WF_allVars((Handle(i) \/ (Process(i) /\ UNCHANGED handler)) /\ UNCHANGED setup)

ScanFairSpec == ScanSpec /\ ScanFairness

-----------------------------------------------------------------------------
(* Properties.                                                             *)

HandledClean(s) ==
    \E o \in Offsets : log[o] = <<s, "clean">> /\ "handled" \in fate[o]

\* When a clean scan counts as handled, all it stands for has been done by this
\* attempt or an earlier one: no retry or redelivery skips a step for good.
HandledMeansDone ==
    \A s \in Submissions : HandledClean(s) =>
        /\ s \in scanned
        /\ DispatchAi /\ (ConfigWorkflows \/ ChallengeWorkflows) => rows[s] # "none"
        /\ RapidChallenge => events[s] > 0
        /\ mishaps = 0 /\ ~ConfigWorkflows /\ ~(DispatchAi /\ ChallengeWorkflows) => s \in pending

\* The event of a submission is published again only when something fails: each
\* failed call, crash or rebalance costs at most one repetition.
EventRepeatsAreFaults == \A s \in Submissions : events[s] <= 1 + mishaps + faults

\* Trouble that is over within the retries of one message costs no scan: every
\* message that can be parsed is handled in the end, not buried.
ShortTroubleSurvived ==
    MaxMishaps <= MaxRetries =>
        \A o \in Offsets : <>(log[o] # Garbled => "handled" \in fate[o])

=============================================================================
