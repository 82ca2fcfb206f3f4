------------------------ MODULE WorkflowQueueInvariant ---------------------
(***************************************************************************)
(* The types and the inductive invariant of WorkflowQueue, for every value *)
(* of the constants.  The first part says that every step keeps the types; *)
(* the second, one lemma for each conjunct of the invariant, that a step   *)
(* of a task keeps the conjunct.                                           *)
(***************************************************************************)
EXTENDS WorkflowQueue, TLAPS

-----------------------------------------------------------------------------
(* Types.                                                                   *)

LEMMA NoLocalType == NoLocal \in Local /\ AbsentRow \in Row /\ NoGitRun \in GitRun
BY DEF NoLocal, Local, AbsentRow, Row, NoGitRun, GitRun

\* Going to a label with well-typed locals keeps pc and local typed.
LEMMA GotoType ==
    ASSUME TypeOK, NEW t \in Tasks, NEW label \in Labels, NEW l \in Local, Goto(t, label, l)
    PROVE  pc' \in [Tasks -> Labels] /\ local' \in [Tasks -> Local]
BY DEF TypeOK, Goto

LEMMA ReturnType ==
    ASSUME TypeOK, NEW t \in Tasks, Return(t)
    PROVE  pc' \in [Tasks -> Labels] /\ local' \in [Tasks -> Local]
BY GotoType, NoLocalType DEF Return, Labels

LEMMA BackType ==
    ASSUME TypeOK, NEW t \in Tasks, BackToLoop(t)
    PROVE  pc' \in [Tasks -> Labels] /\ local' \in [Tasks -> Local]
<1>1. local[t] \in Local BY DEF TypeOK
<1>2. [NoLocal EXCEPT !.todo = local[t].todo] \in Local
  BY <1>1, NoLocalType DEF Local, NoLocal
<1>. QED BY <1>2, GotoType DEF BackToLoop, Labels

LEMMA QueueTypes ==
    ASSUME TypeOK, NEW t \in Tasks
    PROVE  /\ \A s \in Submissions : QueueRead(t, s) => TypeOK'
           /\ QueueAlreadyQueued(t) => TypeOK'
           /\ QueueLock(t) => TypeOK'
           /\ QueueCreate(t) => TypeOK'
<1>0. local[t] \in Local BY DEF TypeOK
<1>1. ASSUME NEW s \in Submissions, QueueRead(t, s) PROVE TypeOK'
  <2>1. [NoLocal EXCEPT !.submission = s, !.active = Workflows \ disabled] \in Local
    BY NoLocalType DEF Local, NoLocal
  <2>2. pc' \in [Tasks -> Labels] /\ local' \in [Tasks -> Local]
    BY <1>1, <2>1, GotoType DEF QueueRead, Labels
  <2>. QED BY <1>1, <2>2 DEF TypeOK, QueueRead, locks, external
<1>2. ASSUME QueueAlreadyQueued(t) PROVE TypeOK'
  BY <1>2, ReturnType DEF TypeOK, QueueAlreadyQueued, locks, external
<1>3. ASSUME QueueLock(t) PROVE TypeOK'
  <2>1. pc' \in [Tasks -> Labels] /\ local' \in [Tasks -> Local]
    BY <1>0, <1>3, GotoType DEF QueueLock, Labels
  <2>. QED BY <1>3, <2>1 DEF TypeOK, QueueLock, external
<1>4. ASSUME QueueCreate(t) PROVE TypeOK'
  <2> DEFINE s == local[t].submission
             active == local[t].active
  <2>1. PICK new \in [active -> {r \in Runs : ~Exists(r)}] :
           /\ run' = [r \in Runs |->
                        IF \E w \in active : new[w] = r
                        THEN NewRow(CHOOSE w \in active : new[w] = r, s, "queue")
                        ELSE run[r]]
           /\ Goto(t, "loop", [NoLocal EXCEPT !.todo = {new[w] : w \in active}])
    BY <1>4 DEF QueueCreate
  <2>2. s \in Submissions \cup {None} /\ active \subseteq Workflows
    BY <1>0 DEF Local
  <2>3. \A w \in Workflows : NewRow(w, s, "queue") \in Row
    BY <2>2 DEF NewRow, Row, AbsentRow, InProgressStatuses
  <2>4. run' \in [Runs -> Row]
    <3> SUFFICES ASSUME NEW r \in Runs
                 PROVE  (IF \E w \in active : new[w] = r
                         THEN NewRow(CHOOSE w \in active : new[w] = r, s, "queue")
                         ELSE run[r]) \in Row
      BY <2>1
    <3>1. CASE \E w \in active : new[w] = r BY <3>1, <2>2, <2>3
    <3>2. CASE ~\E w \in active : new[w] = r BY <3>2 DEF TypeOK
    <3>. QED BY <3>1, <3>2
  <2>5. [NoLocal EXCEPT !.todo = {new[w] : w \in active}] \in Local
    BY NoLocalType DEF Local, NoLocal
  <2>6. pc' \in [Tasks -> Labels] /\ local' \in [Tasks -> Local]
    BY <2>1, <2>5, GotoType DEF Labels
  <2>. QED BY <1>4, <2>4, <2>6 DEF TypeOK, QueueCreate, external
<1>. QED BY <1>1, <1>2, <1>3, <1>4

LEMMA LoopTypes ==
    ASSUME TypeOK, NEW t \in Tasks
    PROVE  Loop(t) => TypeOK'
<1>0. local[t] \in Local BY DEF TypeOK
<1>1. ASSUME NEW r \in Runs, LoopNext(t, r) PROVE TypeOK'
  <2> DEFINE rest == local[t].todo \ {r}
  <2>1. /\ [NoLocal EXCEPT !.todo = rest, !.run = r, !.verdict = "TIMEOUT"] \in Local
        /\ [NoLocal EXCEPT !.todo = rest, !.run = r] \in Local
    BY <1>0, NoLocalType DEF Local, NoLocal, TerminalStatuses
  <2>2. pc' \in [Tasks -> Labels] /\ local' \in [Tasks -> Local]
    BY <1>1, <2>1, GotoType DEF LoopNext, Labels
  <2>. QED BY <1>1, <2>2 DEF TypeOK, LoopNext, locks, external
<1>2. ASSUME LoopEnd(t) PROVE TypeOK'
  BY <1>2, ReturnType DEF TypeOK, LoopEnd, locks, external
<1>. QED BY <1>1, <1>2 DEF Loop

LEMMA RetriggerTypes ==
    ASSUME TypeOK, Shape, NEW t \in Tasks, NEW r \in Runs
    PROVE  (RetriggerRead(t, r) => TypeOK') /\ (RetriggerCreate(t, r) => TypeOK')
<1>0. local[t] \in Local /\ run[r] \in Row BY DEF TypeOK
<1>1. ASSUME RetriggerRead(t, r) PROVE TypeOK'
  <2>1. run[r].workflow \in Workflows /\ run[r].submission \in Submissions
    BY <1>1 DEF Shape, HandShape, RetriggerRead
  <2>2. [NoLocal EXCEPT !.submission = run[r].submission,
                        !.active = {run[r].workflow}] \in Local
    BY <2>1, NoLocalType DEF Local, NoLocal
  <2>3. pc' \in [Tasks -> Labels] /\ local' \in [Tasks -> Local]
    BY <1>1, <2>2, GotoType DEF RetriggerRead, Labels
  <2>. QED BY <1>1, <2>3 DEF TypeOK, RetriggerRead, locks, external
<1>2. ASSUME RetriggerCreate(t, r) PROVE TypeOK'
  <2>1. PICK w \in local[t].active :
           run' = [run EXCEPT ![r] = NewRow(w, local[t].submission, "retrigger")]
    BY <1>2 DEF RetriggerCreate
  <2>2. NewRow(w, local[t].submission, "retrigger") \in Row
    BY <1>0 DEF NewRow, Row, AbsentRow, InProgressStatuses, Local
  <2>3. run' \in [Runs -> Row] BY <2>1, <2>2 DEF TypeOK
  <2>4. [NoLocal EXCEPT !.run = r] \in Local BY NoLocalType DEF Local, NoLocal
  <2>5. pc' \in [Tasks -> Labels] /\ local' \in [Tasks -> Local]
    BY <1>2, <2>4, GotoType, ReturnType DEF RetriggerCreate, Labels
  <2>. QED BY <1>2, <2>3, <2>5 DEF TypeOK, RetriggerCreate, locks, external
<1>. QED BY <1>1, <1>2

LEMMA RunInHand ==
    ASSUME TypeOK, Shape, NEW t \in Tasks, pc[t] \in RunLabels
    PROVE  local[t].run \in Runs /\ run[local[t].run] \in Row
BY DEF TypeOK, Shape, HandShape

LEMMA DispatchReturnsType ==
    ASSUME TypeOK, NEW t \in Tasks, DispatchReturns(t)
    PROVE  pc' \in [Tasks -> Labels] /\ local' \in [Tasks -> Local]
BY BackType, ReturnType DEF DispatchReturns

LEMMA GitMakesRunType ==
    ASSUME TypeOK, NEW t \in Tasks, NEW g \in GitIds, GitMakesRun(t, g)
    PROVE  git' \in [GitIds -> GitRun]
BY DEF TypeOK, GitMakesRun, GitRun, NoGitRun, Local

LEMMA DispatchTypes ==
    ASSUME TypeOK, Shape, NEW t \in Tasks
    PROVE  (Dispatch(t) \/ DispatchCallFails(t)) => TypeOK'
<1>0. local[t] \in Local /\ local[t].saved \in Row BY DEF TypeOK, Local
<1>r. pc[t] \in RunLabels => local[t].run \in Runs /\ run[local[t].run] \in Row
  BY RunInHand
<1>1. ASSUME DispatchReadWorkflow(t) PROVE TypeOK'
  <2>1. pc' \in [Tasks -> Labels] /\ local' \in [Tasks -> Local]
    BY <1>0, <1>1, GotoType DEF DispatchReadWorkflow, Labels
  <2>. QED BY <1>1, <2>1 DEF TypeOK, DispatchReadWorkflow, locks, external
<1>2. ASSUME DispatchCancel(t) PROVE TypeOK'
  <2>1. run' \in [Runs -> Row]
    BY <1>r, <1>2 DEF TypeOK, DispatchCancel, RunLabels, DispatchLabels, Row, TerminalStatuses
  <2>. QED BY <1>2, <2>1, DispatchReturnsType DEF TypeOK, DispatchCancel, locks, external
<1>3. ASSUME DispatchRead(t) PROVE TypeOK'
  <2>1. [local[t] EXCEPT !.saved = run[local[t].run]] \in Local
    BY <1>0, <1>r, <1>3 DEF DispatchRead, RunLabels, DispatchLabels, Local
  <2>2. pc' \in [Tasks -> Labels] /\ local' \in [Tasks -> Local]
    BY <2>1, <1>3, GotoType DEF DispatchRead, Labels
  <2>. QED BY <1>3, <2>2 DEF TypeOK, DispatchRead, locks, external
<1>4. ASSUME DispatchWrite(t) PROVE TypeOK'
  <2>1. run' \in [Runs -> Row]
    BY <1>r, <1>4 DEF TypeOK, DispatchWrite, RunLabels, DispatchLabels, Row, InProgressStatuses
  <2>2. pc' \in [Tasks -> Labels] /\ local' \in [Tasks -> Local]
    BY <1>0, <1>4, GotoType DEF DispatchWrite, Labels
  <2>. QED BY <1>4, <2>1, <2>2 DEF TypeOK, DispatchWrite, locks, external
<1>5. ASSUME NEW g \in GitIds, DispatchCall(t, g) PROVE TypeOK'
  <2>1. [local[t] EXCEPT !.git = g, !.saved = AbsentRow] \in Local
    BY <1>0, NoLocalType DEF Local
  <2>2. pc' \in [Tasks -> Labels] /\ local' \in [Tasks -> Local]
    BY <1>5, <2>1, GotoType DEF DispatchCall, Labels
  <2>. QED BY <1>5, <2>2, GitMakesRunType DEF TypeOK, DispatchCall, locks
<1>6. ASSUME DispatchCallFails(t) PROVE TypeOK'
  <2>1. pc' \in [Tasks -> Labels] /\ local' \in [Tasks -> Local]
    BY <1>0, <1>6, GotoType DEF DispatchCallFails, Labels
  <2>2. git' \in [GitIds -> GitRun]
    BY <1>6, GitMakesRunType DEF TypeOK, DispatchCallFails
  <2>3. faults' \in 0..MaxFaults
    BY <1>6, BoundsAssumption DEF TypeOK, DispatchCallFails
  <2>. QED BY <1>6, <2>1, <2>2, <2>3 DEF TypeOK, DispatchCallFails, locks
<1>7. ASSUME DispatchRestore(t) PROVE TypeOK'
  <2>1. run' \in [Runs -> Row]
    BY <1>0, <1>r, <1>7 DEF TypeOK, DispatchRestore, RunLabels, Row
  <2>. QED BY <1>7, <2>1, ReturnType DEF TypeOK, DispatchRestore, locks, external
<1>8. ASSUME DispatchRecord(t) PROVE TypeOK'
  <2>1. run' \in [Runs -> Row]
    BY <1>0, <1>r, <1>8 DEF TypeOK, DispatchRecord, RunLabels, Row, Local
  <2>. QED BY <1>8, <2>1, DispatchReturnsType DEF TypeOK, DispatchRecord, locks, external
<1>. QED BY <1>1, <1>2, <1>3, <1>4, <1>5, <1>6, <1>7, <1>8 DEF Dispatch

LEMMA RetryRefusedType ==
    ASSUME TypeOK, NEW t \in Tasks, RetryRefused(t)
    PROVE  pc' \in [Tasks -> Labels] /\ local' \in [Tasks -> Local]
<1>1. local[t] \in Local BY DEF TypeOK
<1>2. [NoLocal EXCEPT !.run = local[t].run, !.verdict = local[t].verdict] \in Local
  BY <1>1, NoLocalType DEF Local, NoLocal
<1>. QED BY <1>2, GotoType, BackType DEF RetryRefused, Labels

LEMMA RetryTypes ==
    ASSUME TypeOK, Shape, NEW t \in Tasks
    PROVE  Retry(t) => TypeOK'
<1>0. local[t] \in Local /\ local[t].saved \in Row BY DEF TypeOK, Local
<1>r. pc[t] \in RunLabels => local[t].run \in Runs /\ run[local[t].run] \in Row
  BY RunInHand
<1>1. ASSUME RetryLock(t) PROVE TypeOK'
  <2>1. [local[t] EXCEPT !.saved = run[local[t].run]] \in Local
    BY <1>0, <1>r, <1>1 DEF RetryLock, RunLabels, Local
  <2>2. pc' \in [Tasks -> Labels] /\ local' \in [Tasks -> Local]
    BY <1>1, <2>1, GotoType DEF RetryLock, Labels
  <2>. QED BY <1>1, <2>2 DEF TypeOK, RetryLock, external
<1>2. ASSUME RetrySettled(t) PROVE TypeOK'
  BY <1>2, RetryRefusedType DEF TypeOK, RetrySettled, RetryUnlock, external
<1>3. ASSUME RetryExhausted(t) PROVE TypeOK'
  <2>1. local[t].verdict \in TerminalStatuses
    BY <1>3 DEF Shape, HandShape, RetryExhausted, RetryUnlock
  <2>2. run' \in [Runs -> Row]
    BY <1>r, <1>3, <2>1 DEF TypeOK, RetryExhausted, RetryUnlock, RunLabels, Row, TerminalStatuses
  <2>. QED BY <1>3, <2>2, RetryRefusedType DEF TypeOK, RetryExhausted, RetryUnlock, external
<1>4. ASSUME RetryRequeue(t) PROVE TypeOK'
  <2>0. /\ run[local[t].run] \in Row
        /\ run[local[t].run].retryCount + 1 \in Nat
        /\ local[t].saved.retryCount + 1 \in Nat
    BY <1>0, <1>r, <1>4 DEF RetryRequeue, RetryUnlock, RunLabels, Row
  <2>. DEFINE row == [run[local[t].run] EXCEPT !.status = "QUEUED",
                                               !.retryCount = run[local[t].run].retryCount + 1,
                                               !.completed = FALSE,
                                               !.started = FALSE,
                                               !.dispatched = FALSE,
                                               !.gitRunId = None]
  <2>r. row \in Row BY <2>0 DEF Row, InProgressStatuses
  <2>1. run' \in [Runs -> Row]
    <3>1. run' = [run EXCEPT ![local[t].run] = row] BY <1>4 DEF RetryRequeue
    <3>. QED BY <2>r, <3>1 DEF TypeOK
  <2>2. [NoLocal EXCEPT !.run = local[t].run, !.todo = local[t].todo,
                        !.attempt = local[t].saved.retryCount + 1] \in Local
    BY <1>0, <2>0, NoLocalType DEF Local, NoLocal
  <2>3. pc' \in [Tasks -> Labels] /\ local' \in [Tasks -> Local]
    BY <1>4, <2>2, GotoType DEF RetryRequeue, Labels
  <2>. QED BY <1>4, <2>1, <2>3 DEF TypeOK, RetryRequeue, RetryUnlock, external
<1>. QED BY <1>1, <1>2, <1>3, <1>4 DEF Retry

LEMMA HookTypes ==
    ASSUME TypeOK, Shape, NEW t \in Tasks
    PROVE  /\ \A e \in Events, r \in Runs :
                HookInProgress(t, e, r) \/ HookCompleted(t, e, r) => TypeOK'
           /\ HookStart(t) \/ HookClose(t) \/ HookPublish(t) => TypeOK'
<1>0. local[t] \in Local BY DEF TypeOK
<1>r. pc[t] \in RunLabels => local[t].run \in Runs /\ run[local[t].run] \in Row
  BY RunInHand
<1>1. ASSUME NEW e \in Events, NEW r \in Runs, HookInProgress(t, e, r) PROVE TypeOK'
  <2>1. [NoLocal EXCEPT !.run = r] \in Local BY NoLocalType DEF Local, NoLocal
  <2>2. pc' \in [Tasks -> Labels] /\ local' \in [Tasks -> Local]
    BY <1>1, <2>1, GotoType DEF HookInProgress, Labels
  <2>. QED BY <1>1, <2>2 DEF TypeOK, HookInProgress, locks
<1>2. ASSUME NEW e \in Events, NEW r \in Runs, HookCompleted(t, e, r) PROVE TypeOK'
  <2>0. Normalize(e.conclusion) \in TerminalStatuses BY DEF Normalize, TerminalStatuses
  <2>1. [NoLocal EXCEPT !.run = r, !.verdict = Normalize(e.conclusion)] \in Local
    BY <2>0, NoLocalType DEF Local, NoLocal
  <2>2. pc' \in [Tasks -> Labels] /\ local' \in [Tasks -> Local]
    BY <1>2, <2>1, GotoType DEF HookCompleted, Labels
  <2>. QED BY <1>2, <2>2 DEF TypeOK, HookCompleted, locks
<1>3. ASSUME HookStart(t) PROVE TypeOK'
  <2>1. run' \in [Runs -> Row]
    BY <1>r, <1>3 DEF TypeOK, HookStart, RunLabels, Row, InProgressStatuses
  <2>. QED BY <1>3, <2>1, ReturnType DEF TypeOK, HookStart, locks, external
<1>4. ASSUME HookClose(t) PROVE TypeOK'
  <2>1. local[t].verdict \in TerminalStatuses BY <1>4 DEF Shape, HandShape, HookClose
  <2>2. run' \in [Runs -> Row] BY <1>r, <1>4, <2>1 DEF TypeOK, HookClose, RunLabels, Row, TerminalStatuses
  <2>3. pc' \in [Tasks -> Labels] /\ local' \in [Tasks -> Local]
    BY <1>0, <1>4, GotoType DEF HookClose, Labels
  <2>. QED BY <1>4, <2>2, <2>3 DEF TypeOK, HookClose, locks, external
<1>5. ASSUME HookPublish(t) PROVE TypeOK'
  <2>1. run[local[t].run].submission \in Submissions
    BY <1>5 DEF Shape, HandShape, HookPublish, RunLabels
  <2>2. published' \subseteq Submissions BY <1>5, <2>1 DEF TypeOK, HookPublish
  <2>. QED BY <1>5, <2>2, ReturnType DEF TypeOK, HookPublish, locks, external
<1>. QED BY <1>1, <1>2, <1>3, <1>4, <1>5

LEMMA GuardTypes ==
    ASSUME TypeOK, NEW t \in Tasks, GuardTick(t)
    PROVE  TypeOK'
<1> DEFINE late == {r \in overdue : Watched(run[r])}
<1>1. [NoLocal EXCEPT !.todo = late] \in Local BY NoLocalType DEF TypeOK, Local, NoLocal
<1>2. pc' \in [Tasks -> Labels] /\ local' \in [Tasks -> Local]
  BY <1>1, GotoType DEF GuardTick, Labels
<1>. QED BY <1>2 DEF TypeOK, GuardTick, locks, external

LEMMA SurroundingTypes ==
    ASSUME TypeOK, Environment \/ Fault \/ \E e \in Events : HookIgnore(e)
           \/ \E t \in Tasks : Abort(t)
    PROVE  (\E t \in Tasks : DispatchCallFails(t)) \/ TypeOK'
<1>1. ASSUME NEW r \in Runs, Expire(r) PROVE TypeOK'
  BY <1>1 DEF TypeOK, Expire, locks, external
<1>2. ASSUME NEW w \in Switchable, SetDisabled(w) PROVE TypeOK'
  BY <1>2, SwitchAssumption DEF TypeOK, SetDisabled, locks, external
<1>3. ASSUME NEW g \in GitIds, GitStarts(g) PROVE TypeOK'
  <2>1. git' \in [GitIds -> GitRun] BY <1>3 DEF TypeOK, GitStarts, GitRun
  <2>2. InProgress(g) \in Event BY DEF InProgress, Event
  <2>. QED BY <1>3, <2>1, <2>2 DEF TypeOK, GitStarts, locks
<1>4. ASSUME NEW g \in GitIds, NEW c \in Conclusions, GitJobEnds(g, c) PROVE TypeOK'
  <2>1. c \in RawConclusions BY ConclusionsAssumption
  <2>2. git' \in [GitIds -> GitRun] BY <1>4, <2>1 DEF TypeOK, GitJobEnds, GitRun
  <2>3. Completed(g, c) \in Event BY <2>1 DEF Completed, Event
  <2>. QED BY <1>4, <2>2, <2>3 DEF TypeOK, GitJobEnds, locks
<1>5. ASSUME NEW e \in Events, HookIgnore(e) \/ EventLost(e) PROVE TypeOK'
  BY <1>5, BoundsAssumption DEF TypeOK, HookIgnore, EventLost, locks
<1>6. ASSUME NEW e \in Events, EventRepeated(e) PROVE TypeOK'
  <2>1. e \in Event
    BY ConclusionsAssumption DEF Events, Event, InProgress, Completed
  <2>. QED BY <1>6, <2>1, BoundsAssumption DEF TypeOK, EventRepeated, locks
<1>7. ASSUME NEW t \in Tasks, Abort(t) PROVE TypeOK'
  BY <1>7, ReturnType, BoundsAssumption DEF TypeOK, Abort, external
<1>. QED BY <1>1, <1>2, <1>3, <1>4, <1>5, <1>6, <1>7 DEF Environment, Fault

LEMMA CallerRowType ==
    ASSUME NEW row \in Row, NEW b \in Bodies
    PROVE  FromCaller(row, b) \in Row
BY BodiesAssumption DEF FromCaller, Row

LEMMA CallerTypes ==
    ASSUME TypeOK, Callers
    PROVE  TypeOK'
<1>1. PICK r \in Runs : UpdateWorkflowRun(r)
                       \/ \E w \in Workflows, s \in Submissions : CreateWorkflowRun(r, w, s)
  BY DEF Callers
<1>2. ASSUME UpdateWorkflowRun(r) PROVE TypeOK'
  <2>1. PICK b \in Bodies : run' = [run EXCEPT ![r] = FromCaller(@, b)] BY <1>2 DEF UpdateWorkflowRun
  <2>2. run' \in [Runs -> Row] BY <2>1, CallerRowType DEF TypeOK
  <2>3. overdue' \subseteq Runs BY <1>2 DEF UpdateWorkflowRun, TypeOK
  <2>. QED BY <1>2, <2>2, <2>3 DEF UpdateWorkflowRun, TypeOK, locks, external
<1>3. ASSUME NEW w \in Workflows, NEW s \in Submissions, CreateWorkflowRun(r, w, s) PROVE TypeOK'
  <2>1. PICK b \in Bodies : run' = [run EXCEPT ![r] = FromCaller(NewRow(w, s, "request"), b)]
    BY <1>3 DEF CreateWorkflowRun
  <2>2. NewRow(w, s, "request") \in Row BY DEF NewRow, AbsentRow, Row, InProgressStatuses
  <2>3. run' \in [Runs -> Row] BY <2>1, <2>2, CallerRowType DEF TypeOK
  <2>. QED BY <1>3, <2>3 DEF CreateWorkflowRun, TypeOK, locks, external
<1>. QED BY <1>1, <1>2, <1>3

\* Every step keeps the types.
LEMMA TypeStep ==
    ASSUME TypeOK, Shape, [Next]_vars
    PROVE  TypeOK'
<1>1. CASE Begin
  <2>1. Consumers \subseteq Tasks /\ Admins \subseteq Tasks /\ Guards \subseteq Tasks
        /\ Hooks \subseteq Tasks
    BY DEF Tasks
  <2>2. CASE \E t \in Consumers, s \in Submissions : QueueRead(t, s)
    BY <2>1, <2>2, QueueTypes
  <2>3. CASE \E t \in Admins, r \in Runs : RetriggerRead(t, r)
    BY <2>1, <2>3, RetriggerTypes
  <2>4. CASE \E t \in Guards : GuardTick(t) BY <2>1, <2>4, GuardTypes
  <2>5. CASE \E e \in Events : HookIgnore(e)
    BY <2>5, SurroundingTypes, DispatchTypes
  <2>6. CASE \E e \in Events, t \in Hooks, r \in Runs :
               HookInProgress(t, e, r) \/ HookCompleted(t, e, r)
    BY <2>1, <2>6, HookTypes
  <2>. QED BY <1>1, <2>2, <2>3, <2>4, <2>5, <2>6 DEF Begin, Deliver
<1>2. CASE \E t \in Tasks : Advance(t)
  BY <1>2, DispatchTypes, RetryTypes, LoopTypes, QueueTypes, RetriggerTypes, HookTypes
  DEF Advance
<1>3. CASE Environment BY <1>3, SurroundingTypes, DispatchTypes
<1>4. CASE Fault BY <1>4, SurroundingTypes, DispatchTypes
<1>5. CASE UNCHANGED vars BY <1>5 DEF TypeOK, vars
<1>6. CASE Callers BY <1>6, CallerTypes
<1>. QED BY <1>1, <1>2, <1>3, <1>4, <1>5, <1>6 DEF Next

-----------------------------------------------------------------------------
(* The invariant.                                                           *)

\* What a task of the service may do next.
TaskStep(t) ==
    \/ Advance(t) \/ DispatchCallFails(t) \/ Abort(t)
    \/ t \in Consumers /\ \E s \in Submissions : QueueRead(t, s)
    \/ t \in Admins /\ \E r \in Runs : RetriggerRead(t, r)
    \/ t \in Guards /\ GuardTick(t)
    \/ t \in Hooks /\ \E e \in Events, r \in Runs : HookInProgress(t, e, r) \/ HookCompleted(t, e, r)

Bystanders(t) == \A u \in Tasks \ {t} : pc'[u] = pc[u] /\ local'[u] = local[u]

\* Rows stay, keep whose they are, and never take a retry back.
RowsKept ==
    \A r \in Runs : Exists(r) =>
        /\ Exists(r)'
        /\ run'[r].workflow = run[r].workflow
        /\ run'[r].submission = run[r].submission
        /\ run'[r].origin = run[r].origin
        /\ run'[r].retryCount >= run[r].retryCount

LEMMA GotoEffect ==
    ASSUME TypeOK, NEW t \in Tasks, NEW label, NEW l, Goto(t, label, l)
    PROVE  Bystanders(t) /\ pc'[t] = label /\ local'[t] = l
BY DEF TypeOK, Goto, Bystanders

LEMMA HandKept ==
    ASSUME TypeOK, Shape, RowsKept, NEW u \in Tasks, pc'[u] = pc[u], local'[u] = local[u]
    PROVE  HandShape(u)'
BY DEF TypeOK, Shape, HandShape, RowsKept, Exists, Local, RunLabels, DispatchLabels

LEMMA NewRowFields ==
    ASSUME NEW w, NEW s, NEW o
    PROVE  /\ NewRow(w, s, o).status = "INIT" /\ NewRow(w, s, o).workflow = w
           /\ NewRow(w, s, o).submission = s /\ NewRow(w, s, o).origin = o
           /\ NewRow(w, s, o).gitRunId = None /\ NewRow(w, s, o).retryCount = 0
           /\ NewRow(w, s, o).writer = "service"
BY DEF NewRow, AbsentRow

-----------------------------------------------------------------------------
(* What the steps that create rows do.                                      *)

LEMMA QueueCreateEffect ==
    ASSUME TypeOK, Shape, NEW t \in Tasks, QueueCreate(t)
    PROVE  LET s == local[t].submission
               made == local'[t].todo
           IN  /\ s \in Submissions /\ made \subseteq Runs
               /\ \A r \in made : /\ ~Exists(r)
                                  /\ run'[r].status = "INIT"
                                  /\ run'[r].origin = "queue"
                                  /\ run'[r].submission = s
                                  /\ run'[r].workflow \in Workflows
                                  /\ run'[r].gitRunId = None
                                  /\ run'[r].retryCount = 0
                                  /\ run'[r].writer = "service"
               /\ \A q, r \in made : run'[q].workflow = run'[r].workflow => q = r
               /\ \A r \in Runs \ made : run'[r] = run[r]
               /\ Bystanders(t)
               /\ pc[t] = "q_create" /\ pc'[t] = "loop" /\ git' = git
<1> DEFINE s == local[t].submission
           active == local[t].active
<1>1. PICK new \in [active -> {r \in Runs : ~Exists(r)}] :
         /\ \A v, w \in active : new[v] = new[w] => v = w
         /\ run' = [r \in Runs |->
                      IF \E w \in active : new[w] = r
                      THEN NewRow(CHOOSE w \in active : new[w] = r, s, "queue")
                      ELSE run[r]]
         /\ Goto(t, "loop", [NoLocal EXCEPT !.todo = {new[w] : w \in active}])
  BY DEF QueueCreate
<1> DEFINE made == {new[w] : w \in active}
<1>2. active \subseteq Workflows /\ s \in Submissions
  BY DEF TypeOK, Local, Shape, HandShape, QueueCreate
<1>3. local'[t].todo = made /\ pc'[t] = "loop" /\ Bystanders(t)
  BY <1>1, GotoEffect DEF NoLocal
<1>5. ASSUME NEW r \in made
      PROVE  \E w \in active : new[w] = r /\ run'[r] = NewRow(w, s, "queue") /\ ~Exists(r) /\ r \in Runs
  <2>1. r \in Runs /\ ~Exists(r) /\ \E w \in active : new[w] = r BY <1>1
  <2>2. run'[r] = NewRow(CHOOSE w \in active : new[w] = r, s, "queue") BY <1>1, <2>1
  <2>. QED BY <2>1, <2>2
<1>6. \A r \in Runs \ made : run'[r] = run[r] BY <1>1
<1>7. \A q, r \in made : run'[q].workflow = run'[r].workflow => q = r
  BY <1>5, NewRowFields
<1>8. \A r \in made : /\ ~Exists(r) /\ r \in Runs
                      /\ run'[r].status = "INIT" /\ run'[r].origin = "queue"
                      /\ run'[r].submission = s /\ run'[r].workflow \in Workflows
                      /\ run'[r].gitRunId = None /\ run'[r].retryCount = 0
                      /\ run'[r].writer = "service"
  BY <1>2, <1>5, NewRowFields
<1>9. pc[t] = "q_create" /\ git' = git BY DEF QueueCreate, external
<1>. QED BY <1>2, <1>3, <1>6, <1>7, <1>8, <1>9

LEMMA RetriggerCreateEffect ==
    ASSUME TypeOK, Shape, NEW t \in Tasks, NEW r \in Runs, RetriggerCreate(t, r)
    PROVE  /\ ~Exists(r)
           /\ run'[r].status = "INIT" /\ run'[r].origin = "retrigger"
           /\ run'[r].submission = local[t].submission /\ run'[r].submission \in Submissions
           /\ run'[r].workflow \in Workflows
           /\ run'[r].gitRunId = None /\ run'[r].retryCount = 0
           /\ run'[r].writer = "service"
           /\ \A q \in Runs \ {r} : run'[q] = run[q]
           /\ Bystanders(t) /\ git' = git /\ pc[t] = "a_create"
           /\ \/ pc'[t] = "idle" /\ local'[t].todo = {}
              \/ /\ pc'[t] = "d_workflow" /\ local'[t].run = r
                 /\ local'[t].todo = {} /\ local'[t].attempt = 0
<1>1. PICK w \in local[t].active :
         run' = [run EXCEPT ![r] = NewRow(w, local[t].submission, "retrigger")]
  BY DEF RetriggerCreate
<1>2. w \in Workflows /\ local[t].submission \in Submissions
  BY DEF TypeOK, Local, Shape, HandShape, RetriggerCreate
<1>3. run'[r] = NewRow(w, local[t].submission, "retrigger")
      /\ \A q \in Runs \ {r} : run'[q] = run[q]
  BY <1>1 DEF TypeOK
<1>4. /\ Bystanders(t)
      /\ \/ pc'[t] = "idle" /\ local'[t].todo = {}
         \/ pc'[t] = "d_workflow" /\ local'[t].run = r /\ local'[t].todo = {} /\ local'[t].attempt = 0
  BY GotoEffect DEF RetriggerCreate, Return, NoLocal
<1>5. ~Exists(r) /\ git' = git /\ pc[t] = "a_create" BY DEF RetriggerCreate, external
<1>. QED BY <1>2, <1>3, <1>4, <1>5, NewRowFields

-----------------------------------------------------------------------------
(* What is read of the table by the other lemmas.                           *)

\* What Shape says of the table.
RowShape == \A r \in Runs : IF Exists(r)
                            THEN run[r].workflow \in Workflows /\ run[r].submission \in Submissions
                            ELSE run[r] = AbsentRow

LEMMA Writers ==
    ASSUME NEW t \in Tasks, TaskStep(t)
    PROVE  \/ UNCHANGED run
           \/ QueueCreate(t) \/ \E r \in Runs : RetriggerCreate(t, r)
           \/ DispatchCancel(t) \/ DispatchWrite(t) \/ DispatchRestore(t) \/ DispatchRecord(t)
           \/ RetryExhausted(t) \/ RetryRequeue(t) \/ HookStart(t) \/ HookClose(t)
BY DEF TaskStep, Advance, Dispatch, Retry, Loop, QueueRead, QueueAlreadyQueued, QueueLock,
       LoopNext, LoopEnd, RetriggerRead, DispatchReadWorkflow, DispatchRead, DispatchCall,
       DispatchCallFails, RetryLock, RetrySettled, RetryUnlock, GuardTick, HookInProgress,
       HookCompleted, HookPublish, Abort, Goto

LEMMA RowsStep ==
    ASSUME TypeOK, Shape, NEW t \in Tasks, TaskStep(t)
    PROVE  RowsKept /\ RowShape'
<1>0. \A r \in Runs : run[r].retryCount \in Nat BY DEF TypeOK, Row
<1>r. pc[t] \in RunLabels => local[t].run \in Runs /\ run[local[t].run] \in Row
  BY RunInHand
<1>1. ASSUME QueueCreate(t) PROVE RowsKept /\ RowShape'
  <2>1. /\ RowsKept
        /\ \A r \in local'[t].todo : /\ run'[r].status = "INIT"
                                       /\ run'[r].workflow \in Workflows
                                       /\ run'[r].submission \in Submissions
    BY <1>1, <1>0, QueueCreateEffect DEF RowsKept, Exists
  <2>2. \A r \in Runs : r \in local'[t].todo \/ run'[r] = run[r]
    BY <1>1, QueueCreateEffect
  <2>. QED BY <2>1, <2>2 DEF RowShape, Shape, Exists
<1>2. ASSUME NEW r \in Runs, RetriggerCreate(t, r) PROVE RowsKept /\ RowShape'
  BY <1>2, <1>0, RetriggerCreateEffect DEF RowsKept, RowShape, Shape, Exists
<1>3. CASE UNCHANGED run
  BY <1>3, <1>0 DEF RowsKept, RowShape, Shape, Exists
<1>. USE <1>r, <1>0
     DEF RowsKept, RowShape, TypeOK, Shape, HandShape, Exists, RunLabels,
          DispatchLabels, TerminalStatuses, InProgressStatuses, Row, Local,
          RetryUnlock, Goto, Return, BackToLoop, NoLocal, locks, external
<1>4. ASSUME DispatchCancel(t) PROVE RowsKept /\ RowShape'
  BY <1>4 DEF DispatchCancel, DispatchReturns
<1>5. ASSUME DispatchWrite(t) PROVE RowsKept /\ RowShape' BY <1>5 DEF DispatchWrite
<1>6. ASSUME DispatchRestore(t) PROVE RowsKept /\ RowShape' BY <1>6 DEF DispatchRestore
<1>7. ASSUME DispatchRecord(t) PROVE RowsKept /\ RowShape'
  BY <1>7 DEF DispatchRecord, DispatchReturns
<1>8. ASSUME RetryExhausted(t) PROVE RowsKept /\ RowShape'
  BY <1>8, SMTT(30) DEF RetryExhausted, RetryRefused
<1>9. ASSUME RetryRequeue(t) PROVE RowsKept /\ RowShape' BY <1>9 DEF RetryRequeue
<1>10. ASSUME HookStart(t) PROVE RowsKept /\ RowShape' BY <1>10 DEF HookStart
<1>11. ASSUME HookClose(t) PROVE RowsKept /\ RowShape' BY <1>11, SMTT(30) DEF HookClose
<1>. QED BY <1>1, <1>2, <1>3, <1>4, <1>5, <1>6, <1>7, <1>8, <1>9, <1>10, <1>11, Writers

\* The service's own handlers leave the auxiliary alone.
LEMMA WriterStep ==
    ASSUME TypeOK, Shape, NEW t \in Tasks, TaskStep(t)
    PROVE  \A r \in Runs : run'[r].writer = run[r].writer
<1> DEFINE Kept == \A r \in Runs : run'[r].writer = run[r].writer
<1>0. \A r \in Runs : ~Exists(r) => run[r].writer = "service" BY DEF Shape, AbsentRow
<1>r. pc[t] \in RunLabels => local[t].run \in Runs /\ run[local[t].run] \in Row
  BY RunInHand
<1>1. ASSUME QueueCreate(t) PROVE Kept BY <1>0, <1>1, QueueCreateEffect
<1>2. ASSUME NEW r \in Runs, RetriggerCreate(t, r) PROVE Kept
  BY <1>0, <1>2, RetriggerCreateEffect
<1>3. CASE UNCHANGED run BY <1>3
<1>. USE <1>r DEF TypeOK, RunLabels, DispatchLabels, Row, RetryUnlock
<1>4. ASSUME DispatchCancel(t) PROVE Kept BY <1>4 DEF DispatchCancel
<1>5. ASSUME DispatchWrite(t) PROVE Kept BY <1>5 DEF DispatchWrite
<1>6. ASSUME DispatchRestore(t) PROVE Kept BY <1>6 DEF DispatchRestore
<1>7. ASSUME DispatchRecord(t) PROVE Kept BY <1>7 DEF DispatchRecord
<1>8. ASSUME RetryExhausted(t) PROVE Kept BY <1>8 DEF RetryExhausted
<1>9. ASSUME RetryRequeue(t) PROVE Kept BY <1>9 DEF RetryRequeue
<1>10. ASSUME HookStart(t) PROVE Kept BY <1>10 DEF HookStart
<1>11. ASSUME HookClose(t) PROVE Kept BY <1>11 DEF HookClose
<1>. QED BY <1>1, <1>2, <1>3, <1>4, <1>5, <1>6, <1>7, <1>8, <1>9, <1>10, <1>11, Writers

\* What a caller does to the table, and to nothing else that the invariant is of.
CallerWrote(r) ==
    /\ \A q \in Runs \ {r} : run'[q] = run[q]
    /\ Exists(r)'
    /\ run'[r].workflow \in Workflows /\ run'[r].submission \in Submissions
    /\ run'[r].writer = "caller" /\ run'[r].retryCount = run[r].retryCount
    /\ IF Exists(r) THEN /\ run'[r].workflow = run[r].workflow
                         /\ run'[r].submission = run[r].submission
                         /\ run'[r].origin = run[r].origin
                    ELSE run'[r].origin = "request"
    /\ UNCHANGED <<rlock, qlock, pc, local, git, mail, faults>>

LEMMA FromCallerFields ==
    ASSUME NEW row \in Row, NEW b \in Bodies
    PROVE  LET new == FromCaller(row, b)
           IN  /\ new.status # "ABSENT" /\ new.writer = "caller"
               /\ new.workflow = row.workflow /\ new.submission = row.submission
               /\ new.origin = row.origin /\ new.retryCount = row.retryCount
BY BodiesAssumption DEF FromCaller, Row, InProgressStatuses, TerminalStatuses

LEMMA CallerEffect ==
    ASSUME TypeOK, Shape, Callers
    PROVE  \E r \in Runs : CallerWrote(r)
<1>1. PICK r \in Runs : UpdateWorkflowRun(r)
                       \/ \E w \in Workflows, s \in Submissions : CreateWorkflowRun(r, w, s)
  BY DEF Callers
<1>0. run \in [Runs -> Row] /\ run[r] \in Row BY DEF TypeOK
<1>2. ASSUME UpdateWorkflowRun(r) PROVE CallerWrote(r)
  <2>1. PICK b \in Bodies : run' = [run EXCEPT ![r] = FromCaller(run[r], b)]
    BY <1>2 DEF UpdateWorkflowRun
  <2>2. run'[r] = FromCaller(run[r], b) /\ \A q \in Runs \ {r} : run'[q] = run[q]
    BY <1>0, <2>1
  <2>3. Exists(r) /\ run[r].workflow \in Workflows /\ run[r].submission \in Submissions
    BY <1>2 DEF UpdateWorkflowRun, Shape
  <2>4. UNCHANGED <<rlock, qlock, pc, local, git, mail, faults>>
    BY <1>2 DEF UpdateWorkflowRun, locks, external
  <2>. QED BY <1>0, <2>2, <2>3, <2>4, FromCallerFields DEF CallerWrote, Exists
<1>3. ASSUME NEW w \in Workflows, NEW s \in Submissions, CreateWorkflowRun(r, w, s)
      PROVE  CallerWrote(r)
  <2>1. PICK b \in Bodies : run' = [run EXCEPT ![r] = FromCaller(NewRow(w, s, "request"), b)]
    BY <1>3 DEF CreateWorkflowRun
  <2>2. /\ run'[r] = FromCaller(NewRow(w, s, "request"), b)
        /\ \A q \in Runs \ {r} : run'[q] = run[q]
    BY <1>0, <2>1
  <2>3. NewRow(w, s, "request") \in Row BY DEF NewRow, AbsentRow, Row, InProgressStatuses
  <2>4. ~Exists(r) /\ run[r].retryCount = 0 BY <1>3 DEF CreateWorkflowRun, Shape, AbsentRow
  <2>5. UNCHANGED <<rlock, qlock, pc, local, git, mail, faults>>
    BY <1>3 DEF CreateWorkflowRun, locks, external
  <2>. QED BY <2>2, <2>3, <2>4, <2>5, FromCallerFields, NewRowFields DEF CallerWrote, Exists
<1>. QED BY <1>1, <1>2, <1>3

\* Each handler has in hand what its next step needs.
LEMMA HandsStep ==
    ASSUME TypeOK, Shape, RowsKept, NEW t \in Tasks, TaskStep(t)
    PROVE  \A u \in Tasks : HandShape(u)'
<1>1. ASSUME QueueCreate(t) PROVE \A u \in Tasks : HandShape(u)'
  <2>1. PICK new \in [local[t].active -> {r \in Runs : ~Exists(r)}] :
           /\ run' = [r \in Runs |->
                        IF \E w \in local[t].active : new[w] = r
                        THEN NewRow(CHOOSE w \in local[t].active : new[w] = r,
                                    local[t].submission, "queue")
                        ELSE run[r]]
           /\ Goto(t, "loop", [NoLocal EXCEPT !.todo = {new[w] : w \in local[t].active}])
    BY <1>1 DEF QueueCreate
  <2>2. \A u \in Tasks \ {t} : HandShape(u)'
    BY <2>1, HandKept, GotoEffect DEF Bystanders
  <2>3. pc'[t] = "loop" /\ local'[t].todo = {new[w] : w \in local[t].active}
    BY <2>1, GotoEffect DEF NoLocal
  <2>4. \A r \in local'[t].todo : Exists(r)'
    <3>1. ASSUME NEW w \in local[t].active PROVE run'[new[w]].status = "INIT"
      BY <2>1, NewRowFields
    <3>. QED BY <2>3, <3>1 DEF Exists
  <2>5. t \in Consumers BY <1>1 DEF Shape, HandShape, QueueCreate
  <2>6. HandShape(t)' BY <2>3, <2>4, <2>5 DEF HandShape, Exists, RunLabels, DispatchLabels
  <2>. QED BY <2>2, <2>6
<1>2. ASSUME NEW r \in Runs, LoopNext(t, r) PROVE \A u \in Tasks : HandShape(u)'
  <2>1. \A u \in Tasks \ {t} : HandShape(u)'
    BY <1>2, HandKept, GotoEffect DEF LoopNext, Bystanders
  <2>2. /\ pc'[t] = (IF t \in Guards THEN "r_lock" ELSE "d_workflow")
        /\ local'[t].run = r /\ local'[t].todo = local[t].todo \ {r}
        /\ pc'[t] = "r_lock" => local'[t].verdict = "TIMEOUT"
    BY <1>2 DEF TypeOK, LoopNext, Goto, NoLocal
  <2>3. \A q \in local[t].todo : Exists(q)'
    BY <1>2 DEF TypeOK, Shape, HandShape, RowsKept, LoopNext, Local
  <2>4. HandShape(t)'
    BY <1>2, <2>2, <2>3 DEF HandShape, LoopNext, Exists, RunLabels, DispatchLabels, TerminalStatuses
  <2>. QED BY <2>1, <2>4
<1>3. ASSUME NEW r \in Runs, RetriggerCreate(t, r) PROVE \A u \in Tasks : HandShape(u)'
  <2>1. \A u \in Tasks \ {t} : HandShape(u)'
    BY <1>3, HandKept, GotoEffect DEF RetriggerCreate, Return, Bystanders
  <2>2. Exists(r)'
    <3>1. PICK w \in local[t].active :
             run' = [run EXCEPT ![r] = NewRow(w, local[t].submission, "retrigger")]
      BY <1>3 DEF RetriggerCreate
    <3>. QED BY <3>1, NewRowFields DEF Exists, TypeOK
  <2>3. \/ pc'[t] = "d_workflow" /\ local'[t].run = r /\ local'[t].todo = {}
        \/ pc'[t] = "idle" /\ local'[t].todo = {}
    BY <1>3, GotoEffect DEF RetriggerCreate, Return, NoLocal
  <2>4. HandShape(t)' BY <2>2, <2>3 DEF HandShape, Exists, RunLabels, DispatchLabels
  <2>. QED BY <2>1, <2>4
<1>4. ASSUME RetrySettled(t) PROVE \A u \in Tasks : HandShape(u)'
  <2>0. RetryRefused(t) /\ pc[t] = "r_commit"
    BY <1>4 DEF RetrySettled, RetryExhausted, RetryUnlock
  <2>1. \A u \in Tasks \ {t} : HandShape(u)'
    BY <2>0, HandKept, GotoEffect DEF RetryRefused, BackToLoop, Bystanders
  <2>2. CASE t \in Hooks
    <3>1. /\ pc'[t] = "h_close" /\ local'[t].run = local[t].run
          /\ local'[t].verdict = local[t].verdict /\ local'[t].todo = {}
      BY <2>0, <2>2 DEF TypeOK, RetryRefused, Goto, NoLocal
    <3>. QED BY <3>1, <2>0, <2>1 DEF Shape, HandShape, RowsKept, Exists, RunLabels, DispatchLabels
  <2>3. CASE t \notin Hooks
    <3>1. pc'[t] = "loop" /\ local'[t].todo = local[t].todo
      BY <2>0, <2>3, GotoEffect DEF RetryRefused, BackToLoop, NoLocal
    <3>2. local[t].todo \subseteq Runs BY DEF TypeOK, Local
    <3>. QED BY <3>1, <3>2, <2>0, <2>1, <2>3 DEF Shape, HandShape, RowsKept, Exists, RunLabels, DispatchLabels
  <2>. QED BY <2>2, <2>3
<1>5. ASSUME RetryExhausted(t) PROVE \A u \in Tasks : HandShape(u)'
  <2>0. RetryRefused(t) /\ pc[t] = "r_commit"
    BY <1>5 DEF RetrySettled, RetryExhausted, RetryUnlock
  <2>1. \A u \in Tasks \ {t} : HandShape(u)'
    BY <2>0, HandKept, GotoEffect DEF RetryRefused, BackToLoop, Bystanders
  <2>2. CASE t \in Hooks
    <3>1. /\ pc'[t] = "h_close" /\ local'[t].run = local[t].run
          /\ local'[t].verdict = local[t].verdict /\ local'[t].todo = {}
      BY <2>0, <2>2 DEF TypeOK, RetryRefused, Goto, NoLocal
    <3>. QED BY <3>1, <2>0, <2>1 DEF Shape, HandShape, RowsKept, Exists, RunLabels, DispatchLabels
  <2>3. CASE t \notin Hooks
    <3>1. pc'[t] = "loop" /\ local'[t].todo = local[t].todo
      BY <2>0, <2>3, GotoEffect DEF RetryRefused, BackToLoop, NoLocal
    <3>2. local[t].todo \subseteq Runs BY DEF TypeOK, Local
    <3>. QED BY <3>1, <3>2, <2>0, <2>1, <2>3 DEF Shape, HandShape, RowsKept, Exists, RunLabels, DispatchLabels
  <2>. QED BY <2>2, <2>3
<1>6. ASSUME NEW e \in Events, NEW r \in Runs, HookInProgress(t, e, r), t \in Hooks PROVE \A u \in Tasks : HandShape(u)'
  <2>1. \A u \in Tasks \ {t} : HandShape(u)'
    BY <1>6, HandKept, GotoEffect DEF HookInProgress, HookCompleted, Bystanders
  <2>2. Exists(r) /\ Exists(r)'
    BY <1>6 DEF Exists, HookInProgress, HookCompleted, Accepts
  <2>3. Normalize(e.conclusion) \in TerminalStatuses BY DEF Normalize, TerminalStatuses
  <2>4. /\ pc'[t] \in {"h_start", "h_close", "r_lock"}
        /\ local'[t].run = r /\ local'[t].todo = {}
        /\ pc'[t] # "h_start" => local'[t].verdict = Normalize(e.conclusion)
    BY <1>6 DEF TypeOK, HookInProgress, HookCompleted, Goto, NoLocal
  <2>5. HandShape(t)' BY <1>6, <2>2, <2>3, <2>4 DEF HandShape, Exists, RunLabels, DispatchLabels
  <2>. QED BY <2>1, <2>5
<1>7. ASSUME NEW e \in Events, NEW r \in Runs, HookCompleted(t, e, r), t \in Hooks PROVE \A u \in Tasks : HandShape(u)'
  <2>1. \A u \in Tasks \ {t} : HandShape(u)'
    BY <1>7, HandKept, GotoEffect DEF HookInProgress, HookCompleted, Bystanders
  <2>2. Exists(r) /\ Exists(r)'
    BY <1>7 DEF Exists, HookInProgress, HookCompleted, Accepts
  <2>3. Normalize(e.conclusion) \in TerminalStatuses BY DEF Normalize, TerminalStatuses
  <2>4. /\ pc'[t] \in {"h_start", "h_close", "r_lock"}
        /\ local'[t].run = r /\ local'[t].todo = {}
        /\ pc'[t] # "h_start" => local'[t].verdict = Normalize(e.conclusion)
    BY <1>7 DEF TypeOK, HookInProgress, HookCompleted, Goto, NoLocal
  <2>5. HandShape(t)' BY <1>7, <2>2, <2>3, <2>4 DEF HandShape, Exists, RunLabels, DispatchLabels
  <2>. QED BY <2>1, <2>5
<1>. USE RolesAssumption
     DEF HandShape, TypeOK, Shape, RowsKept, Exists, Local, RunLabels, DispatchLabels,
          TerminalStatuses, Tasks, Goto, Return, BackToLoop, NoLocal, locks, external
<1>8. ASSUME NEW s \in Submissions, QueueRead(t, s), t \in Consumers PROVE \A u \in Tasks : HandShape(u)'
  BY <1>8 DEF QueueRead
<1>9. ASSUME QueueAlreadyQueued(t) PROVE \A u \in Tasks : HandShape(u)'
  BY <1>9 DEF QueueAlreadyQueued
<1>10. ASSUME QueueLock(t) PROVE \A u \in Tasks : HandShape(u)' BY <1>10 DEF QueueLock
<1>11. ASSUME LoopEnd(t) PROVE \A u \in Tasks : HandShape(u)' BY <1>11 DEF LoopEnd
<1>12. ASSUME NEW r \in Runs, RetriggerRead(t, r), t \in Admins PROVE \A u \in Tasks : HandShape(u)'
  BY <1>12 DEF RetriggerRead
<1>13. ASSUME DispatchReadWorkflow(t) PROVE \A u \in Tasks : HandShape(u)'
  BY <1>13 DEF DispatchReadWorkflow
<1>14. ASSUME DispatchCancel(t) PROVE \A u \in Tasks : HandShape(u)'
  BY <1>14 DEF DispatchCancel, DispatchReturns
<1>15. ASSUME DispatchRead(t) PROVE \A u \in Tasks : HandShape(u)' BY <1>15 DEF DispatchRead
<1>16. ASSUME DispatchWrite(t) PROVE \A u \in Tasks : HandShape(u)'
  BY <1>16 DEF DispatchWrite
<1>17. ASSUME NEW g \in GitIds, DispatchCall(t, g) PROVE \A u \in Tasks : HandShape(u)'
  BY <1>17 DEF DispatchCall, GitMakesRun
<1>18. ASSUME DispatchCallFails(t) PROVE \A u \in Tasks : HandShape(u)'
  BY <1>18 DEF DispatchCallFails, GitMakesRun
<1>19. ASSUME DispatchRestore(t) PROVE \A u \in Tasks : HandShape(u)'
  BY <1>19 DEF DispatchRestore
<1>20. ASSUME DispatchRecord(t) PROVE \A u \in Tasks : HandShape(u)'
  BY <1>20 DEF DispatchRecord, DispatchReturns
<1>21. ASSUME RetryLock(t) PROVE \A u \in Tasks : HandShape(u)' BY <1>21 DEF RetryLock
<1>22. ASSUME RetryRequeue(t) PROVE \A u \in Tasks : HandShape(u)'
  BY <1>22 DEF RetryRequeue, RetryUnlock
<1>23. ASSUME GuardTick(t), t \in Guards PROVE \A u \in Tasks : HandShape(u)'
  BY <1>23 DEF GuardTick, Watched, WatchedStatuses
<1>24. ASSUME HookStart(t) PROVE \A u \in Tasks : HandShape(u)' BY <1>24 DEF HookStart
<1>25. ASSUME HookClose(t) PROVE \A u \in Tasks : HandShape(u)' BY <1>25 DEF HookClose
<1>26. ASSUME HookPublish(t) PROVE \A u \in Tasks : HandShape(u)' BY <1>26 DEF HookPublish
<1>27. ASSUME Abort(t) PROVE \A u \in Tasks : HandShape(u)' BY <1>27 DEF Abort
<1>. QED BY <1>1, <1>2, <1>3, <1>4, <1>5, <1>6, <1>7, <1>8, <1>9, <1>10, <1>11, <1>12,
     <1>13, <1>14, <1>15, <1>16, <1>17, <1>18, <1>19, <1>20, <1>21, <1>22, <1>23,
     <1>24, <1>25, <1>26, <1>27
  DEF TaskStep, Advance, Dispatch, Retry, Loop

-----------------------------------------------------------------------------
(* The locks, and what is read under them.                                  *)

LEMMA LockHeldStep ==
    ASSUME TypeOK, Shape, LockHeld, NEW t \in Tasks, TaskStep(t)
    PROVE  LockHeld'
<1>. USE NoneAssumption
     DEF LockHeld, TypeOK, RunLabels, DispatchLabels, Shape, HandShape, Goto, Return,
          BackToLoop, NoLocal, locks, external
<1>1. ASSUME NEW s \in Submissions, QueueRead(t, s), t \in Consumers PROVE LockHeld'
  BY <1>1 DEF QueueRead
<1>2. ASSUME QueueAlreadyQueued(t) PROVE LockHeld' BY <1>2 DEF QueueAlreadyQueued
<1>3. ASSUME QueueLock(t) PROVE LockHeld' BY <1>3 DEF QueueLock
<1>4. ASSUME QueueCreate(t) PROVE LockHeld' BY <1>4 DEF QueueCreate
<1>5. ASSUME NEW r \in Runs, LoopNext(t, r) PROVE LockHeld' BY <1>5 DEF LoopNext
<1>6. ASSUME LoopEnd(t) PROVE LockHeld' BY <1>6 DEF LoopEnd
<1>7. ASSUME NEW r \in Runs, RetriggerRead(t, r), t \in Admins PROVE LockHeld'
  BY <1>7 DEF RetriggerRead
<1>8. ASSUME NEW r \in Runs, RetriggerCreate(t, r) PROVE LockHeld'
  BY <1>8 DEF RetriggerCreate
<1>9. ASSUME DispatchReadWorkflow(t) PROVE LockHeld' BY <1>9 DEF DispatchReadWorkflow
<1>10. ASSUME DispatchCancel(t) PROVE LockHeld' BY <1>10 DEF DispatchCancel, DispatchReturns
<1>11. ASSUME DispatchRead(t) PROVE LockHeld' BY <1>11 DEF DispatchRead
<1>12. ASSUME DispatchWrite(t) PROVE LockHeld' BY <1>12 DEF DispatchWrite
<1>13. ASSUME NEW g \in GitIds, DispatchCall(t, g) PROVE LockHeld'
  BY <1>13 DEF DispatchCall, GitMakesRun
<1>14. ASSUME DispatchCallFails(t) PROVE LockHeld'
  BY <1>14 DEF DispatchCallFails, GitMakesRun
<1>15. ASSUME DispatchRestore(t) PROVE LockHeld' BY <1>15 DEF DispatchRestore
<1>16. ASSUME DispatchRecord(t) PROVE LockHeld' BY <1>16 DEF DispatchRecord, DispatchReturns
<1>17. ASSUME RetryLock(t) PROVE LockHeld' BY <1>17 DEF RetryLock
<1>18. ASSUME RetrySettled(t) PROVE LockHeld'
  BY <1>18 DEF RetrySettled, RetryUnlock, RetryRefused
<1>19. ASSUME RetryExhausted(t) PROVE LockHeld'
  BY <1>19 DEF RetryExhausted, RetryUnlock, RetryRefused
<1>20. ASSUME RetryRequeue(t) PROVE LockHeld' BY <1>20 DEF RetryRequeue, RetryUnlock
<1>21. ASSUME GuardTick(t), t \in Guards PROVE LockHeld' BY <1>21 DEF GuardTick
<1>22. ASSUME NEW e \in Events, NEW r \in Runs, HookInProgress(t, e, r), t \in Hooks PROVE LockHeld'
  BY <1>22 DEF HookInProgress, Accepts
<1>23. ASSUME NEW e \in Events, NEW r \in Runs, HookCompleted(t, e, r), t \in Hooks PROVE LockHeld'
  BY <1>23 DEF HookCompleted, Accepts
<1>24. ASSUME HookStart(t) PROVE LockHeld' BY <1>24 DEF HookStart
<1>25. ASSUME HookClose(t) PROVE LockHeld' BY <1>25 DEF HookClose
<1>26. ASSUME HookPublish(t) PROVE LockHeld' BY <1>26 DEF HookPublish
<1>27. ASSUME Abort(t) PROVE LockHeld' BY <1>27 DEF Abort
<1>. QED BY <1>1, <1>2, <1>3, <1>4, <1>5, <1>6, <1>7, <1>8, <1>9, <1>10, <1>11, <1>12,
     <1>13, <1>14, <1>15, <1>16, <1>17, <1>18, <1>19, <1>20, <1>21, <1>22, <1>23,
     <1>24, <1>25, <1>26, <1>27
  DEF TaskStep, Advance, Dispatch, Retry, Loop

LEMMA ReadStableStep ==
    ASSUME TypeOK, Shape, LockHeld, ReadStable, RowsKept, NEW t \in Tasks, TaskStep(t)
    PROVE  ReadStable'
<1>1. ASSUME QueueCreate(t) PROVE ReadStable'
  <2>1. ASSUME NEW u \in Tasks, pc'[u] \in {"r_commit", "q_create", "a_create"}
        PROVE  u # t /\ pc[u] = pc'[u] /\ local'[u] = local[u]
    BY <1>1, <2>1, QueueCreateEffect DEF Bystanders
  <2>2. \A r \in Runs : Exists(r) => run'[r] = run[r] BY <1>1, QueueCreateEffect
  <2>3. ASSUME NEW u \in Tasks, pc'[u] = "r_commit"
        PROVE  local'[u].saved.retryCount = run'[local'[u].run].retryCount
    BY <2>1, <2>2, <2>3 DEF ReadStable, Shape, HandShape, RunLabels
  <2>4. ASSUME NEW u \in Tasks, pc'[u] = "q_create"
        PROVE  \A r \in RowsOf(local[u].submission)' : run'[r].origin # "queue"
    <3>1. u # t /\ pc[u] = "q_create" /\ local'[u] = local[u] BY <2>1, <2>4
    <3>2. local[u].submission # local[t].submission
      BY <1>1, <3>1, QueueCreateEffect DEF LockHeld, Shape, HandShape
    <3>3. \A r \in RowsOf(local[u].submission) : run[r].origin # "queue" BY <3>1 DEF ReadStable
    <3>4. ASSUME NEW r \in Runs, Exists(r)', run'[r].submission = local[u].submission
          PROVE  run'[r].origin # "queue"
      <4>1. r \notin local'[t].todo BY <1>1, <3>2, <3>4, QueueCreateEffect
      <4>2. run'[r] = run[r] BY <1>1, <4>1, QueueCreateEffect
      <4>. QED BY <3>3, <3>4, <4>2 DEF RowsOf, Exists
    <3>. QED BY <3>1, <3>4 DEF RowsOf, Exists
  <2>5. ASSUME NEW u \in Tasks, pc'[u] = "a_create" PROVE RowsOf(local[u].submission)' # {}
    <3>1. pc[u] = "a_create" /\ local'[u] = local[u] BY <2>1, <2>5
    <3>2. PICK r \in Runs : Exists(r) /\ run[r].submission = local[u].submission
      BY <3>1 DEF ReadStable, RowsOf
    <3>3. Exists(r)' /\ run'[r].submission = local'[u].submission
      BY <3>1, <3>2 DEF RowsKept
    <3>. QED BY <3>3 DEF RowsOf, Exists
  <2>. QED BY <2>3, <2>4, <2>5 DEF ReadStable
<1>2. ASSUME NEW r \in Runs, RetriggerCreate(t, r) PROVE ReadStable'
  <2>1. ASSUME NEW u \in Tasks, pc'[u] \in {"r_commit", "q_create", "a_create"}
        PROVE  u # t /\ pc[u] = pc'[u] /\ local'[u] = local[u]
    BY <1>2, <2>1, RetriggerCreateEffect DEF Bystanders
  <2>2. \A q \in Runs : Exists(q) => run'[q] = run[q] BY <1>2, RetriggerCreateEffect
  <2>3. ASSUME NEW u \in Tasks, pc'[u] = "r_commit"
        PROVE  local'[u].saved.retryCount = run'[local'[u].run].retryCount
    BY <2>1, <2>2, <2>3 DEF ReadStable, Shape, HandShape, RunLabels
  <2>5. ASSUME NEW u \in Tasks, pc'[u] = "q_create"
        PROVE  \A p \in RowsOf(local[u].submission)' : run'[p].origin # "queue"
    <3>1. u # t /\ pc[u] = "q_create" /\ local'[u] = local[u] BY <2>1, <2>5
    <3>2. \A p \in RowsOf(local[u].submission) : run[p].origin # "queue" BY <3>1 DEF ReadStable
    <3>3. run'[r].origin # "queue" BY <1>2, RetriggerCreateEffect
    <3>4. ASSUME NEW p \in Runs \ {r}, Exists(p)', run'[p].submission = local[u].submission
          PROVE  run'[p].origin # "queue"
      BY <1>2, <3>2, <3>4, RetriggerCreateEffect DEF RowsOf, Exists
    <3>. QED BY <3>1, <3>3, <3>4 DEF RowsOf, Exists
  <2>6. ASSUME NEW u \in Tasks, pc'[u] = "a_create" PROVE RowsOf(local[u].submission)' # {}
    <3>1. pc[u] = "a_create" /\ local'[u] = local[u] BY <2>1, <2>6
    <3>2. PICK p \in Runs : Exists(p) /\ run[p].submission = local[u].submission
      BY <3>1 DEF ReadStable, RowsOf
    <3>3. Exists(p)' /\ run'[p].submission = local'[u].submission
      BY <3>1, <3>2 DEF RowsKept
    <3>. QED BY <3>3 DEF RowsOf, Exists
  <2>. QED BY <2>3, <2>5, <2>6 DEF ReadStable
<1>. USE NoneAssumption
     DEF ReadStable, TypeOK, Shape, HandShape, LockHeld, RowsOf, RowsKept, Exists,
          RunLabels, DispatchLabels, Row, Local, Goto, Return, BackToLoop, NoLocal,
          locks, external
<1>3. ASSUME NEW s \in Submissions, QueueRead(t, s), t \in Consumers PROVE ReadStable'
  BY <1>3 DEF QueueRead
<1>4. ASSUME QueueAlreadyQueued(t) PROVE ReadStable' BY <1>4 DEF QueueAlreadyQueued
<1>5. ASSUME QueueLock(t) PROVE ReadStable' BY <1>5 DEF QueueLock
<1>6. ASSUME NEW r \in Runs, LoopNext(t, r) PROVE ReadStable' BY <1>6 DEF LoopNext
<1>7. ASSUME LoopEnd(t) PROVE ReadStable' BY <1>7 DEF LoopEnd
<1>8. ASSUME NEW r \in Runs, RetriggerRead(t, r), t \in Admins PROVE ReadStable'
  BY <1>8 DEF RetriggerRead
<1>9. ASSUME DispatchReadWorkflow(t) PROVE ReadStable' BY <1>9 DEF DispatchReadWorkflow
<1>10. ASSUME DispatchCancel(t) PROVE ReadStable'
  BY <1>10 DEF DispatchCancel, DispatchReturns
<1>11. ASSUME DispatchRead(t) PROVE ReadStable' BY <1>11 DEF DispatchRead
<1>12. ASSUME DispatchWrite(t) PROVE ReadStable' BY <1>12 DEF DispatchWrite
<1>13. ASSUME NEW g \in GitIds, DispatchCall(t, g) PROVE ReadStable'
  BY <1>13 DEF DispatchCall, GitMakesRun
<1>14. ASSUME DispatchCallFails(t) PROVE ReadStable'
  BY <1>14 DEF DispatchCallFails, GitMakesRun
<1>15. ASSUME DispatchRestore(t) PROVE ReadStable' BY <1>15 DEF DispatchRestore
<1>16. ASSUME DispatchRecord(t) PROVE ReadStable'
  BY <1>16 DEF DispatchRecord, DispatchReturns
<1>17. ASSUME RetryLock(t) PROVE ReadStable' BY <1>17 DEF RetryLock
<1>18. ASSUME RetrySettled(t) PROVE ReadStable'
  BY <1>18 DEF RetrySettled, RetryUnlock, RetryRefused
<1>19. ASSUME RetryExhausted(t) PROVE ReadStable'
  BY <1>19 DEF RetryExhausted, RetryUnlock, RetryRefused
<1>20. ASSUME RetryRequeue(t) PROVE ReadStable' BY <1>20 DEF RetryRequeue, RetryUnlock
<1>21. ASSUME GuardTick(t), t \in Guards PROVE ReadStable' BY <1>21 DEF GuardTick
<1>22. ASSUME NEW e \in Events, NEW r \in Runs, HookInProgress(t, e, r), t \in Hooks PROVE ReadStable'
  BY <1>22 DEF HookInProgress, Accepts
<1>23. ASSUME NEW e \in Events, NEW r \in Runs, HookCompleted(t, e, r), t \in Hooks PROVE ReadStable'
  BY <1>23 DEF HookCompleted, Accepts
<1>24. ASSUME HookStart(t) PROVE ReadStable' BY <1>24 DEF HookStart
<1>25. ASSUME HookClose(t) PROVE ReadStable' BY <1>25 DEF HookClose
<1>26. ASSUME HookPublish(t) PROVE ReadStable' BY <1>26 DEF HookPublish
<1>27. ASSUME Abort(t) PROVE ReadStable' BY <1>27 DEF Abort
<1>. QED BY <1>1, <1>2, <1>3, <1>4, <1>5, <1>6, <1>7, <1>8, <1>9, <1>10, <1>11, <1>12,
     <1>13, <1>14, <1>15, <1>16, <1>17, <1>18, <1>19, <1>20, <1>21, <1>22, <1>23,
     <1>24, <1>25, <1>26, <1>27
  DEF TaskStep, Advance, Dispatch, Retry, Loop

-----------------------------------------------------------------------------
(* RetryBound and QueuedOnce.                                               *)

LEMMA RetryBoundStep ==
    ASSUME TypeOK, Shape, ReadStable, RetryBound, NEW t \in Tasks, TaskStep(t)
    PROVE  RetryBound'
<1>0. \A r \in Runs : run[r].retryCount \in Nat BY DEF TypeOK, Row
<1>r. pc[t] \in RunLabels => local[t].run \in Runs /\ run[local[t].run] \in Row
  BY RunInHand
<1>1. ASSUME QueueCreate(t) PROVE RetryBound'
  BY <1>1, QueueCreateEffect, RetriesAssumption DEF RetryBound
<1>2. ASSUME NEW r \in Runs, RetriggerCreate(t, r) PROVE RetryBound'
  BY <1>2, RetriggerCreateEffect, RetriesAssumption DEF RetryBound
<1>3. ASSUME RetryRequeue(t) PROVE RetryBound'
  <2>1. /\ local[t].run \in Runs /\ run[local[t].run].retryCount < MaxRetries
        /\ run'[local[t].run].retryCount = run[local[t].run].retryCount + 1
        /\ \A r \in Runs \ {local[t].run} : run'[r] = run[r]
    BY <1>3, <1>r DEF RetryRequeue, RetryUnlock, ReadStable, TypeOK, RunLabels, Row
  <2>. QED BY <2>1, <1>0, RetriesAssumption DEF RetryBound
<1>4. CASE UNCHANGED run BY <1>4 DEF RetryBound
<1>. USE <1>r
     DEF RetryBound, TypeOK, Shape, HandShape, Exists, RunLabels, DispatchLabels, Row,
          Local, Goto, Return, BackToLoop, NoLocal, locks, external
<1>5. ASSUME DispatchCancel(t) PROVE RetryBound' BY <1>5 DEF DispatchCancel, DispatchReturns
<1>6. ASSUME DispatchWrite(t) PROVE RetryBound' BY <1>6 DEF DispatchWrite
<1>7. ASSUME DispatchRestore(t) PROVE RetryBound' BY <1>7 DEF DispatchRestore
<1>8. ASSUME DispatchRecord(t) PROVE RetryBound' BY <1>8 DEF DispatchRecord, DispatchReturns
<1>9. ASSUME RetryExhausted(t) PROVE RetryBound'
  BY <1>9 DEF RetryExhausted, RetryUnlock, RetryRefused
<1>10. ASSUME HookStart(t) PROVE RetryBound' BY <1>10 DEF HookStart
<1>11. ASSUME HookClose(t) PROVE RetryBound' BY <1>11 DEF HookClose
<1>. QED BY <1>1, <1>2, <1>3, <1>4, <1>5, <1>6, <1>7, <1>8, <1>9, <1>10, <1>11, Writers

LEMMA QueuedOnceStep ==
    ASSUME TypeOK, Shape, ReadStable, QueuedOnce, NEW t \in Tasks, TaskStep(t)
    PROVE  QueuedOnce'
<1>r. pc[t] \in RunLabels => local[t].run \in Runs /\ run[local[t].run] \in Row
  BY RunInHand
<1>1. ASSUME QueueCreate(t) PROVE QueuedOnce'
  <2>1. \A r \in Runs \ local'[t].todo :
           run'[r].origin = "queue" => run'[r].submission # local[t].submission
    <3>1. \A r \in RowsOf(local[t].submission) : run[r].origin # "queue"
      BY <1>1 DEF ReadStable, QueueCreate
    <3>2. \A r \in Runs : run[r].origin = "queue" => Exists(r) BY DEF Shape, AbsentRow
    <3>. QED BY <1>1, <3>1, <3>2, QueueCreateEffect DEF RowsOf
  <2>. QED BY <1>1, <2>1, QueueCreateEffect DEF QueuedOnce
<1>2. ASSUME NEW r \in Runs, RetriggerCreate(t, r) PROVE QueuedOnce'
  BY <1>2, RetriggerCreateEffect DEF QueuedOnce
<1>3. CASE UNCHANGED run BY <1>3 DEF QueuedOnce
<1>. USE <1>r
     DEF QueuedOnce, TypeOK, Shape, HandShape, Exists, RunLabels, DispatchLabels, Row,
          Local, RetryUnlock, Goto, Return, BackToLoop, NoLocal, locks, external
<1>4. ASSUME DispatchCancel(t) PROVE QueuedOnce' BY <1>4 DEF DispatchCancel, DispatchReturns
<1>5. ASSUME DispatchWrite(t) PROVE QueuedOnce' BY <1>5 DEF DispatchWrite
<1>6. ASSUME DispatchRestore(t) PROVE QueuedOnce' BY <1>6 DEF DispatchRestore
<1>7. ASSUME DispatchRecord(t) PROVE QueuedOnce' BY <1>7 DEF DispatchRecord, DispatchReturns
<1>8. ASSUME RetryExhausted(t) PROVE QueuedOnce'
  BY <1>8, SMTT(30) DEF RetryExhausted, RetryRefused
<1>9. ASSUME RetryRequeue(t) PROVE QueuedOnce' BY <1>9 DEF RetryRequeue
<1>10. ASSUME HookStart(t) PROVE QueuedOnce' BY <1>10, SMTT(30) DEF HookStart
<1>11. ASSUME HookClose(t) PROVE QueuedOnce' BY <1>11, SMTT(30) DEF HookClose
<1>. QED BY <1>1, <1>2, <1>3, <1>4, <1>5, <1>6, <1>7, <1>8, <1>9, <1>10, <1>11, Writers

-----------------------------------------------------------------------------
(* The runs of Gitea.                                                       *)

\* No run is made, and nobody comes to record one.
GitQuiet ==
    /\ git' = git
    /\ \A u \in Tasks : pc'[u] = "d_record" => pc[u] = "d_record" /\ local'[u] = local[u]

\* Task t makes Gitea begin run g, for the row and the attempt it has in hand.
GitAsked(t, g) ==
    /\ pc[t] = "d_call" /\ pc'[t] \notin DispatchLabels /\ run' = run /\ Bystanders(t)
    /\ local'[t].todo = local[t].todo
    /\ git[g].run = None
    /\ git'[g].run = local[t].run /\ git'[g].attempt = local[t].attempt
    /\ \A h \in GitIds \ {g} : git'[h] = git[h]
    /\ pc'[t] = "d_record" => local'[t].git = g /\ local'[t].run = local[t].run

LEMMA GitStep ==
    ASSUME TypeOK, Shape, NEW t \in Tasks, TaskStep(t)
    PROVE  GitQuiet \/ \E g \in GitIds : GitAsked(t, g)
<1>1. ASSUME QueueCreate(t) PROVE GitQuiet \/ \E h \in GitIds : GitAsked(t, h)
  BY <1>1, QueueCreateEffect DEF Bystanders, GitQuiet
<1>2. ASSUME NEW r \in Runs, RetriggerCreate(t, r) PROVE GitQuiet \/ \E h \in GitIds : GitAsked(t, h)
  BY <1>2, RetriggerCreateEffect DEF Bystanders, GitQuiet
<1>3. ASSUME NEW g \in GitIds, DispatchCall(t, g) PROVE GitQuiet \/ \E h \in GitIds : GitAsked(t, h)
  <2>1. pc'[t] = "d_record" /\ local'[t] = [local[t] EXCEPT !.git = g, !.saved = AbsentRow] /\ Bystanders(t)
    BY <1>3, GotoEffect DEF DispatchCall
  <2>2. local'[t].git = g /\ local'[t].run = local[t].run /\ local'[t].todo = local[t].todo
    BY <2>1 DEF TypeOK, Local
  <2>3. /\ git[g].run = None
        /\ git'[g].run = local[t].run /\ git'[g].attempt = local[t].attempt
        /\ \A h \in GitIds \ {g} : git'[h] = git[h]
    BY <1>3 DEF DispatchCall, GitMakesRun, TypeOK, NoGitRun
  <2>. QED BY <1>3, <2>1, <2>2, <2>3 DEF DispatchCall, DispatchLabels, GitAsked
<1>4. ASSUME DispatchCallFails(t) PROVE GitQuiet \/ \E h \in GitIds : GitAsked(t, h)
  <2>1. pc'[t] = "d_restore" /\ local'[t] = local[t] /\ Bystanders(t)
    BY <1>4, GotoEffect DEF DispatchCallFails
  <2>2. CASE UNCHANGED git BY <2>1, <2>2 DEF Bystanders, GitQuiet
  <2>3. CASE \E g \in GitIds : GitMakesRun(t, g)
    <3>1. PICK g \in GitIds : GitMakesRun(t, g) BY <2>3
    <3>2. /\ git[g].run = None
          /\ git'[g].run = local[t].run /\ git'[g].attempt = local[t].attempt
          /\ \A h \in GitIds \ {g} : git'[h] = git[h]
      BY <3>1 DEF GitMakesRun, TypeOK, NoGitRun
    <3>. QED BY <1>4, <2>1, <3>2 DEF DispatchCallFails, DispatchLabels, GitAsked
  <2>. QED BY <1>4, <2>2, <2>3 DEF DispatchCallFails
<1>. USE DEF GitQuiet, TypeOK, Goto, Return, BackToLoop, NoLocal, locks, external
<1>5. ASSUME NEW s \in Submissions, QueueRead(t, s), t \in Consumers PROVE GitQuiet \/ \E h \in GitIds : GitAsked(t, h)
  BY <1>5 DEF QueueRead
<1>6. ASSUME QueueAlreadyQueued(t) PROVE GitQuiet \/ \E h \in GitIds : GitAsked(t, h)
  BY <1>6 DEF QueueAlreadyQueued
<1>7. ASSUME QueueLock(t) PROVE GitQuiet \/ \E h \in GitIds : GitAsked(t, h)
  BY <1>7 DEF QueueLock
<1>8. ASSUME NEW r \in Runs, LoopNext(t, r) PROVE GitQuiet \/ \E h \in GitIds : GitAsked(t, h)
  BY <1>8 DEF LoopNext
<1>9. ASSUME LoopEnd(t) PROVE GitQuiet \/ \E h \in GitIds : GitAsked(t, h)
  BY <1>9 DEF LoopEnd
<1>10. ASSUME NEW r \in Runs, RetriggerRead(t, r), t \in Admins PROVE GitQuiet \/ \E h \in GitIds : GitAsked(t, h)
  BY <1>10 DEF RetriggerRead
<1>11. ASSUME DispatchReadWorkflow(t) PROVE GitQuiet \/ \E h \in GitIds : GitAsked(t, h)
  BY <1>11 DEF DispatchReadWorkflow
<1>12. ASSUME DispatchCancel(t) PROVE GitQuiet \/ \E h \in GitIds : GitAsked(t, h)
  BY <1>12 DEF DispatchCancel, DispatchReturns
<1>13. ASSUME DispatchRead(t) PROVE GitQuiet \/ \E h \in GitIds : GitAsked(t, h)
  BY <1>13 DEF DispatchRead
<1>14. ASSUME DispatchWrite(t) PROVE GitQuiet \/ \E h \in GitIds : GitAsked(t, h)
  BY <1>14 DEF DispatchWrite
<1>15. ASSUME DispatchRestore(t) PROVE GitQuiet \/ \E h \in GitIds : GitAsked(t, h)
  BY <1>15 DEF DispatchRestore
<1>16. ASSUME DispatchRecord(t) PROVE GitQuiet \/ \E h \in GitIds : GitAsked(t, h)
  BY <1>16 DEF DispatchRecord, DispatchReturns
<1>17. ASSUME RetryLock(t) PROVE GitQuiet \/ \E h \in GitIds : GitAsked(t, h)
  BY <1>17 DEF RetryLock
<1>18. ASSUME RetrySettled(t) PROVE GitQuiet \/ \E h \in GitIds : GitAsked(t, h)
  BY <1>18 DEF RetrySettled, RetryUnlock, RetryRefused
<1>19. ASSUME RetryExhausted(t) PROVE GitQuiet \/ \E h \in GitIds : GitAsked(t, h)
  BY <1>19 DEF RetryExhausted, RetryUnlock, RetryRefused
<1>20. ASSUME RetryRequeue(t) PROVE GitQuiet \/ \E h \in GitIds : GitAsked(t, h)
  BY <1>20 DEF RetryRequeue, RetryUnlock
<1>21. ASSUME GuardTick(t), t \in Guards PROVE GitQuiet \/ \E h \in GitIds : GitAsked(t, h)
  BY <1>21 DEF GuardTick
<1>22. ASSUME NEW e \in Events, NEW r \in Runs, HookInProgress(t, e, r), t \in Hooks PROVE GitQuiet \/ \E h \in GitIds : GitAsked(t, h)
  BY <1>22 DEF HookInProgress, Accepts
<1>23. ASSUME NEW e \in Events, NEW r \in Runs, HookCompleted(t, e, r), t \in Hooks PROVE GitQuiet \/ \E h \in GitIds : GitAsked(t, h)
  BY <1>23 DEF HookCompleted, Accepts
<1>24. ASSUME HookStart(t) PROVE GitQuiet \/ \E h \in GitIds : GitAsked(t, h)
  BY <1>24 DEF HookStart
<1>25. ASSUME HookClose(t) PROVE GitQuiet \/ \E h \in GitIds : GitAsked(t, h)
  BY <1>25 DEF HookClose
<1>26. ASSUME HookPublish(t) PROVE GitQuiet \/ \E h \in GitIds : GitAsked(t, h)
  BY <1>26 DEF HookPublish
<1>27. ASSUME Abort(t) PROVE GitQuiet \/ \E h \in GitIds : GitAsked(t, h) BY <1>27 DEF Abort
<1>. QED BY <1>1, <1>2, <1>3, <1>4, <1>5, <1>6, <1>7, <1>8, <1>9, <1>10, <1>11, <1>12,
     <1>13, <1>14, <1>15, <1>16, <1>17, <1>18, <1>19, <1>20, <1>21, <1>22, <1>23,
     <1>24, <1>25, <1>26, <1>27
  DEF TaskStep, Advance, Dispatch, Retry, Loop

LEMMA RecordOwnedStep ==
    ASSUME TypeOK, Shape, RecordOwned, RowsKept, NEW t \in Tasks, TaskStep(t)
    PROVE  RecordOwned'
<1>1. CASE GitQuiet
  BY <1>1, NoneAssumption DEF GitQuiet, RecordOwned, RowsKept, Exists, TypeOK, GitRun
<1>2. ASSUME NEW g \in GitIds, GitAsked(t, g) PROVE RecordOwned'
  <2>2. local[t].run \in Runs /\ Exists(local[t].run)
    BY <1>2 DEF GitAsked, Shape, HandShape, RunLabels, DispatchLabels
  <2>3. \A h \in GitIds : git'[h].run # None => Exists(git[h].run)'
    <3>1. Exists(git[g].run)' BY <1>2, <2>2 DEF GitAsked, Exists
    <3>2. ASSUME NEW h \in GitIds \ {g}, git'[h].run # None PROVE Exists(git[h].run)'
      BY <1>2, <3>2 DEF GitAsked, RecordOwned, Exists
    <3>. QED BY <3>1, <3>2
  <2>4. \A u \in Tasks : pc'[u] = "d_record" =>
           local'[u].git \in GitIds /\ git'[local'[u].git].run = local'[u].run
    <3>1. ASSUME NEW u \in Tasks \ {t}, pc'[u] = "d_record"
          PROVE  local'[u].git \in GitIds /\ git'[local'[u].git].run = local'[u].run
      <4>1. pc[u] = "d_record" /\ local'[u] = local[u] BY <1>2, <3>1 DEF GitAsked, Bystanders
      <4>2. local[u].git \in GitIds /\ git[local[u].git].run = local[u].run /\ local[u].run \in Runs
        BY <4>1 DEF RecordOwned, Shape, HandShape, RunLabels
      <4>3. local[u].git # g BY <1>2, <4>2, NoneAssumption DEF GitAsked
      <4>. QED BY <1>2, <4>1, <4>2, <4>3 DEF GitAsked
    <3>. QED BY <1>2, <3>1 DEF GitAsked
  <2>. QED BY <2>3, <2>4 DEF RecordOwned, Exists
<1>. QED BY <1>1, <1>2, GitStep

LEMMA GitRunIdOwnedStep ==
    ASSUME TypeOK, Shape, RecordOwned, GitRunIdOwned, NEW t \in Tasks, TaskStep(t)
    PROVE  GitRunIdOwned'
<1>w. \A r \in Runs : run'[r].writer = run[r].writer BY WriterStep
<1>r. pc[t] \in RunLabels => local[t].run \in Runs /\ run[local[t].run] \in Row
  BY RunInHand
<1>1. ASSUME QueueCreate(t) PROVE GitRunIdOwned'
  <2>1. \A r \in Runs : run'[r].gitRunId # None => run'[r] = run[r] BY <1>1, QueueCreateEffect
  <2>. QED BY <1>1, <2>1, QueueCreateEffect DEF GitRunIdOwned, OfService
<1>2. ASSUME NEW r \in Runs, RetriggerCreate(t, r) PROVE GitRunIdOwned'
  <2>1. \A q \in Runs : run'[q].gitRunId # None => run'[q] = run[q] BY <1>2, RetriggerCreateEffect
  <2>. QED BY <1>2, <2>1, RetriggerCreateEffect DEF GitRunIdOwned, OfService
<1>3. CASE UNCHANGED run
  <2>1. CASE GitQuiet BY <1>3, <2>1 DEF GitRunIdOwned, OfService, GitQuiet
  <2>2. ASSUME NEW g \in GitIds, GitAsked(t, g) PROVE GitRunIdOwned'
    <3>1. \A r \in Runs : OfService(r) /\ run[r].gitRunId # None =>
             run[r].gitRunId \in GitIds /\ git[run[r].gitRunId].run = r /\ r # None
      BY NoneAssumption DEF GitRunIdOwned, OfService, TypeOK, Row
    <3>2. \A h \in GitIds : git[h].run # None => git'[h].run = git[h].run BY <2>2 DEF GitAsked
    <3>. QED BY <1>3, <3>1, <3>2 DEF GitRunIdOwned, OfService
  <2>. QED BY <2>1, <2>2, GitStep
<1>. USE <1>r, <1>w
     DEF GitRunIdOwned, OfService, TypeOK, Shape, HandShape, Exists, RunLabels, DispatchLabels,
          Row, Local, RecordOwned, RetryUnlock, external, Goto, Return, BackToLoop,
          NoLocal, locks
<1>4. ASSUME DispatchCancel(t) PROVE GitRunIdOwned'
  BY <1>4 DEF DispatchCancel, DispatchReturns
<1>5. ASSUME DispatchWrite(t) PROVE GitRunIdOwned' BY <1>5 DEF DispatchWrite
<1>6. ASSUME DispatchRestore(t) PROVE GitRunIdOwned' BY <1>6 DEF DispatchRestore
<1>7. ASSUME DispatchRecord(t) PROVE GitRunIdOwned'
  BY <1>7 DEF DispatchRecord, DispatchReturns
<1>8. ASSUME RetryExhausted(t) PROVE GitRunIdOwned' BY <1>8 DEF RetryExhausted, RetryRefused
<1>9. ASSUME RetryRequeue(t) PROVE GitRunIdOwned' BY <1>9 DEF RetryRequeue
<1>10. ASSUME HookStart(t) PROVE GitRunIdOwned' BY <1>10 DEF HookStart
<1>11. ASSUME HookClose(t) PROVE GitRunIdOwned' BY <1>11 DEF HookClose
<1>. QED BY <1>1, <1>2, <1>3, <1>4, <1>5, <1>6, <1>7, <1>8, <1>9, <1>10, <1>11, Writers

-----------------------------------------------------------------------------
(* The right to ask Gitea for an attempt, and DispatchOnce.                 *)

\* A step whose task keeps rights it held, or gains rights that are fresh.
TokensFrom(t) ==
    /\ git' = git /\ Bystanders(t)
    /\ \A r \in Runs : \A k \in 0..MaxRetries :
          Holds(t, r, k)' => \/ Holds(t, r, k)
                            \/ /\ k <= run'[r].retryCount /\ ~Spent(r, k)
                               /\ \A u \in Tasks \ {t} : ~Holds(u, r, k)
    /\ pc'[t] \in DispatchLabels => local'[t].attempt <= MaxRetries
    /\ t \in Consumers /\ pc'[t] \in DispatchLabels => local'[t].run \notin local'[t].todo

LEMMA HoldsExisting ==
    ASSUME TypeOK, Shape, NEW t \in Tasks, NEW r \in Runs, NEW k, Holds(t, r, k)
    PROVE  Exists(r)
BY DEF Holds, Shape, HandShape, RunLabels

LEMMA SpentExisting ==
    ASSUME RecordOwned, NEW r \in Runs, NEW k, Spent(r, k)
    PROVE  Exists(r)
BY NoneAssumption DEF RecordOwned, Spent

LEMMA LedgerFrom ==
    ASSUME TypeOK, TypeOK', Shape, Ledger, RowsKept, NEW t \in Tasks, TokensFrom(t)
    PROVE  Ledger'
<1>1. \A r \in Runs : run[r].retryCount \in Nat /\ run'[r].retryCount \in Nat
  BY DEF TypeOK, Row
<1>2. \A u \in Tasks \ {t}, r \in Runs : \A k \in 0..MaxRetries : Holds(u, r, k)' <=> Holds(u, r, k)
  BY DEF TokensFrom, Bystanders, Holds
<1>3. \A r \in Runs : \A k \in 0..MaxRetries : Spent(r, k)' <=> Spent(r, k)
  BY DEF TokensFrom, Spent
<1>4. ASSUME NEW u \in Tasks, NEW r \in Runs, NEW k \in 0..MaxRetries, Holds(u, r, k)'
      PROVE  k <= run'[r].retryCount /\ ~Spent(r, k)' /\ \A v \in Tasks \ {u} : ~Holds(v, r, k)'
  <2>1. CASE Holds(u, r, k)
    <3>1. k <= run[r].retryCount /\ ~Spent(r, k) /\ \A v \in Tasks \ {u} : ~Holds(v, r, k)
      BY <2>1 DEF Ledger
    <3>2. k <= run'[r].retryCount BY <1>1, <2>1, <3>1, HoldsExisting DEF RowsKept
    <3>3. \A v \in Tasks \ {u} : ~Holds(v, r, k)'
      BY <1>2, <2>1, <3>1 DEF TokensFrom
    <3>. QED BY <1>3, <3>1, <3>2, <3>3
  <2>2. CASE ~Holds(u, r, k)
    <3>1. u = t BY <1>2, <1>4, <2>2
    <3>. QED BY <1>2, <1>3, <1>4, <2>2, <3>1 DEF TokensFrom
  <2>. QED BY <2>1, <2>2
<1>5. \A u \in Tasks : pc'[u] \in DispatchLabels => local'[u].attempt <= MaxRetries
  BY DEF Ledger, TokensFrom, Bystanders
<1>6. \A u \in Consumers : pc'[u] \in DispatchLabels => local'[u].run \notin local'[u].todo
  BY DEF Ledger, TokensFrom, Bystanders, Tasks
<1>. QED BY <1>4, <1>5, <1>6 DEF Ledger

LEMMA TokensStep ==
    ASSUME TypeOK, Shape, ReadStable, Ledger, RecordOwned, DispatchOnce, NEW t \in Tasks, TaskStep(t)
    PROVE  TokensFrom(t) \/ \E g \in GitIds : GitAsked(t, g)
<1>1. ASSUME QueueCreate(t) PROVE TokensFrom(t) \/ \E h \in GitIds : GitAsked(t, h)
  <2>1. \A r \in local'[t].todo : /\ r \in Runs /\ ~Exists(r) /\ run'[r].retryCount = 0
    BY <1>1, QueueCreateEffect
  <2>2. \A r \in Runs : \A k \in 0..MaxRetries : Holds(t, r, k)' => r \in local'[t].todo /\ k = 0
    BY <1>1, QueueCreateEffect DEF Holds, DispatchLabels
  <2>3. \A r \in local'[t].todo, k \in 0..MaxRetries, u \in Tasks : ~Spent(r, k) /\ ~Holds(u, r, k)
    BY <2>1, HoldsExisting, SpentExisting
  <2>. QED BY <1>1, <2>1, <2>2, <2>3, QueueCreateEffect DEF TokensFrom, DispatchLabels
<1>2. ASSUME NEW r \in Runs, LoopNext(t, r) PROVE TokensFrom(t) \/ \E h \in GitIds : GitAsked(t, h)
  <2>1. /\ Bystanders(t) /\ git' = git /\ pc[t] = "loop" /\ r \in local[t].todo
        /\ pc'[t] = (IF t \in Guards THEN "r_lock" ELSE "d_workflow")
        /\ local'[t].run = r /\ local'[t].todo = local[t].todo \ {r}
        /\ local'[t].attempt = 0
    BY <1>2 DEF LoopNext, Goto, NoLocal, external, TypeOK, Bystanders
  <2>2. t \in Consumers \cup Guards BY <2>1 DEF Shape, HandShape
  <2>3. \A q \in Runs : \A k \in 0..MaxRetries : Holds(t, q, k)' => Holds(t, q, k)
    BY <2>1, <2>2 DEF Holds, DispatchLabels, TypeOK, Local
  <2>. QED BY <2>1, <2>2, <2>3, RetriesAssumption, RolesAssumption DEF TokensFrom, DispatchLabels
<1>3. ASSUME NEW r \in Runs, RetriggerCreate(t, r) PROVE TokensFrom(t) \/ \E h \in GitIds : GitAsked(t, h)
  <2>1. /\ ~Exists(r) /\ run'[r].retryCount = 0
        /\ Bystanders(t) /\ git' = git /\ local'[t].todo = {}
        /\ pc'[t] \in DispatchLabels => local'[t].run = r /\ local'[t].attempt = 0
    BY <1>3, RetriggerCreateEffect DEF DispatchLabels
  <2>2. \A q \in Runs : \A k \in 0..MaxRetries : Holds(t, q, k)' => q = r /\ k = 0
    BY <2>1 DEF Holds
  <2>3. \A k \in 0..MaxRetries, u \in Tasks : ~Spent(r, k) /\ ~Holds(u, r, k)
    BY <2>1, HoldsExisting, SpentExisting
  <2>. QED BY <2>1, <2>2, <2>3, RetriesAssumption DEF TokensFrom
<1>4. ASSUME NEW g \in GitIds, DispatchCall(t, g) PROVE TokensFrom(t) \/ \E h \in GitIds : GitAsked(t, h)
  <2>1. pc'[t] = "d_record" /\ local'[t] = [local[t] EXCEPT !.git = g, !.saved = AbsentRow] /\ Bystanders(t)
    BY <1>4, GotoEffect DEF DispatchCall
  <2>2. git'[g].run = local[t].run /\ git[g].run = None /\ local[t].run \in Runs
    BY <1>4, RunInHand DEF DispatchCall, GitMakesRun, TypeOK, NoGitRun, RunLabels, DispatchLabels
  <2>3. git' # git BY <2>2, NoneAssumption
  <2>. QED BY <2>3, GitStep DEF GitQuiet
<1>5. ASSUME DispatchCallFails(t) PROVE TokensFrom(t) \/ \E h \in GitIds : GitAsked(t, h)
  <2>1. pc'[t] = "d_restore" /\ local'[t] = local[t] /\ Bystanders(t)
    BY <1>5, GotoEffect DEF DispatchCallFails
  <2>2. CASE UNCHANGED git BY <2>1, <2>2 DEF TokensFrom, Holds, DispatchLabels
  <2>3. CASE \E g \in GitIds : GitAsked(t, g) BY <2>3
  <2>. QED BY <1>5, <2>2, <2>3, GitStep DEF GitQuiet
<1>6. ASSUME RetryRequeue(t) PROVE TokensFrom(t) \/ \E h \in GitIds : GitAsked(t, h)
  <2>. DEFINE q == local[t].run
  <2>1. q \in Runs /\ run[q].retryCount \in Nat /\ pc[t] = "r_commit"
        /\ run[q].retryCount = local[t].saved.retryCount /\ run[q].retryCount < MaxRetries
    BY <1>6, RunInHand DEF RetryRequeue, RetryUnlock, RunLabels, Row, ReadStable
  <2>2. /\ Bystanders(t) /\ git' = git /\ pc'[t] = "d_workflow"
        /\ local'[t].run = q /\ local'[t].attempt = run[q].retryCount + 1
    BY <1>6, <2>1 DEF RetryRequeue, RetryUnlock, Goto, NoLocal, external, TypeOK, Bystanders
  <2>3. run'[q].retryCount = run[q].retryCount + 1
    BY <1>6, <2>1 DEF RetryRequeue, TypeOK, Row
  <2>4. t \notin Consumers BY <2>1, RolesAssumption DEF Shape, HandShape
  <2>5. \A r \in Runs, k \in 0..MaxRetries : Holds(t, r, k)' => r = q /\ k = run[q].retryCount + 1
    BY <2>2, <2>4 DEF Holds
  <2>6. \A u \in Tasks, k \in 0..MaxRetries : k = run[q].retryCount + 1 => ~Holds(u, q, k)
    BY <2>1 DEF Ledger
  <2>7. \A k \in 0..MaxRetries : k = run[q].retryCount + 1 => ~Spent(q, k)
    BY <2>1, NoneAssumption DEF Spent, DispatchOnce
  <2>. HIDE DEF q
  <2>. QED BY <2>1, <2>2, <2>3, <2>4, <2>5, <2>6, <2>7, RetriesAssumption DEF TokensFrom
<1>. USE RolesAssumption
     DEF TokensFrom, TypeOK, Holds, DispatchLabels, Shape, HandShape, Ledger,
          Bystanders, Goto, Return, BackToLoop, NoLocal, locks, external
<1>7. ASSUME NEW s \in Submissions, QueueRead(t, s), t \in Consumers PROVE TokensFrom(t) \/ \E h \in GitIds : GitAsked(t, h)
  BY <1>7 DEF QueueRead
<1>8. ASSUME QueueAlreadyQueued(t) PROVE TokensFrom(t) \/ \E h \in GitIds : GitAsked(t, h)
  BY <1>8 DEF QueueAlreadyQueued
<1>9. ASSUME QueueLock(t) PROVE TokensFrom(t) \/ \E h \in GitIds : GitAsked(t, h)
  BY <1>9 DEF QueueLock
<1>10. ASSUME LoopEnd(t) PROVE TokensFrom(t) \/ \E h \in GitIds : GitAsked(t, h)
  BY <1>10 DEF LoopEnd
<1>11. ASSUME NEW r \in Runs, RetriggerRead(t, r), t \in Admins PROVE TokensFrom(t) \/ \E h \in GitIds : GitAsked(t, h)
  BY <1>11 DEF RetriggerRead
<1>12. ASSUME DispatchReadWorkflow(t) PROVE TokensFrom(t) \/ \E h \in GitIds : GitAsked(t, h)
  BY <1>12 DEF DispatchReadWorkflow
<1>13. ASSUME DispatchCancel(t) PROVE TokensFrom(t) \/ \E h \in GitIds : GitAsked(t, h)
  BY <1>13 DEF DispatchCancel, DispatchReturns
<1>14. ASSUME DispatchRead(t) PROVE TokensFrom(t) \/ \E h \in GitIds : GitAsked(t, h)
  BY <1>14 DEF DispatchRead
<1>15. ASSUME DispatchWrite(t) PROVE TokensFrom(t) \/ \E h \in GitIds : GitAsked(t, h)
  BY <1>15 DEF DispatchWrite
<1>16. ASSUME DispatchRestore(t) PROVE TokensFrom(t) \/ \E h \in GitIds : GitAsked(t, h)
  BY <1>16 DEF DispatchRestore
<1>17. ASSUME DispatchRecord(t) PROVE TokensFrom(t) \/ \E h \in GitIds : GitAsked(t, h)
  BY <1>17 DEF DispatchRecord, DispatchReturns
<1>18. ASSUME RetryLock(t) PROVE TokensFrom(t) \/ \E h \in GitIds : GitAsked(t, h)
  BY <1>18 DEF RetryLock
<1>19. ASSUME RetrySettled(t) PROVE TokensFrom(t) \/ \E h \in GitIds : GitAsked(t, h)
  BY <1>19 DEF RetrySettled, RetryUnlock, RetryRefused
<1>20. ASSUME RetryExhausted(t) PROVE TokensFrom(t) \/ \E h \in GitIds : GitAsked(t, h)
  BY <1>20 DEF RetryExhausted, RetryUnlock, RetryRefused
<1>21. ASSUME GuardTick(t), t \in Guards PROVE TokensFrom(t) \/ \E h \in GitIds : GitAsked(t, h)
  BY <1>21 DEF GuardTick
<1>22. ASSUME NEW e \in Events, NEW r \in Runs, HookInProgress(t, e, r), t \in Hooks PROVE TokensFrom(t) \/ \E h \in GitIds : GitAsked(t, h)
  BY <1>22 DEF HookInProgress, Accepts
<1>23. ASSUME NEW e \in Events, NEW r \in Runs, HookCompleted(t, e, r), t \in Hooks PROVE TokensFrom(t) \/ \E h \in GitIds : GitAsked(t, h)
  BY <1>23 DEF HookCompleted, Accepts
<1>24. ASSUME HookStart(t) PROVE TokensFrom(t) \/ \E h \in GitIds : GitAsked(t, h)
  BY <1>24 DEF HookStart
<1>25. ASSUME HookClose(t) PROVE TokensFrom(t) \/ \E h \in GitIds : GitAsked(t, h)
  BY <1>25 DEF HookClose
<1>26. ASSUME HookPublish(t) PROVE TokensFrom(t) \/ \E h \in GitIds : GitAsked(t, h)
  BY <1>26 DEF HookPublish
<1>27. ASSUME Abort(t) PROVE TokensFrom(t) \/ \E h \in GitIds : GitAsked(t, h)
  BY <1>27 DEF Abort
<1>. QED BY <1>1, <1>2, <1>3, <1>4, <1>5, <1>6, <1>7, <1>8, <1>9, <1>10, <1>11, <1>12,
     <1>13, <1>14, <1>15, <1>16, <1>17, <1>18, <1>19, <1>20, <1>21, <1>22, <1>23,
     <1>24, <1>25, <1>26, <1>27
  DEF TaskStep, Advance, Dispatch, Retry, Loop

LEMMA LedgerStep ==
    ASSUME TypeOK, TypeOK', Shape, ReadStable, Ledger, RecordOwned, DispatchOnce, RowsKept,
           NEW t \in Tasks, TaskStep(t)
    PROVE  Ledger'
<1>1. CASE TokensFrom(t) BY <1>1, LedgerFrom
<1>2. ASSUME NEW g \in GitIds, GitAsked(t, g) PROVE Ledger'
  <2>0. \A u \in Tasks \ {t} : pc'[u] = pc[u] /\ local'[u] = local[u]
    BY <1>2 DEF GitAsked, Bystanders
  <2>1. \A u \in Tasks, r \in Runs : \A k \in 0..MaxRetries : Holds(u, r, k)' => Holds(u, r, k)
    BY <1>2, <2>0 DEF GitAsked, Holds
  <2>2. \A u \in Tasks \ {t}, r \in Runs : \A k \in 0..MaxRetries : Holds(u, r, k)' <=> Holds(u, r, k)
    BY <2>0 DEF Holds
  <2>3. \A r \in Runs : \A k \in 0..MaxRetries :
           Spent(r, k)' => Spent(r, k) \/ Holds(t, r, k)
    BY <1>2 DEF GitAsked, Spent, Holds, DispatchLabels
  <2>4. \A r \in Runs : \A k \in 0..MaxRetries :
           Holds(t, r, k)' => t \in Consumers /\ r \in local[t].todo /\ k = 0
    BY <1>2 DEF GitAsked, Holds
  <2>5. ASSUME NEW u \in Tasks, NEW r \in Runs, NEW k \in 0..MaxRetries, Holds(u, r, k)'
        PROVE  k <= run'[r].retryCount /\ ~Spent(r, k)' /\ \A v \in Tasks \ {u} : ~Holds(v, r, k)'
    <3>1. Holds(u, r, k) BY <2>1, <2>5
    <3>2. k <= run[r].retryCount /\ ~Spent(r, k) /\ \A v \in Tasks \ {u} : ~Holds(v, r, k)
      BY <3>1 DEF Ledger
    <3>3. ~Spent(r, k)'
      <4>1. CASE u # t BY <2>3, <3>2, <4>1
      <4>2. CASE u = t
        <5>1. t \in Consumers /\ r \in local[t].todo /\ k = 0 BY <2>4, <2>5, <4>2
        <5>2. local[t].run # r BY <1>2, <5>1 DEF Ledger, GitAsked, DispatchLabels
        <5>. QED BY <1>2, <3>2, <5>2 DEF GitAsked, Spent
      <4>. QED BY <4>1, <4>2
    <3>. QED BY <1>2, <2>1, <3>2, <3>3 DEF GitAsked
  <2>6. \A u \in Tasks : pc'[u] \in DispatchLabels => local'[u].attempt <= MaxRetries
    BY <1>2, <2>0 DEF Ledger, GitAsked
  <2>7. \A u \in Consumers : pc'[u] \in DispatchLabels => local'[u].run \notin local'[u].todo
    BY <1>2, <2>0 DEF Ledger, GitAsked, Tasks
  <2>. QED BY <2>5, <2>6, <2>7 DEF Ledger
<1>. QED BY <1>1, <1>2, TokensStep

LEMMA DispatchOnceStep ==
    ASSUME TypeOK, TypeOK', Shape, RowsKept, Ledger, RecordOwned, DispatchOnce,
           NEW t \in Tasks, TaskStep(t)
    PROVE  DispatchOnce'
<1>1. \A g \in GitIds : git[g].run # None =>
          git[g].attempt <= run'[git[g].run].retryCount /\ git[g].run \in Runs
  <2>1. ASSUME NEW g \in GitIds, git[g].run # None
        PROVE  git[g].attempt <= run'[git[g].run].retryCount /\ git[g].run \in Runs
    <3>1. git[g].run \in Runs /\ git[g].attempt \in Nat BY <2>1 DEF TypeOK, GitRun
    <3>2. run[git[g].run].retryCount \in Nat /\ run'[git[g].run].retryCount \in Nat
      BY <3>1 DEF TypeOK, Row
    <3>3. git[g].attempt <= run[git[g].run].retryCount /\ Exists(git[g].run)
      BY <2>1 DEF DispatchOnce, RecordOwned
    <3>. QED BY <3>1, <3>2, <3>3 DEF RowsKept
  <2>. QED BY <2>1
<1>2. CASE git' = git BY <1>1, <1>2 DEF DispatchOnce
<1>3. ASSUME NEW g \in GitIds, GitAsked(t, g) PROVE DispatchOnce'
  <2>1. local[t].run \in Runs /\ local[t].attempt \in Nat
    BY <1>3, RunInHand DEF GitAsked, RunLabels, DispatchLabels, TypeOK, Local
  <2>2. local[t].attempt \in 0..MaxRetries
    BY <1>3, <2>1, RetriesAssumption DEF Ledger, GitAsked, DispatchLabels
  <2>3. Holds(t, local[t].run, local[t].attempt)
    BY <1>3 DEF Holds, GitAsked, DispatchLabels
  <2>4. ~Spent(local[t].run, local[t].attempt) /\ local[t].attempt <= run[local[t].run].retryCount
    BY <2>1, <2>2, <2>3 DEF Ledger
  <2>. QED BY <1>1, <1>3, <2>4 DEF DispatchOnce, GitAsked, Spent
<1>. QED BY <1>2, <1>3, GitStep DEF GitQuiet

-----------------------------------------------------------------------------
(* The invariant.                                                           *)

\* Steps outside the service's tasks: they touch neither the table nor a task.
Apart ==
    /\ UNCHANGED <<run, rlock, qlock, pc, local>>
    /\ \A g \in GitIds : git'[g].run = git[g].run /\ git'[g].attempt = git[g].attempt

LEMMA NextCases ==
    ASSUME TypeOK, [Next]_vars
    PROVE  Apart \/ Callers \/ \E t \in Tasks : TaskStep(t)
<1>1. CASE Begin
  <2>1. (\E e \in Events : HookIgnore(e)) => Apart BY DEF HookIgnore, Apart, locks
  <2>. QED BY <1>1, <2>1 DEF Begin, Deliver, TaskStep, Tasks
<1>2. CASE \E t \in Tasks : Advance(t) BY <1>2 DEF TaskStep
<1>3. CASE Environment
  <2>1. ASSUME NEW g \in GitIds, GitStarts(g) PROVE Apart
    BY <2>1 DEF GitStarts, Apart, locks, TypeOK, GitRun
  <2>2. ASSUME NEW g \in GitIds, NEW c \in Conclusions, GitJobEnds(g, c) PROVE Apart
    BY <2>2 DEF GitJobEnds, Apart, locks, TypeOK, GitRun
  <2>3. ASSUME (\E r \in Runs : Expire(r)) \/ \E w \in Switchable : SetDisabled(w) PROVE Apart
    BY <2>3 DEF Expire, SetDisabled, Apart, locks, external
  <2>. QED BY <1>3, <2>1, <2>2, <2>3 DEF Environment
<1>4. CASE Fault
  <2>1. (\E e \in Events : EventLost(e) \/ EventRepeated(e)) => Apart
    BY DEF EventLost, EventRepeated, Apart, locks
  <2>. QED BY <1>4, <2>1 DEF Fault, TaskStep
<1>5. CASE UNCHANGED vars BY <1>5 DEF vars, Apart
<1>. QED BY <1>1, <1>2, <1>3, <1>4, <1>5 DEF Next

LEMMA ApartKeepsCore ==
    ASSUME TypeOK, Core, Apart
    PROVE  Core'
<1>1. Shape' BY DEF Core, Apart, Shape, HandShape, Exists
<1>2. LockHeld' BY DEF Core, Apart, LockHeld
<1>3. ReadStable' BY DEF Core, Apart, ReadStable, RowsOf, Exists
<1>4. Ledger'
  <2>1. \A t \in Tasks, r \in Runs : \A k \in 0..MaxRetries : Holds(t, r, k)' <=> Holds(t, r, k)
    BY DEF Apart, Holds
  <2>2. \A r \in Runs : \A k \in 0..MaxRetries : Spent(r, k)' <=> Spent(r, k)
    BY DEF Apart, Spent
  <2>. QED BY <2>1, <2>2 DEF Core, Apart, Ledger
<1>5. RecordOwned' BY DEF Core, Apart, RecordOwned, Exists
<1>6. RetryBound' /\ QueuedOnce' BY DEF Core, Apart, RetryBound, QueuedOnce
<1>7. DispatchOnce' BY DEF Core, Apart, DispatchOnce
<1>8. GitRunIdOwned' BY NoneAssumption DEF Core, Apart, GitRunIdOwned, OfService, TypeOK, Row
<1>. QED BY <1>1, <1>2, <1>3, <1>4, <1>5, <1>6, <1>7, <1>8 DEF Core

\* A caller's row is exempt from what follows from the handlers alone, and no
\* caller touches what the other parts of the invariant are about.
LEMMA CallerKeepsCore ==
    ASSUME TypeOK, Core, Callers
    PROVE  Core'
<1>0. Shape BY DEF Core
<1>1. PICK r \in Runs : CallerWrote(r) BY <1>0, CallerEffect
<1>2. UNCHANGED <<rlock, qlock, pc, local, git>> BY <1>1 DEF CallerWrote
<1>3. \A q \in Runs : /\ Exists(q) => /\ Exists(q)'
                                      /\ run'[q].workflow = run[q].workflow
                                      /\ run'[q].submission = run[q].submission
                                      /\ run'[q].origin = run[q].origin
                      /\ run'[q].retryCount = run[q].retryCount
                      /\ q = r \/ run'[q] = run[q]
  BY <1>1 DEF CallerWrote, Exists
<1>4. RowsKept
  <2>1. \A q \in Runs : run[q].retryCount \in Nat BY DEF TypeOK, Row
  <2>. QED BY <1>3, <2>1 DEF RowsKept
<1>5. Shape'
  <2>1. \A u \in Tasks : HandShape(u)' BY <1>0, <1>2, <1>4, HandKept
  <2>2. RowShape' BY <1>0, <1>1, <1>3 DEF CallerWrote, RowShape, Shape, Exists
  <2>. QED BY <2>1, <2>2 DEF Shape, RowShape
<1>6. LockHeld' BY <1>2 DEF Core, LockHeld
<1>7. ReadStable'
  <2>1. ASSUME NEW u \in Tasks, pc[u] = "r_commit"
        PROVE  local[u].saved.retryCount = run'[local[u].run].retryCount
    BY <1>0, <1>3, <2>1 DEF Core, ReadStable, Shape, HandShape, RunLabels
  <2>2. ASSUME NEW u \in Tasks, pc[u] = "q_create", NEW q \in Runs, Exists(q)',
               run'[q].submission = local[u].submission
        PROVE  run'[q].origin # "queue"
    <3>1. CASE Exists(q)
      BY <1>3, <2>2, <3>1 DEF Core, ReadStable, RowsOf
    <3>2. CASE ~Exists(q)
      BY <1>1, <2>2, <3>2 DEF CallerWrote, Exists
    <3>. QED BY <3>1, <3>2
  <2>3. ASSUME NEW u \in Tasks, pc[u] = "a_create" PROVE RowsOf(local[u].submission)' # {}
    <3>1. PICK q \in Runs : Exists(q) /\ run[q].submission = local[u].submission
      BY <2>3 DEF Core, ReadStable, RowsOf
    <3>. QED BY <1>2, <1>3, <3>1 DEF RowsOf, Exists
  <2>4. \A u \in Tasks : pc[u] = "q_create" =>
           \A q \in RowsOf(local[u].submission)' : run'[q].origin # "queue"
    BY <1>2, <2>2 DEF RowsOf, Exists
  <2>. QED BY <1>2, <2>1, <2>3, <2>4 DEF ReadStable
<1>8. Ledger'
  <2>1. \A t \in Tasks, q \in Runs : \A k \in 0..MaxRetries : Holds(t, q, k)' <=> Holds(t, q, k)
    BY <1>2 DEF Holds
  <2>2. \A q \in Runs : \A k \in 0..MaxRetries : Spent(q, k)' <=> Spent(q, k)
    BY <1>2 DEF Spent
  <2>. QED BY <1>2, <1>3, <2>1, <2>2 DEF Core, Ledger
<1>9. RecordOwned'
  <2>1. \A g \in GitIds : git[g].run # None => git[g].run \in Runs BY DEF TypeOK, GitRun
  <2>. QED BY <1>2, <1>3, <2>1 DEF Core, RecordOwned
<1>10. RetryBound' BY <1>3 DEF Core, RetryBound
<1>11. QueuedOnce'
  <2>1. \A q \in Runs : run'[q].origin = "queue" =>
           /\ run[q].origin = "queue"
           /\ run'[q].workflow = run[q].workflow /\ run'[q].submission = run[q].submission
    BY <1>1, <1>3 DEF CallerWrote
  <2>. QED BY <2>1 DEF Core, QueuedOnce
<1>12. DispatchOnce'
  <2>1. \A g \in GitIds : git[g].run # None => git[g].run \in Runs BY DEF TypeOK, GitRun
  <2>. QED BY <1>2, <1>3, <2>1 DEF Core, DispatchOnce
<1>13. GitRunIdOwned'
  <2>1. \A q \in Runs : OfService(q)' => OfService(q) /\ run'[q] = run[q]
    BY <1>1, <1>3 DEF CallerWrote, OfService
  <2>. QED BY <1>2, <2>1 DEF Core, GitRunIdOwned
<1>. QED BY <1>5, <1>6, <1>7, <1>8, <1>9, <1>10, <1>11, <1>12, <1>13 DEF Core

LEMMA TaskKeepsCore ==
    ASSUME TypeOK, TypeOK', Core, NEW t \in Tasks, TaskStep(t)
    PROVE  Core' /\ RowsKept
<1>1. RowsKept /\ RowShape' BY RowsStep DEF Core
<1>2. Shape'
  <2>1. \A u \in Tasks : HandShape(u)' BY <1>1, HandsStep DEF Core
  <2>. QED BY <1>1, <2>1 DEF Shape, RowShape
<1>3. LockHeld' BY LockHeldStep DEF Core
<1>4. ReadStable' BY <1>1, ReadStableStep DEF Core
<1>5. RetryBound' BY RetryBoundStep DEF Core
<1>6. QueuedOnce' BY QueuedOnceStep DEF Core
<1>7. RecordOwned' BY <1>1, RecordOwnedStep DEF Core
<1>8. GitRunIdOwned' BY GitRunIdOwnedStep DEF Core
<1>9. Ledger' BY <1>1, LedgerStep DEF Core
<1>10. DispatchOnce' BY <1>1, DispatchOnceStep DEF Core
<1>. QED BY <1>1, <1>2, <1>3, <1>4, <1>5, <1>6, <1>7, <1>8, <1>9, <1>10 DEF Core

LEMMA InitCore == Init => TypeOK /\ Core
<1> SUFFICES ASSUME Init PROVE TypeOK /\ Core
  OBVIOUS
<1>1. TypeOK
  BY NoLocalType, BoundsAssumption DEF Init, TypeOK, Labels
<1>2. Shape BY DEF Init, Shape, HandShape, Exists, AbsentRow, NoLocal, RunLabels, DispatchLabels
<1>i. \A t \in Tasks : pc[t] = "idle" /\ local[t].todo = {} BY DEF Init, NoLocal
<1>3. LockHeld /\ ReadStable
  <2>1. (\A r \in Runs : rlock[r] = None) /\ \A s \in Submissions : qlock[s] = None BY DEF Init
  <2>. QED BY <1>i, <2>1, NoneAssumption DEF LockHeld, ReadStable
<1>4. Ledger
  <2>1. \A t \in Tasks, r \in Runs : \A k \in 0..MaxRetries : ~Holds(t, r, k)
    BY <1>i DEF Holds, DispatchLabels
  <2>. QED BY <1>i, <2>1 DEF Ledger, DispatchLabels, Tasks
<1>5. RecordOwned /\ DispatchOnce BY DEF Init, RecordOwned, DispatchOnce, NoGitRun
<1>6. RetryBound /\ QueuedOnce /\ GitRunIdOwned
  BY RetriesAssumption DEF Init, RetryBound, QueuedOnce, GitRunIdOwned, AbsentRow
<1>. QED BY <1>1, <1>2, <1>3, <1>4, <1>5, <1>6 DEF Core

LEMMA CoreStep ==
    ASSUME TypeOK, Core, [Next]_vars
    PROVE  TypeOK' /\ Core'
<1>1. TypeOK' BY TypeStep DEF Core
<1>. QED BY <1>1, NextCases, ApartKeepsCore, CallerKeepsCore, TaskKeepsCore

LEMMA CoreInvariant == Spec => [](TypeOK /\ Core)
<1>1. Init => TypeOK /\ Core BY InitCore
<1>2. TypeOK /\ Core /\ [Next]_vars => (TypeOK /\ Core)' BY CoreStep
<1>. QED BY <1>1, <1>2, PTL DEF Spec

=============================================================================
