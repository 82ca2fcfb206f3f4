------------------------ MODULE WorkflowQueueTheorems -----------------------
(***************************************************************************)
(* What holds of every execution of WorkflowQueue, for every value of its  *)
(* constants: the types, the safety properties, and that the handlers      *)
(* implement RunBudget.                                                    *)
(***************************************************************************)
EXTENDS WorkflowQueueInvariant

-----------------------------------------------------------------------------
(* Provenance: what the rows say was concluded by their own Gitea runs.     *)

\* Provenance of rows and handlers, given what the runs of each row concluded.
Traced(ends) ==
    /\ \A r \in Runs : OfService(r) => VouchedBy(ends[r], run[r].status)
    /\ \A t \in Tasks :
          /\ pc[t] \in {"r_lock", "r_commit", "h_close"} /\ OfService(local[t].run) =>
                VouchedBy(ends[local[t].run], local[t].verdict)
          /\ pc[t] \in {"d_write", "d_call", "d_restore"} /\ OfService(local[t].run) =>
                VouchedBy(ends[local[t].run], local[t].saved.status)

LEMMA VouchedByOthers ==
    ASSUME NEW ends, NEW status, status \notin {"SUCCESS", "FAILURE"}
    PROVE  VouchedBy(ends, status)
BY DEF VouchedBy

\* Runs are never taken from a row, and their jobs' conclusions never back.
LEMMA GitGrows ==
    ASSUME TypeOK, Shape, Provenance, [Next]_vars
    PROVE  /\ \A g \in GitIds : git[g].run # None => git'[g].run = git[g].run
           /\ \A g \in GitIds : git[g].done \subseteq git'[g].done
           /\ \A g \in GitIds : git'[g].run = None => git'[g].done = {}
<1> DEFINE Grows == /\ \A g \in GitIds : git[g].run # None => git'[g].run = git[g].run
                    /\ \A g \in GitIds : git[g].done \subseteq git'[g].done
                    /\ \A g \in GitIds : git'[g].run = None => git'[g].done = {}
<1>1. ASSUME git' = git PROVE Grows BY <1>1 DEF Provenance
<1>2. ASSUME NEW t \in Tasks, NEW g \in GitIds, GitAsked(t, g) PROVE Grows
  <2>1. local[t].run \in Runs
    BY <1>2, RunInHand DEF GitAsked, RunLabels, DispatchLabels
  <2>2. git'[g].run # None /\ git[g].run = None /\ \A h \in GitIds \ {g} : git'[h] = git[h]
    BY <1>2, <2>1, NoneAssumption DEF GitAsked
  <2>. QED BY <2>2 DEF Provenance
<1>3. ASSUME NEW g \in GitIds, GitStarts(g) PROVE Grows
  BY <1>3 DEF GitStarts, TypeOK, GitRun, Provenance
<1>4. ASSUME NEW g \in GitIds, NEW c \in Conclusions, GitJobEnds(g, c) PROVE Grows
  BY <1>4 DEF GitJobEnds, TypeOK, GitRun, Provenance
<1>5. git' = git \/ (\E t \in Tasks, g \in GitIds : GitAsked(t, g))
      \/ \E g \in GitIds : GitStarts(g) \/ \E c \in Conclusions : GitJobEnds(g, c)
  <2>1. CASE \E t \in Tasks : TaskStep(t) BY <2>1, GitStep DEF GitQuiet
  <2>2. CASE UNCHANGED vars BY <2>2 DEF vars
  <2>3. CASE Environment
    BY <2>3 DEF Environment, Expire, SetDisabled, external
  <2>4. CASE Fault
    BY <2>1, <2>4 DEF Fault, TaskStep, EventLost, EventRepeated
  <2>5. CASE Begin
    BY <2>1, <2>5 DEF Begin, Deliver, TaskStep, HookIgnore, Tasks
  <2>6. CASE \E t \in Tasks : Advance(t) BY <2>1, <2>6 DEF TaskStep
  <2>7. CASE Callers BY <2>7, CallerEffect DEF CallerWrote
  <2>. QED BY <2>2, <2>3, <2>4, <2>5, <2>6, <2>7 DEF Next
<1>. QED BY <1>1, <1>2, <1>3, <1>4, <1>5

LEMMA EndsGrow ==
    ASSUME TypeOK, Shape, Provenance, [Next]_vars, NEW r \in Runs
    PROVE  Ends(r) \subseteq Ends(r)'
BY GitGrows, NoneAssumption DEF Ends, TypeOK, GitRun

LEMMA VouchedByMore ==
    ASSUME NEW before, NEW after, before \subseteq after, NEW status, VouchedBy(before, status)
    PROVE  VouchedBy(after, status)
BY DEF VouchedBy

\* The statuses a step writes: those of handlers that end a row, those read
\* before a dispatch, and statuses that claim no result.
StatusWritten(t, r) ==
    \/ run'[r].status = run[r].status
    \/ run'[r].status \notin {"SUCCESS", "FAILURE"}
    \/ pc[t] \in {"r_commit", "h_close"} /\ r = local[t].run /\ run'[r].status = local[t].verdict
    \/ pc[t] = "d_restore" /\ r = local[t].run /\ run'[r].status = local[t].saved.status

LEMMA StatusStep ==
    ASSUME TypeOK, Shape, NEW t \in Tasks, TaskStep(t)
    PROVE  \A q \in Runs : StatusWritten(t, q)
<1>r. pc[t] \in RunLabels => local[t].run \in Runs /\ run[local[t].run] \in Row
  BY RunInHand
<1>1. ASSUME QueueCreate(t) PROVE \A q \in Runs : StatusWritten(t, q)
  BY <1>1, QueueCreateEffect DEF StatusWritten
<1>2. ASSUME NEW r \in Runs, RetriggerCreate(t, r) PROVE \A q \in Runs : StatusWritten(t, q)
  BY <1>2, RetriggerCreateEffect DEF StatusWritten
<1>3. CASE UNCHANGED run BY <1>3 DEF StatusWritten
<1>. USE <1>r
     DEF StatusWritten, TypeOK, Shape, HandShape, RunLabels, DispatchLabels, Local,
          Row, RetryUnlock, Goto, Return, BackToLoop, NoLocal, locks, external
<1>4. ASSUME DispatchCancel(t) PROVE \A q \in Runs : StatusWritten(t, q)
  BY <1>4 DEF DispatchCancel, DispatchReturns
<1>5. ASSUME DispatchWrite(t) PROVE \A q \in Runs : StatusWritten(t, q)
  BY <1>5 DEF DispatchWrite
<1>6. ASSUME DispatchRestore(t) PROVE \A q \in Runs : StatusWritten(t, q)
  BY <1>6 DEF DispatchRestore
<1>7. ASSUME DispatchRecord(t) PROVE \A q \in Runs : StatusWritten(t, q)
  BY <1>7 DEF DispatchRecord, DispatchReturns
<1>8. ASSUME RetryExhausted(t) PROVE \A q \in Runs : StatusWritten(t, q)
  BY <1>8 DEF RetryExhausted, RetryRefused
<1>9. ASSUME RetryRequeue(t) PROVE \A q \in Runs : StatusWritten(t, q)
  BY <1>9 DEF RetryRequeue
<1>10. ASSUME HookStart(t) PROVE \A q \in Runs : StatusWritten(t, q) BY <1>10 DEF HookStart
<1>11. ASSUME HookClose(t) PROVE \A q \in Runs : StatusWritten(t, q) BY <1>11 DEF HookClose
<1>. QED BY <1>1, <1>2, <1>3, <1>4, <1>5, <1>6, <1>7, <1>8, <1>9, <1>10, <1>11, Writers

\* What a handler that will write a result has in hand: what it had before, a
\* verdict that claims none, an event's, or the row as it is.
HandWritten(t) ==
    /\ Bystanders(t)
    /\ pc'[t] \in {"r_lock", "r_commit", "h_close"} =>
          \/ local'[t].verdict \notin {"SUCCESS", "FAILURE"}
          \/ /\ pc[t] \in {"r_lock", "r_commit", "h_close"}
             /\ local'[t].run = local[t].run /\ local'[t].verdict = local[t].verdict
          \/ \E e \in mail : /\ e.action = "completed" /\ e \in Events
                             /\ local'[t].run \in Runs /\ run[local'[t].run].gitRunId = e.git
                             /\ local'[t].verdict = Normalize(e.conclusion)
    /\ pc'[t] \in {"d_write", "d_call", "d_restore"} =>
          /\ local'[t].run = local[t].run /\ pc[t] \in RunLabels
          /\ \/ pc[t] \in {"d_write", "d_call"} /\ local'[t].saved = local[t].saved
             \/ local'[t].saved = run[local[t].run]

LEMMA HandStep ==
    ASSUME TypeOK, Shape, NEW t \in Tasks, TaskStep(t)
    PROVE  HandWritten(t)
<1>1. ASSUME QueueCreate(t) PROVE HandWritten(t)
  BY <1>1, QueueCreateEffect DEF HandWritten
<1>2. ASSUME NEW r \in Runs, LoopNext(t, r) PROVE HandWritten(t)
  BY <1>2 DEF HandWritten, Bystanders, LoopNext, Goto, NoLocal, TypeOK
<1>3. ASSUME NEW r \in Runs, RetriggerCreate(t, r) PROVE HandWritten(t)
  BY <1>3, RetriggerCreateEffect DEF HandWritten
<1>. USE DEF HandWritten, TypeOK, Bystanders, RunLabels, DispatchLabels, Local, Goto,
     Return, BackToLoop, NoLocal, locks, external
<1>4. ASSUME NEW s \in Submissions, QueueRead(t, s), t \in Consumers PROVE HandWritten(t)
  BY <1>4 DEF QueueRead
<1>5. ASSUME QueueAlreadyQueued(t) PROVE HandWritten(t) BY <1>5 DEF QueueAlreadyQueued
<1>6. ASSUME QueueLock(t) PROVE HandWritten(t) BY <1>6 DEF QueueLock
<1>7. ASSUME LoopEnd(t) PROVE HandWritten(t) BY <1>7 DEF LoopEnd
<1>8. ASSUME NEW r \in Runs, RetriggerRead(t, r), t \in Admins PROVE HandWritten(t)
  BY <1>8 DEF RetriggerRead
<1>9. ASSUME DispatchReadWorkflow(t) PROVE HandWritten(t) BY <1>9 DEF DispatchReadWorkflow
<1>10. ASSUME DispatchCancel(t) PROVE HandWritten(t)
  BY <1>10 DEF DispatchCancel, DispatchReturns
<1>11. ASSUME DispatchRead(t) PROVE HandWritten(t) BY <1>11 DEF DispatchRead
<1>12. ASSUME DispatchWrite(t) PROVE HandWritten(t) BY <1>12 DEF DispatchWrite
<1>13. ASSUME NEW g \in GitIds, DispatchCall(t, g) PROVE HandWritten(t)
  BY <1>13 DEF DispatchCall, GitMakesRun
<1>14. ASSUME DispatchCallFails(t) PROVE HandWritten(t)
  BY <1>14 DEF DispatchCallFails, GitMakesRun
<1>15. ASSUME DispatchRestore(t) PROVE HandWritten(t) BY <1>15 DEF DispatchRestore
<1>16. ASSUME DispatchRecord(t) PROVE HandWritten(t)
  BY <1>16 DEF DispatchRecord, DispatchReturns
<1>17. ASSUME RetryLock(t) PROVE HandWritten(t) BY <1>17 DEF RetryLock
<1>18. ASSUME RetrySettled(t) PROVE HandWritten(t)
  BY <1>18 DEF RetrySettled, RetryUnlock, RetryRefused
<1>19. ASSUME RetryExhausted(t) PROVE HandWritten(t)
  BY <1>19 DEF RetryExhausted, RetryUnlock, RetryRefused
<1>20. ASSUME RetryRequeue(t) PROVE HandWritten(t) BY <1>20 DEF RetryRequeue, RetryUnlock
<1>21. ASSUME GuardTick(t), t \in Guards PROVE HandWritten(t) BY <1>21 DEF GuardTick
<1>22. ASSUME NEW e \in Events, NEW r \in Runs, HookInProgress(t, e, r), t \in Hooks PROVE HandWritten(t)
  BY <1>22 DEF HookInProgress, Accepts
<1>23. ASSUME NEW e \in Events, NEW r \in Runs, HookCompleted(t, e, r), t \in Hooks PROVE HandWritten(t)
  BY <1>23 DEF HookCompleted, Accepts
<1>24. ASSUME HookStart(t) PROVE HandWritten(t) BY <1>24 DEF HookStart
<1>25. ASSUME HookClose(t) PROVE HandWritten(t) BY <1>25 DEF HookClose
<1>26. ASSUME HookPublish(t) PROVE HandWritten(t) BY <1>26 DEF HookPublish
<1>27. ASSUME Abort(t) PROVE HandWritten(t) BY <1>27 DEF Abort
<1>. QED BY <1>1, <1>2, <1>3, <1>4, <1>5, <1>6, <1>7, <1>8, <1>9, <1>10, <1>11, <1>12,
     <1>13, <1>14, <1>15, <1>16, <1>17, <1>18, <1>19, <1>20, <1>21, <1>22, <1>23,
     <1>24, <1>25, <1>26, <1>27
  DEF TaskStep, Advance, Dispatch, Retry, Loop

LEMMA TaskHands ==
    ASSUME TypeOK, Shape, NEW t \in Tasks, TaskStep(t)
    PROVE  \A u \in Tasks : pc'[u] \in RunLabels => local'[u].run \in Runs
<1>1. RowsKept BY RowsStep
<1>2. \A u \in Tasks : HandShape(u)' BY <1>1, HandsStep
<1>. QED BY <1>2 DEF HandShape

\* A caller's row is exempt from now on; the others and the handlers stay as they are.
LEMMA TracedByCallers ==
    ASSUME NEW after, TypeOK, Shape, Traced(after), Callers
    PROVE  Traced(after)'
<1>1. PICK r \in Runs : CallerWrote(r) BY CallerEffect
<1>2. \A q \in Runs : OfService(q)' => OfService(q) /\ run'[q] = run[q]
  BY <1>1 DEF CallerWrote, OfService
<1>3. UNCHANGED <<pc, local>> BY <1>1 DEF CallerWrote
<1>r. \A u \in Tasks : pc[u] \in RunLabels => local[u].run \in Runs BY RunInHand
<1>4. \A u \in Tasks : pc[u] \in RunLabels /\ OfService(local[u].run)' => OfService(local[u].run)
  BY <1>2, <1>3, <1>r DEF OfService
<1>5. \A q \in Runs : OfService(q)' => VouchedBy(after[q], run'[q].status)
  BY <1>2 DEF Traced
<1>. QED BY <1>3, <1>4, <1>5 DEF Traced, RunLabels, DispatchLabels

LEMMA TracedStep ==
    ASSUME NEW before, NEW after, \A r \in Runs : before[r] \subseteq after[r],
           TypeOK, Shape, Traced(before), NEW t \in Tasks, TaskStep(t),
           \A e \in mail, r \in Runs :
              e.action = "completed" /\ OfService(r) /\ run[r].gitRunId = e.git =>
                 VouchedBy(after[r], Normalize(e.conclusion))
    PROVE  Traced(after)'
<1>1. (\A r \in Runs : StatusWritten(t, r)) /\ HandWritten(t) BY StatusStep, HandStep
<1>2. \A r \in Runs : \A status : VouchedBy(before[r], status) => VouchedBy(after[r], status)
  BY VouchedByMore
<1>w. \A r \in Runs : OfService(r)' <=> OfService(r) BY WriterStep DEF OfService
<1>3. \A r \in Runs : OfService(r) => VouchedBy(after[r], run[r].status) BY <1>2 DEF Traced
<1>4. ASSUME NEW r \in Runs, OfService(r) PROVE VouchedBy(after[r], run'[r].status)
  <2>1. CASE run'[r].status = run[r].status BY <1>3, <1>4, <2>1
  <2>2. CASE run'[r].status \notin {"SUCCESS", "FAILURE"} BY <2>2, VouchedByOthers
  <2>3. CASE pc[t] \in {"r_commit", "h_close"} /\ r = local[t].run /\ run'[r].status = local[t].verdict
    BY <1>2, <1>4, <2>3 DEF Traced
  <2>4. CASE pc[t] = "d_restore" /\ r = local[t].run /\ run'[r].status = local[t].saved.status
    BY <1>2, <1>4, <2>4 DEF Traced
  <2>. QED BY <1>1, <2>1, <2>2, <2>3, <2>4 DEF StatusWritten
<1>r. \A u \in Tasks : pc[u] \in RunLabels => local[u].run \in Runs
  BY RunInHand
<1>5. \A u \in Tasks : pc[u] \in {"r_lock", "r_commit", "h_close"} /\ OfService(local[u].run) =>
         VouchedBy(after[local[u].run], local[u].verdict)
  BY <1>2, <1>r DEF Traced, RunLabels
<1>6. \A u \in Tasks : pc[u] \in {"d_write", "d_call", "d_restore"} /\ OfService(local[u].run) =>
         VouchedBy(after[local[u].run], local[u].saved.status)
  BY <1>2, <1>r DEF Traced, RunLabels, DispatchLabels
<1>7. ASSUME pc'[t] \in {"r_lock", "r_commit", "h_close"}, OfService(local'[t].run)
      PROVE  VouchedBy(after[local'[t].run], local'[t].verdict)
  BY <1>1, <1>5, <1>7, VouchedByOthers DEF HandWritten
<1>8. ASSUME pc'[t] \in {"d_write", "d_call", "d_restore"}, OfService(local'[t].run)
      PROVE  VouchedBy(after[local'[t].run], local'[t].saved.status)
  BY <1>1, <1>3, <1>6, <1>8, <1>r DEF HandWritten
<1>9. \A u \in Tasks \ {t} : pc'[u] = pc[u] /\ local'[u] = local[u]
  BY <1>1 DEF HandWritten, Bystanders
<1>10. \A u \in Tasks : pc'[u] \in RunLabels => local'[u].run \in Runs
  BY TaskHands
<1>11. \A u \in Tasks : pc'[u] \in {"r_lock", "r_commit", "h_close"} /\ OfService(local[u].run)' =>
         VouchedBy(after[local'[u].run], local'[u].verdict)
  BY <1>5, <1>7, <1>9, <1>10, <1>w DEF OfService, RunLabels
<1>12. \A u \in Tasks : pc'[u] \in {"d_write", "d_call", "d_restore"} /\ OfService(local[u].run)' =>
         VouchedBy(after[local'[u].run], local'[u].saved.status)
  BY <1>6, <1>8, <1>9, <1>10, <1>w DEF OfService, RunLabels, DispatchLabels
<1>. QED BY <1>4, <1>11, <1>12, <1>w DEF Traced

LEMMA MailStep ==
    ASSUME TypeOK, [Next]_vars, NEW e \in mail', e.action = "completed"
    PROVE  e \in mail \/ e.conclusion \in git'[e.git].done
<1>1. CASE mail' \subseteq mail BY <1>1
<1>2. ASSUME NEW g \in GitIds, GitStarts(g) PROVE e \in mail
  BY <1>2 DEF GitStarts, InProgress
<1>3. ASSUME NEW g \in GitIds, NEW c \in Conclusions, GitJobEnds(g, c)
      PROVE  e \in mail \/ e.conclusion \in git'[e.git].done
  BY <1>3 DEF GitJobEnds, Completed, TypeOK, GitRun
<1>4. ASSUME NEW f \in Events, EventRepeated(f)
      PROVE  e \in mail \/ e.conclusion \in git'[e.git].done
  BY <1>4 DEF EventRepeated, Sent
<1>5. \/ mail' \subseteq mail
      \/ \E g \in GitIds : GitStarts(g) \/ \E c \in Conclusions : GitJobEnds(g, c)
      \/ \E f \in Events : EventRepeated(f)
  <2>1. CASE \E t \in Tasks : Advance(t) \/ Abort(t) \/ DispatchCallFails(t)
    BY <2>1 DEF Advance, Dispatch, Retry, Loop, QueueAlreadyQueued, QueueLock, QueueCreate,
                LoopNext, LoopEnd, RetriggerCreate, DispatchReadWorkflow, DispatchCancel,
                DispatchRead, DispatchWrite, DispatchCall, DispatchCallFails, DispatchRecord,
                DispatchRestore, RetryLock, RetrySettled, RetryExhausted, RetryRequeue,
                RetryUnlock, HookStart, HookClose, HookPublish, Abort, external
  <2>2. CASE UNCHANGED vars BY <2>2 DEF vars
  <2>3. CASE Environment BY <2>3 DEF Environment, Expire, SetDisabled, external
  <2>4. CASE Begin
    BY <2>4 DEF Begin, Deliver, HookIgnore, HookInProgress, HookCompleted, QueueRead,
                RetriggerRead, GuardTick, external
  <2>5. CASE \E f \in Events : EventLost(f) BY <2>5 DEF EventLost
  <2>6. CASE Callers
    BY <2>6 DEF Callers, CreateWorkflowRun, UpdateWorkflowRun, external
  <2>. QED BY <2>1, <2>2, <2>3, <2>4, <2>5, <2>6 DEF Next, Fault
<1>. QED BY <1>1, <1>2, <1>3, <1>4, <1>5

LEMMA ProvenanceStep ==
    ASSUME TypeOK, Core, Provenance, [Next]_vars
    PROVE  Provenance'
<1>0. Shape /\ GitRunIdOwned BY DEF Core
<1>g. /\ \A g \in GitIds : git[g].run # None => git'[g].run = git[g].run
      /\ \A g \in GitIds : git[g].done \subseteq git'[g].done
      /\ \A g \in GitIds : git'[g].run = None => git'[g].done = {}
  BY <1>0, GitGrows
<1>1. PICK before, after :
         /\ \A r \in Runs : before[r] = Ends(r)
         /\ \A r \in Runs : after[r] = Ends(r)'
  <2>1. (\E f : f = [r \in Runs |-> Ends(r)]) /\ \E f : f = [r \in Runs |-> Ends(r)']
    OBVIOUS
  <2>2. PICK f, g : f = [r \in Runs |-> Ends(r)] /\ g = [r \in Runs |-> Ends(r)'] BY <2>1
  <2>3. \A r \in Runs : f[r] = Ends(r) /\ g[r] = Ends(r)' BY <2>2
  <2>. QED BY <2>3
<1>2. \A r \in Runs : before[r] \subseteq after[r] BY <1>0, <1>1, EndsGrow
<1>r. \A u \in Tasks : pc[u] \in RunLabels => local[u].run \in Runs
  BY <1>0, RunInHand
<1>3. Traced(before)
  BY <1>1, <1>r DEF Provenance, ResultHonest, Vouched, Traced, RunLabels, DispatchLabels
<1>t. Traced(after) BY <1>2, <1>3, <1>r, VouchedByMore DEF Traced, RunLabels, DispatchLabels
<1>4. \A e \in mail, r \in Runs :
         e.action = "completed" /\ OfService(r) /\ run[r].gitRunId = e.git =>
            VouchedBy(after[r], Normalize(e.conclusion))
  <2>1. ASSUME NEW e \in mail, NEW r \in Runs, e.action = "completed", OfService(r),
               run[r].gitRunId = e.git
        PROVE  VouchedBy(after[r], Normalize(e.conclusion))
    <3>1. e.git \in GitIds /\ e.git # None BY NoneAssumption DEF TypeOK, Event
    <3>2. git[e.git].run = r /\ e.conclusion \in git[e.git].done
      BY <1>0, <2>1, <3>1 DEF GitRunIdOwned, Provenance
    <3>3. e.conclusion \in Ends(r) /\ e.conclusion \in RawConclusions
      BY <3>1, <3>2 DEF Ends, TypeOK, GitRun
    <3>4. e.conclusion \in after[r] BY <1>1, <1>2, <3>3
    <3>. QED BY <3>3, <3>4 DEF VouchedBy, Normalize, RawConclusions
  <2>. QED BY <2>1
<1>5. Traced(after)'
  <2>1. CASE \E t \in Tasks : TaskStep(t) BY <1>0, <1>2, <1>3, <1>4, <2>1, TracedStep
  <2>2. CASE Apart
    <3>. QED BY <1>t, <2>2 DEF Apart, Traced, OfService
  <2>3. CASE Callers BY <1>0, <1>t, <2>3, TracedByCallers
  <2>. QED BY <2>1, <2>2, <2>3, NextCases
<1>6. \A e \in mail' : e.action = "completed" => e.conclusion \in git'[e.git].done
  <2>1. ASSUME NEW e \in mail', e.action = "completed"
        PROVE  e \in mail \/ e.conclusion \in git'[e.git].done
    BY <2>1, MailStep
  <2>. QED BY <1>g, <2>1 DEF Provenance, TypeOK, Event
<1>7. TypeOK' /\ Shape' BY CoreStep DEF Core
<1>8. \A u \in Tasks : pc'[u] \in RunLabels => local'[u].run \in Runs
  BY <1>7 DEF TypeOK, Shape, HandShape
<1>9. ResultHonest' BY <1>1, <1>5 DEF ResultHonest, Vouched, Traced
<1>. QED BY <1>1, <1>5, <1>6, <1>8, <1>9, <1>g DEF Provenance, Vouched, Traced, RunLabels, DispatchLabels

-----------------------------------------------------------------------------
(* No row is forgotten.                                                     *)

\* Completed, or where the guard will find it
Settled(row) == row.completed \/ Watched(row)

\* A handler that has yet to come to a row, or to write what makes it watched
Awaits(t, r) ==
    \/ pc[t] \in {"d_workflow", "d_cancel", "d_read", "d_write"} /\ local[t].run = r
    \/ t \in Consumers /\ r \in local[t].todo

ConsumerLabels == DispatchLabels \cup {"idle", "q_lock", "q_create", "loop", "d_record", "d_restore"}

\* A consumer keeps its list of rows until it has been through.
ConsumerFits(t) ==
    t \in Consumers => /\ pc[t] \in ConsumerLabels
                       /\ pc[t] \in {"idle", "q_lock", "q_create"} => local[t].todo = {}

NobodyForgotten ==
    /\ \A t \in Tasks : ConsumerFits(t)
    /\ faults = 0 => \A t \in Tasks : pc[t] # "d_restore"
    /\ faults = 0 /\ DispatchEnabled =>
          \A r \in Runs : Exists(r) /\ OfService(r) =>
              Settled(run[r]) \/ \E t \in Tasks : Awaits(t, r)

\* A consumer only does what queueWorkflowRuns and dispatchWorkflowRun do.
LEMMA ConsumerStep ==
    ASSUME TypeOK, Shape, NEW t \in Tasks, ConsumerFits(t), TaskStep(t)
    PROVE  ConsumerFits(t)' /\ Bystanders(t) /\ (pc'[t] = "d_restore" => faults' # 0)
<1> DEFINE Goal == ConsumerFits(t)' /\ Bystanders(t) /\ (pc'[t] = "d_restore" => faults' # 0)
<1>0. /\ faults \in Nat /\ pc \in [Tasks -> Labels] /\ local \in [Tasks -> Local]
      /\ t \in Consumers => pc[t] \in ConsumerLabels /\ t \notin Guards /\ t \notin Hooks /\ t \notin Admins
      /\ t \in Consumers /\ pc[t] \in {"idle", "q_lock", "q_create"} => local[t].todo = {}
  BY BoundsAssumption, RolesAssumption DEF ConsumerFits, TypeOK
<1>1. ASSUME QueueCreate(t) PROVE Goal
  BY <1>1, QueueCreateEffect DEF ConsumerFits, ConsumerLabels
<1>2. ASSUME NEW r \in Runs, RetriggerCreate(t, r) PROVE Goal
  BY <1>0, <1>2, RetriggerCreateEffect DEF ConsumerFits, ConsumerLabels, DispatchLabels
<1>. USE <1>0 DEF ConsumerFits, ConsumerLabels, Bystanders, DispatchLabels, Goto, Return, BackToLoop, NoLocal
<1>3. ASSUME NEW r \in Runs, LoopNext(t, r) PROVE Goal BY <1>3 DEF LoopNext
<1>4. ASSUME NEW s \in Submissions, QueueRead(t, s) PROVE Goal BY <1>4 DEF QueueRead
<1>5. ASSUME QueueAlreadyQueued(t) \/ LoopEnd(t) PROVE Goal
  BY <1>5 DEF QueueAlreadyQueued, LoopEnd
<1>6. ASSUME QueueLock(t) PROVE Goal BY <1>6 DEF QueueLock
<1>7. ASSUME NEW r \in Runs, RetriggerRead(t, r), t \in Admins PROVE Goal
  BY <1>7 DEF RetriggerRead
<1>8. ASSUME DispatchReadWorkflow(t) \/ DispatchRead(t) \/ DispatchWrite(t) PROVE Goal
  BY <1>8 DEF DispatchReadWorkflow, DispatchRead, DispatchWrite
<1>9. ASSUME DispatchCancel(t) \/ DispatchRecord(t) PROVE Goal
  BY <1>9 DEF DispatchCancel, DispatchRecord, DispatchReturns
<1>10. ASSUME NEW g \in GitIds, DispatchCall(t, g) PROVE Goal BY <1>10 DEF DispatchCall
<1>11. ASSUME DispatchCallFails(t) PROVE Goal BY <1>11 DEF DispatchCallFails
<1>12. ASSUME DispatchRestore(t) \/ Abort(t) PROVE Goal BY <1>12 DEF DispatchRestore, Abort
<1>13. ASSUME RetryLock(t) PROVE Goal BY <1>13 DEF RetryLock
<1>14. ASSUME RetrySettled(t) \/ RetryExhausted(t) PROVE Goal
  BY <1>14 DEF RetrySettled, RetryExhausted, RetryUnlock, RetryRefused
<1>15. ASSUME RetryRequeue(t) PROVE Goal BY <1>15 DEF RetryRequeue, RetryUnlock
<1>16. ASSUME GuardTick(t), t \in Guards PROVE Goal BY <1>16 DEF GuardTick
<1>17. ASSUME NEW e \in Events, NEW r \in Runs, t \in Hooks,
              HookInProgress(t, e, r) \/ HookCompleted(t, e, r)
       PROVE  Goal
  BY <1>17 DEF HookInProgress, HookCompleted
<1>18. ASSUME HookStart(t) \/ HookClose(t) \/ HookPublish(t) PROVE Goal
  BY <1>18 DEF HookStart, HookClose, HookPublish
<1>. QED BY <1>1, <1>2, <1>3, <1>4, <1>5, <1>6, <1>7, <1>8, <1>9, <1>10, <1>11, <1>12,
     <1>13, <1>14, <1>15, <1>16, <1>17, <1>18 DEF TaskStep, Advance, Dispatch, Retry, Loop

LEMMA FaultsGrow ==
    ASSUME faults \in Nat, [Next]_vars
    PROVE  faults' = 0 => faults = 0
<1>1. CASE Fault
  BY <1>1 DEF Fault, Abort, DispatchCallFails, EventLost, EventRepeated
<1>2. CASE Environment
  BY <1>2 DEF Environment, Expire, SetDisabled, GitStarts, GitJobEnds
<1>3. CASE Begin
  BY <1>3 DEF Begin, Deliver, QueueRead, RetriggerRead, GuardTick, HookIgnore, HookInProgress, HookCompleted
<1>4. CASE \E t \in Tasks : Advance(t)
  BY <1>4 DEF Advance, Dispatch, Retry, Loop, QueueAlreadyQueued, QueueLock, QueueCreate, LoopNext, LoopEnd,
     RetriggerCreate, DispatchReadWorkflow, DispatchCancel, DispatchRead, DispatchWrite, DispatchCall,
     DispatchRecord, DispatchRestore, RetryLock, RetrySettled, RetryExhausted, RetryRequeue, RetryUnlock,
     HookStart, HookClose, HookPublish
<1>5. CASE Callers
  BY <1>5 DEF Callers, CreateWorkflowRun, UpdateWorkflowRun
<1>. QED BY <1>1, <1>2, <1>3, <1>4, <1>5 DEF Next, vars

\* What a step of a task does to a row and to its own part in it
Remembers(t, r) ==
    /\ Exists(r) /\ Settled(run[r]) => Settled(run'[r]) \/ Awaits(t, r)'
    /\ Awaits(t, r) => Settled(run'[r]) \/ Awaits(t, r)'
    /\ ~Exists(r) /\ Exists(r)' => Awaits(t, r)'

LEMMA ReaderRemembers ==
    ASSUME NEW t \in Tasks, NEW r \in Runs, run' = run, Awaits(t, r) => Awaits(t, r)'
    PROVE  Remembers(t, r)
BY DEF Remembers, Exists

\* The row in hand gets settled, another stays.
LEMMA WriterRemembers ==
    ASSUME TypeOK, Shape, NEW t \in Tasks, pc[t] \in RunLabels, NEW r \in Runs,
           NEW row, run' = [run EXCEPT ![local[t].run] = row], row.status # "ABSENT",
           r = local[t].run => Settled(row) \/ Awaits(t, r)',
           r # local[t].run /\ Awaits(t, r) => Awaits(t, r)'
    PROVE  Remembers(t, r)
<1>1. /\ local[t].run \in Runs /\ Exists(local[t].run) /\ run \in [Runs -> Row]
  BY RunInHand DEF Shape, HandShape, TypeOK
<1>2. CASE r = local[t].run
  BY <1>1, <1>2 DEF Remembers, Exists
<1>3. CASE r # local[t].run
  BY <1>1, <1>3 DEF Remembers, Exists
<1>. QED BY <1>2, <1>3

LEMMA Remembered ==
    ASSUME TypeOK, Shape, NEW t \in Tasks, ConsumerFits(t), TaskStep(t), faults' = 0,
           DispatchEnabled, pc[t] # "d_restore", NEW r \in Runs
    PROVE  Remembers(t, r)
<1>0. /\ faults \in Nat /\ pc \in [Tasks -> Labels] /\ local \in [Tasks -> Local] /\ run \in [Runs -> Row]
      /\ t \in Consumers => pc[t] \in ConsumerLabels /\ t \notin Guards /\ t \notin Hooks /\ t \notin Admins
      /\ t \in Consumers /\ pc[t] \in {"idle", "q_lock", "q_create"} => local[t].todo = {}
  BY BoundsAssumption, RolesAssumption DEF ConsumerFits, TypeOK
<1>r. pc[t] \in RunLabels => local[t].run \in Runs /\ run[local[t].run] \in Row /\ Exists(local[t].run)
  BY RunInHand DEF Shape, HandShape
<1>1. ASSUME QueueCreate(t) PROVE Remembers(t, r)
  <2>1. t \in Consumers /\ pc[t] = "q_create" /\ local[t].todo = {}
    BY <1>0, <1>1, QueueCreateEffect DEF Shape, HandShape
  <2>2. r \in local'[t].todo \/ run'[r] = run[r]
    BY <1>1, QueueCreateEffect
  <2>. QED BY <2>1, <2>2 DEF Remembers, Awaits, Exists
<1>2. ASSUME NEW q \in Runs, RetriggerCreate(t, q) PROVE Remembers(t, r)
  <2>1. /\ ~Exists(q) /\ pc[t] = "a_create" /\ pc'[t] = "d_workflow" /\ local'[t].run = q
        /\ r = q \/ run'[r] = run[r]
    BY <1>0, <1>2, RetriggerCreateEffect DEF RetriggerCreate, Goto, NoLocal
  <2>2. t \notin Consumers
    BY <1>0, <2>1 DEF ConsumerLabels, DispatchLabels
  <2>. QED BY <2>1, <2>2 DEF Remembers, Awaits, Exists
<1>. USE <1>0 DEF ConsumerLabels, DispatchLabels, Goto, NoLocal
<1>3. ASSUME NEW q \in Runs, LoopNext(t, q) PROVE Remembers(t, r)
  <2>1. /\ run' = run /\ pc[t] = "loop" /\ local'[t].run = q /\ local'[t].todo = local[t].todo \ {q}
        /\ t \in Consumers => pc'[t] = "d_workflow"
    BY <1>3 DEF LoopNext
  <2>. QED BY <2>1, ReaderRemembers DEF Awaits
<1>4. ASSUME DispatchReadWorkflow(t) \/ DispatchRead(t) PROVE Remembers(t, r)
  <2>1. local[t] \in Local
    BY <1>0
  <2>2. /\ run' = run /\ pc'[t] \in {"d_cancel", "d_read", "d_write"}
        /\ local'[t].run = local[t].run /\ local'[t].todo = local[t].todo
    BY <1>4, <2>1 DEF DispatchReadWorkflow, DispatchRead, Local
  <2>. QED BY <2>2, ReaderRemembers DEF Awaits
<1>5. ASSUME NEW g \in GitIds, DispatchCall(t, g) PROVE Remembers(t, r)
  BY <1>5, ReaderRemembers DEF DispatchCall, Awaits, Local
<1>6. ASSUME QueueAlreadyQueued(t) \/ QueueLock(t) \/ LoopEnd(t) \/ RetryLock(t) \/ RetrySettled(t)
             \/ HookPublish(t)
      PROVE  Remembers(t, r)
  BY <1>6, ReaderRemembers DEF QueueAlreadyQueued, QueueLock, LoopEnd, RetryLock, RetrySettled,
     RetryUnlock, HookPublish, Awaits
<1>7. ASSUME \/ t \in Consumers /\ \E s \in Submissions : QueueRead(t, s)
             \/ t \in Admins /\ \E q \in Runs : RetriggerRead(t, q)
             \/ t \in Guards /\ GuardTick(t)
             \/ t \in Hooks /\ \E e \in Events, q \in Runs : HookInProgress(t, e, q) \/ HookCompleted(t, e, q)
      PROVE  Remembers(t, r)
  BY <1>7, ReaderRemembers DEF QueueRead, RetriggerRead, GuardTick, HookInProgress, HookCompleted, Awaits
<1>8. ASSUME DispatchCancel(t) PROVE Remembers(t, r)
  <2> DEFINE row == [run[local[t].run] EXCEPT !.status = "CANCELLED", !.completed = TRUE]
  <2>1. run' = [run EXCEPT ![local[t].run] = row] /\ pc[t] = "d_cancel"
    BY <1>r, <1>8 DEF DispatchCancel, RunLabels
  <2>2. row.status # "ABSENT" /\ Settled(row)
    BY <1>r, <2>1 DEF Row, Settled, RunLabels
  <2>3. r # local[t].run /\ Awaits(t, r) => Awaits(t, r)'
    BY <1>8 DEF DispatchCancel, DispatchReturns, BackToLoop, Return, Awaits
  <2>. QED BY <2>1, <2>2, <2>3, WriterRemembers DEF RunLabels
<1>9. ASSUME DispatchWrite(t) PROVE Remembers(t, r)
  <2> DEFINE row == [run[local[t].run] EXCEPT !.status = "DISPATCHED", !.dispatched = TRUE,
                                              !.completed = FALSE, !.started = FALSE]
  <2>1. run' = [run EXCEPT ![local[t].run] = row] /\ pc[t] = "d_write"
    BY <1>9 DEF DispatchWrite
  <2>2. row.status # "ABSENT" /\ Settled(row)
    BY <1>r, <2>1 DEF Row, Settled, Watched, WatchedStatuses, RunLabels
  <2>3. r # local[t].run /\ Awaits(t, r) => Awaits(t, r)'
    BY <1>9 DEF DispatchWrite, Awaits
  <2>. QED BY <2>1, <2>2, <2>3, WriterRemembers DEF RunLabels
<1>10. ASSUME DispatchRecord(t) PROVE Remembers(t, r)
  <2> DEFINE row == [run[local[t].run] EXCEPT !.gitRunId = local[t].git]
  <2>1. run' = [run EXCEPT ![local[t].run] = row] /\ pc[t] = "d_record"
    BY <1>10 DEF DispatchRecord
  <2>2. /\ row.status # "ABSENT" /\ (Settled(run[local[t].run]) => Settled(row))
    BY <1>r, <2>1 DEF Row, Settled, Watched, RunLabels, Exists
  <2>3. Awaits(t, r) => Awaits(t, r)'
    BY <1>10 DEF DispatchRecord, DispatchReturns, BackToLoop, Return, Awaits
  <2>4. CASE Awaits(t, r)
    BY <2>3, <2>4, <1>r, <2>1 DEF Remembers, RunLabels, Exists
  <2>5. CASE ~Awaits(t, r)
    BY <1>r, <2>1, <2>2, <2>5 DEF Remembers, RunLabels, Exists
  <2>. QED BY <2>4, <2>5
<1>11. ASSUME RetryExhausted(t) PROVE Remembers(t, r)
  <2> DEFINE row == [run[local[t].run] EXCEPT !.status = local[t].verdict, !.completed = TRUE]
  <2>1. run' = [run EXCEPT ![local[t].run] = row] /\ pc[t] = "r_commit"
    BY <1>r, <1>11 DEF RetryExhausted, RetryUnlock, RunLabels
  <2>2. local[t].verdict \in TerminalStatuses
    BY <2>1 DEF Shape, HandShape
  <2>3. row.status # "ABSENT" /\ Settled(row)
    BY <1>r, <2>1, <2>2 DEF Row, Settled, RunLabels, TerminalStatuses
  <2>4. ~Awaits(t, r)
    BY <2>1 DEF Awaits
  <2>. QED BY <2>1, <2>3, <2>4, WriterRemembers DEF RunLabels
<1>12. ASSUME RetryRequeue(t) PROVE Remembers(t, r)
  <2> DEFINE row == [run[local[t].run] EXCEPT !.status = "QUEUED",
                        !.retryCount = run[local[t].run].retryCount + 1, !.completed = FALSE,
                        !.started = FALSE, !.dispatched = FALSE, !.gitRunId = None]
  <2>1. run' = [run EXCEPT ![local[t].run] = row] /\ pc[t] = "r_commit"
    BY <1>12 DEF RetryRequeue, RetryUnlock
  <2>2. row.status # "ABSENT"
    BY <1>r, <2>1 DEF Row, RunLabels
  <2>3. (r = local[t].run => Awaits(t, r)') /\ ~Awaits(t, r)
    <3>1. pc'[t] = "d_workflow" /\ local'[t].run = local[t].run
      BY <1>12 DEF RetryRequeue
    <3>. QED BY <2>1, <3>1 DEF Awaits
  <2>. QED BY <2>1, <2>2, <2>3, WriterRemembers DEF RunLabels
<1>13. ASSUME HookStart(t) PROVE Remembers(t, r)
  <2> DEFINE row == [run[local[t].run] EXCEPT !.status = "IN_PROGRESS", !.started = TRUE]
  <2>1. run' = [run EXCEPT ![local[t].run] = row] /\ pc[t] = "h_start"
    BY <1>r, <1>13 DEF HookStart, RunLabels
  <2>2. row.status # "ABSENT" /\ Settled(row)
    BY <1>r, <2>1 DEF Row, Settled, Watched, WatchedStatuses, RunLabels
  <2>3. ~Awaits(t, r)
    BY <2>1 DEF Awaits
  <2>. QED BY <2>1, <2>2, <2>3, WriterRemembers DEF RunLabels
<1>14. ASSUME HookClose(t) PROVE Remembers(t, r)
  <2> DEFINE row == [run[local[t].run] EXCEPT !.status = local[t].verdict, !.completed = TRUE]
  <2>1. run' = [run EXCEPT ![local[t].run] = row] /\ pc[t] = "h_close"
    BY <1>r, <1>14 DEF HookClose, RunLabels
  <2>2. local[t].verdict \in TerminalStatuses
    BY <2>1 DEF Shape, HandShape
  <2>3. row.status # "ABSENT" /\ Settled(row)
    BY <1>r, <2>1, <2>2 DEF Row, Settled, RunLabels, TerminalStatuses
  <2>4. ~Awaits(t, r)
    BY <2>1 DEF Awaits
  <2>. QED BY <2>1, <2>3, <2>4, WriterRemembers DEF RunLabels
<1>15. ~Abort(t) /\ ~DispatchCallFails(t) /\ ~DispatchRestore(t)
  BY DEF Abort, DispatchCallFails, DispatchRestore
<1>. QED BY <1>1, <1>2, <1>3, <1>4, <1>5, <1>6, <1>7, <1>8, <1>9, <1>10, <1>11, <1>12,
     <1>13, <1>14, <1>15 DEF TaskStep, Advance, Dispatch, Retry, Loop

LEMMA ForgottenStep ==
    ASSUME TypeOK, Core, NobodyForgotten, [Next]_vars
    PROVE  NobodyForgotten'
<1>0. Shape /\ faults \in Nat BY DEF Core, TypeOK
<1>1. CASE Apart
  <2>1. UNCHANGED <<run, pc, local>> BY <1>1 DEF Apart
  <2>2. faults' = 0 => faults = 0
    BY <1>0, <2>1, FaultsGrow
  <2>. QED BY <2>1, <2>2 DEF NobodyForgotten, ConsumerFits, Settled, Watched, Awaits, Exists, OfService
<1>2. ASSUME NEW t \in Tasks, TaskStep(t) PROVE NobodyForgotten'
  <2>1. ConsumerFits(t)' /\ Bystanders(t) /\ (pc'[t] = "d_restore" => faults' # 0)
    BY <1>0, <1>2, ConsumerStep DEF NobodyForgotten
  <2>2. \A u \in Tasks : ConsumerFits(u)'
    BY <2>1 DEF NobodyForgotten, ConsumerFits, Bystanders
  <2>3. faults' = 0 => faults = 0
    BY <1>0, FaultsGrow
  <2>4. faults' = 0 => \A u \in Tasks : pc'[u] # "d_restore"
    BY <2>1, <2>3 DEF NobodyForgotten, Bystanders
  <2>w. \A r \in Runs : OfService(r)' <=> OfService(r)
    BY <1>0, <1>2, WriterStep DEF OfService
  <2>5. ASSUME faults' = 0, DispatchEnabled, NEW r \in Runs, Exists(r)', OfService(r)'
        PROVE  Settled(run'[r]) \/ \E u \in Tasks : Awaits(u, r)'
    <3>1. Remembers(t, r)
      BY <1>0, <1>2, <2>3, <2>5, Remembered DEF NobodyForgotten
    <3>2. CASE ~Exists(r)
      BY <2>5, <3>1, <3>2 DEF Remembers
    <3>3. CASE Exists(r) /\ Settled(run[r])
      BY <3>1, <3>3 DEF Remembers
    <3>4. CASE Exists(r) /\ ~Settled(run[r])
      <4>1. PICK u \in Tasks : Awaits(u, r)
        BY <2>3, <2>5, <2>w, <3>4 DEF NobodyForgotten
      <4>2. CASE u = t
        BY <3>1, <4>1, <4>2 DEF Remembers
      <4>3. CASE u # t
        BY <2>1, <4>1, <4>3 DEF Awaits, Bystanders
      <4>. QED BY <4>2, <4>3
    <3>. QED BY <3>2, <3>3, <3>4
  <2>. QED BY <2>2, <2>4, <2>5 DEF NobodyForgotten
<1>3. CASE Callers
  <2>1. PICK r \in Runs : CallerWrote(r) BY <1>0, <1>3, CallerEffect
  <2>2. UNCHANGED <<pc, local, faults>> BY <2>1 DEF CallerWrote
  <2>3. \A q \in Runs : OfService(q)' => OfService(q) /\ run'[q] = run[q]
    BY <2>1 DEF CallerWrote, OfService
  <2>4. \A q \in Runs, t \in Tasks : Awaits(t, q)' <=> Awaits(t, q) BY <2>2 DEF Awaits
  <2>. QED BY <2>2, <2>3, <2>4 DEF NobodyForgotten, ConsumerFits, Exists
<1>. QED BY <1>1, <1>2, <1>3, NextCases

-----------------------------------------------------------------------------
(* The theorems.                                                            *)

\* IInv is inductive with the types: it holds of every reachable state.
THEOREM Invariance == Spec => [](TypeOK /\ IInv)
<1>1. Init => TypeOK /\ IInv
  <2> SUFFICES ASSUME Init PROVE Provenance
    BY InitCore DEF IInv
  <2>1. \A r \in Runs : Vouched(r, run[r].status)
    BY VouchedByOthers DEF Init, AbsentRow, Vouched
  <2>. QED BY <2>1 DEF Init, Provenance, ResultHonest, NoGitRun
<1>2. TypeOK /\ IInv /\ [Next]_vars => (TypeOK /\ IInv)'
  BY CoreStep, ProvenanceStep DEF IInv
<1>. QED BY <1>1, <1>2, PTL DEF Spec

\* Every variable keeps its type, whatever tasks of whatever instances interleave.
THEOREM TypeCorrect == Spec => []TypeOK
BY Invariance, PTL

\* No row is retried more often than AI_WORKFLOW_MAX_RETRIES, although
\* retryWorkflowRunIfEligible shares its lock with no other writer of the row.
THEOREM RetriesBounded == Spec => []RetryBound
<1>1. IInv => RetryBound BY DEF IInv, Core
<1>. QED BY <1>1, Invariance, PTL

\* Gitea is asked at most once for each attempt, with any number of webhooks,
\* guards, redeliveries, retriggers and aborted tasks.
THEOREM DispatchedOnce == Spec => []DispatchOnce
<1>1. IInv => DispatchOnce BY DEF IInv, Core
<1>. QED BY <1>1, Invariance, PTL

\* queueWorkflowRuns makes one row per submission and workflow for any number
\* of deliveries of the scan-complete message.
THEOREM QueuedOncePerScan == Spec => []QueuedOnce
<1>1. IInv => QueuedOnce BY DEF IInv, Core
<1>. QED BY <1>1, Invariance, PTL

\* A row that neither POST nor PATCH has written never holds the gitRunId of a run
\* made for another row, however late dispatchWorkflowRun writes it and whatever
\* callers write into other rows.
THEOREM GitRunIdsOwned == Spec => []GitRunIdOwned
<1>1. IInv => GitRunIdOwned BY DEF IInv, Core
<1>. QED BY <1>1, Invariance, PTL

\* The handlers write SUCCESS and FAILURE only for what a job of the row's own Gitea
\* runs concluded: no other row comes to say so, whatever callers write into theirs.
THEOREM ResultsHonest == Spec => []ResultHonest
<1>1. IInv => ResultHonest BY DEF IInv, Provenance
<1>. QED BY <1>1, Invariance, PTL

\* While dispatch is on and nothing fails, every row callers leave alone is closed, or in a handler's
\* hands, or in a state the timeout guard looks for, or one that a late in_progress
\* webhook wrote over its end, with any number of consumers, guards, webhooks and
\* retriggers at work on the same rows.
THEOREM NoRunForgotten == Spec => []NoForgottenRun
<1>1. Init => NobodyForgotten
  <2> SUFFICES ASSUME Init PROVE NobodyForgotten
    OBVIOUS
  <2>1. /\ \A t \in Tasks : pc[t] = "idle" /\ local[t].todo = {}
        /\ \A r \in Runs : ~Exists(r)
    BY DEF Init, NoLocal, AbsentRow, Exists
  <2>. QED BY <2>1 DEF NobodyForgotten, ConsumerFits, ConsumerLabels
<1>2. TypeOK /\ IInv /\ NobodyForgotten /\ [Next]_vars => NobodyForgotten'
  BY ForgottenStep DEF IInv
<1>3. NobodyForgotten => NoForgottenRun
  BY DEF NobodyForgotten, NoForgottenRun, Settled, Awaits, InHand, Closed, Overwritten
<1>. QED BY <1>1, <1>2, <1>3, Invariance, PTL DEF Spec

-----------------------------------------------------------------------------
(* The handlers implement the retry budget.                                 *)

LEMMA OnlyRequeueCounts ==
    ASSUME TypeOK, Shape, NEW t \in Tasks, TaskStep(t)
    PROVE  RetryRequeue(t) \/ \A r \in Runs : run'[r].retryCount = run[r].retryCount
<1>r. pc[t] \in RunLabels => local[t].run \in Runs /\ run[local[t].run] \in Row
  BY RunInHand
<1>0. \A r \in Runs : ~Exists(r) => run[r].retryCount = 0 BY DEF Shape, AbsentRow
<1>1. ASSUME QueueCreate(t) PROVE \A r \in Runs : run'[r].retryCount = run[r].retryCount
  BY <1>0, <1>1, QueueCreateEffect
<1>2. ASSUME NEW r \in Runs, RetriggerCreate(t, r)
      PROVE  \A q \in Runs : run'[q].retryCount = run[q].retryCount
  BY <1>0, <1>2, RetriggerCreateEffect
<1>3. ASSUME DispatchCancel(t) \/ DispatchRecord(t) \/ HookStart(t) \/ HookClose(t)
      PROVE  \A r \in Runs : run'[r].retryCount = run[r].retryCount
  BY <1>3, <1>r DEF DispatchCancel, DispatchRecord, HookStart, HookClose, TypeOK, Row,
                    RunLabels, DispatchLabels
<1>4. ASSUME DispatchWrite(t) PROVE \A r \in Runs : run'[r].retryCount = run[r].retryCount
  BY <1>4, <1>r DEF DispatchWrite, TypeOK, Row, RunLabels, DispatchLabels
<1>5. ASSUME DispatchRestore(t) PROVE \A r \in Runs : run'[r].retryCount = run[r].retryCount
  BY <1>5, <1>r DEF DispatchRestore, TypeOK, Row, RunLabels
<1>6. ASSUME RetryExhausted(t) PROVE \A r \in Runs : run'[r].retryCount = run[r].retryCount
  BY <1>6, <1>r DEF RetryExhausted, RetryUnlock, TypeOK, Row, RunLabels
<1>. QED BY <1>1, <1>2, <1>3, <1>4, <1>5, <1>6, Writers

LEMMA AskedKept ==
    ASSUME \A g \in GitIds : git'[g].run = git[g].run /\ git'[g].attempt = git[g].attempt,
           NEW r \in Runs
    PROVE  Asked(r)' = Asked(r)
BY DEF Asked

\* Every step is a grant of a retry, a request for an attempt never asked for
\* before, or changes neither count: BudgetKept.
THEOREM ImplementsBudget == Spec => BudgetKept
<1> DEFINE tries == [r \in Runs |-> run[r].retryCount]
           asked == [r \in Runs |-> Asked(r)]
<1>1. Init => Budget!Init
  <2> SUFFICES ASSUME Init PROVE Budget!Init
    OBVIOUS
  <2>1. tries = [r \in Runs |-> 0] BY DEF Init, AbsentRow
  <2>2. \A r \in Runs : Asked(r) = {} BY NoneAssumption DEF Init, Asked, NoGitRun
  <2>. QED BY <2>1, <2>2 DEF Budget!Init
<1>2. TypeOK /\ IInv /\ [Next]_vars => [Budget!Next]_<<tries, asked>>
  <2> SUFFICES ASSUME TypeOK, IInv, [Next]_vars
               PROVE  Budget!Next \/ (tries' = tries /\ asked' = asked)
    OBVIOUS
  <2>0. Core /\ Shape /\ ReadStable /\ Ledger BY DEF IInv, Core
  <2>1. CASE Apart
    <3>1. tries' = tries BY <2>1 DEF Apart
    <3>2. \A r \in Runs : Asked(r)' = Asked(r) BY <2>1, AskedKept DEF Apart
    <3>. QED BY <3>1, <3>2
  <2>2. ASSUME NEW t \in Tasks, NEW g \in GitIds, GitAsked(t, g)
        PROVE  Budget!Next
    <3>0. PICK q, k : q = local[t].run /\ k = local[t].attempt OBVIOUS
    <3>1. q \in Runs /\ k \in Nat /\ run[q].retryCount \in Nat
      BY <2>0, <2>2, <3>0, RunInHand DEF GitAsked, RunLabels, DispatchLabels, TypeOK, Local, Row
    <3>2. k <= run[q].retryCount /\ ~Spent(q, k)
      <4>1. Holds(t, q, k) BY <2>2, <3>0 DEF Holds, GitAsked, DispatchLabels
      <4>2. k \in 0..MaxRetries
        BY <2>0, <2>2, <3>0, <3>1, RetriesAssumption DEF Ledger, GitAsked, DispatchLabels
      <4>. QED BY <2>0, <3>1, <4>1, <4>2 DEF Ledger
    <3>3. k \in (0..tries[q]) \ asked[q] BY <3>1, <3>2 DEF Spent, Asked
    <3>4. tries' = tries BY <2>2 DEF GitAsked
    <3>5. /\ git[g].run = None /\ git'[g].run = q /\ git'[g].attempt = k /\ q # None
          /\ \A h \in GitIds \ {g} : git'[h] = git[h]
      BY <2>2, <3>0, <3>1, NoneAssumption DEF GitAsked
    <3>6. Asked(q)' = Asked(q) \cup {k}
      <4>1. \A a : a \in Asked(q)' <=> \E h \in GitIds : git'[h].run = q /\ a = git'[h].attempt
        BY DEF Asked
      <4>2. \A a : a \in Asked(q) <=> \E h \in GitIds : git[h].run = q /\ a = git[h].attempt
        BY DEF Asked
      <4>. QED BY <3>5, <4>1, <4>2
    <3>7. ASSUME NEW r \in Runs \ {q} PROVE Asked(r)' = Asked(r)
      <4>1. {h \in GitIds : git'[h].run = r} = {h \in GitIds : git[h].run = r}
        BY <3>5, <3>7, NoneAssumption
      <4>2. \A h \in GitIds : git[h].run = r => git'[h] = git[h] BY <3>5, <3>7, NoneAssumption
      <4>. QED BY <4>1, <4>2 DEF Asked
    <3>8. asked' = [asked EXCEPT ![q] = @ \cup {k}]
      <4>1. \A r \in Runs : asked'[r] = [asked EXCEPT ![q] = @ \cup {k}][r]
        BY <3>1, <3>6, <3>7
      <4>. QED BY <4>1
    <3>. QED BY <3>1, <3>3, <3>4, <3>8 DEF Budget!Next, Budget!Ask
  <2>3. ASSUME NEW t \in Tasks, TaskStep(t), git' = git
        PROVE  Budget!Next \/ (tries' = tries /\ asked' = asked)
    <3>1. \A r \in Runs : Asked(r)' = Asked(r) BY <2>3, AskedKept
    <3>2. CASE \A r \in Runs : run'[r].retryCount = run[r].retryCount BY <3>1, <3>2
    <3>3. CASE RetryRequeue(t)
      <4> DEFINE q == local[t].run
      <4>1. q \in Runs /\ run[q] \in Row /\ run[q].retryCount < MaxRetries
        BY <2>0, <3>3, RunInHand DEF RetryRequeue, RetryUnlock, RunLabels, ReadStable
      <4>2. /\ run'[q].retryCount = run[q].retryCount + 1
            /\ \A r \in Runs \ {q} : run'[r] = run[r]
        BY <3>3, <4>1 DEF RetryRequeue, TypeOK, Row
      <4>3. tries' = [tries EXCEPT ![q] = @ + 1] BY <4>1, <4>2
      <4>. QED BY <3>1, <4>1, <4>3 DEF Budget!Next, Budget!Grant
    <3>. QED BY <2>0, <2>3, <3>2, <3>3, OnlyRequeueCounts
  <2>4. CASE Callers
    <3>1. PICK r \in Runs : CallerWrote(r) BY <2>0, <2>4, CallerEffect
    <3>2. \A q \in Runs : run'[q].retryCount = run[q].retryCount BY <3>1 DEF CallerWrote
    <3>3. \A q \in Runs : Asked(q)' = Asked(q) BY <3>1, AskedKept DEF CallerWrote
    <3>. QED BY <3>2, <3>3
  <2>. QED BY <2>0, <2>1, <2>2, <2>3, <2>4, NextCases, GitStep DEF GitQuiet
<1>. QED BY <1>1, <1>2, Invariance, PTL DEF Spec, BudgetKept, Budget!Spec

=============================================================================
