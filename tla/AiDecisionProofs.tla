-------------------------- MODULE AiDecisionProofs --------------------------
(* Proofs about AiDecision, for any config, scores and number of requests.  *)
EXTENDS AiDecision, TLAPS

USE RunsAssumption, ScoresAssumption, ConfigAssumption, BoundsAssumption, SwitchAssumption,
    TasksAssumption, NoneAssumption

\* A verdict of "pass" comes from runs that deserve it.
LEMMA PassDeserved ==
  ASSUME NEW c \in Contexts, Verdict(c) = "pass", TypeOK
  PROVE  Merit
<1>1. Ready(c) /\ Passes(c)
  BY DEF Verdict
<1>2. \A w \in Workflows : c[w] # None /\ run[c[w]].status \in {"SUCCESS", "FAILURE"}
  BY <1>1 DEF Ready, Passes, Cancelled, Ended
<1>3. c \in [Workflows -> (Workflows \X Slots) \cup {None}]
  BY DEF Contexts
<1>4. ASSUME NEW w \in Gating
      PROVE  run[c[w]].score # None /\ run[c[w]].score >= Minimum[w]
  <2>1. w \in Workflows /\ Minimum[w] \in Nat
    OBVIOUS
  <2>2. c[w] \in Workflows \X Slots
    BY <1>2, <1>3, <2>1
  <2>3. run[c[w]].score \in Scores \cup {None}
    BY <2>2 DEF TypeOK, Run
  <2>4. ~BelowMinimum(w, run[c[w]].score)
    BY <1>1 DEF Passes, GatingFailure
  <2>5. QED
    <3> DEFINE s == run[c[w]].score
    <3>1. s # None /\ ~(s < Minimum[w])
      BY <2>4 DEF BelowMinimum
    <3>2. s \in Nat
      BY <2>3, <3>1
    <3>3. s >= Minimum[w]
      <4> HIDE DEF s
      <4>1. QED
        BY <2>1, <3>1, <3>2
    <3>4. QED
      BY <3>1, <3>3
<1>5. Deserved(c)
  BY <1>1, <1>2, <1>4 DEF Deserved, Passes
<1>6. QED
  BY <1>5 DEF Merit

\* The initial state satisfies the invariant.
LEMMA InitIInv == Init => IInv
<1> SUFFICES ASSUME Init PROVE IInv
  OBVIOUS
<1> USE DEF Init
<1>2. TypeOK
  <2>1. run \in [Workflows \X Slots -> Run]
    BY DEF Run, Fresh, Absent, Ended
  <2>3. QED
    <3>1. decision \in Decision
      BY DEF Decision
    <3>2. /\ esc \in [Creates -> {"none", "PENDING_APPROVAL", "APPROVED", "REJECTED"}]
          /\ callerPc \in [Callers -> {"start", "approved", "own", "commit", "done", "granted"}]
          /\ target \in [Updates -> Creates \cup {None}]
      OBVIOUS
    <3>3. /\ pc \in [Tasks -> {"idle", "accepted", "read", "upsert", "write", "gate", "create", "error"}]
          /\ row \in [Hooks -> (Workflows \X Slots) \cup {None}]
          /\ verdict \in [Tasks -> {"wait", "pass", "fail"}]
      OBVIOUS
    <3>4. mishaps \in 0..MaxMishaps
      OBVIOUS
    <3>5. reviews \in BOOLEAN /\ merited \in BOOLEAN
      BY Zenon
    <3>6. QED
      BY <2>1, <3>1, <3>2, <3>3, <3>4, <3>5 DEF TypeOK
<1>3. QED
  BY <1>2 DEF IInv, GateKept, PassedOnMerit, LockedMeansRefused, Tasks, Callers, Creates, Open

\* Runs stay runs when one of their fields changes.
LEMMA RunFields ==
  ASSUME NEW x \in Run, NEW n \in 0..MaxTime
  PROVE  /\ [x EXCEPT !.startedAt = n] \in Run
         /\ \A status \in Ended : [x EXCEPT !.status = status, !.completedAt = n] \in Run
         /\ \A score \in Scores : [x EXCEPT !.score = score] \in Run
<1>1. [x EXCEPT !.startedAt = n] \in Run
  BY DEF Run
<1>2. ASSUME NEW score \in Scores PROVE [x EXCEPT !.score = score] \in Run
  BY DEF Run
<1>3. ASSUME NEW status \in Ended PROVE [x EXCEPT !.status = status, !.completedAt = n] \in Run
  BY DEF Run
<1>4. QED
  BY <1>1, <1>2, <1>3

\* What a step does to runs keeps their type.
LEMMA RunsType ==
  ASSUME TypeOK, NEW r \in Workflows \X Slots
  PROVE  /\ StartRun(r) \/ RequeueRun(r) \/ Retrigger(r) => run' \in [Workflows \X Slots -> Run]
         /\ \A status \in Ended : EndsAs(r, status) => run' \in [Workflows \X Slots -> Run]
         /\ \A score \in Scores : [run EXCEPT ![r].score = score] \in [Workflows \X Slots -> Run]
         /\ [run EXCEPT ![r].startedAt = 0] \in [Workflows \X Slots -> Run]
<1> DEFINE RR == Workflows \X Slots
<1>1. run \in [RR -> Run] /\ r \in RR /\ run[r] \in Run
  BY DEF TypeOK
<1>2. \A now \in Now(r[1]) : now \in 0..MaxTime
  BY DEF Now, After
<1>3. 0 \in 0..MaxTime
  OBVIOUS
<1>4. ASSUME NEW x \in Run PROVE [run EXCEPT ![r] = x] \in [RR -> Run]
  <2> HIDE DEF RR
  <2>1. QED
    BY <1>1
<1>5. \A score \in Scores : [run EXCEPT ![r].score = score] \in [RR -> Run]
  BY <1>1, <1>3, <1>4, RunFields
<1>6. \A n \in 0..MaxTime : [run EXCEPT ![r].startedAt = n] \in [RR -> Run]
  BY <1>1, <1>4, RunFields
<1>7. StartRun(r) \/ RequeueRun(r) \/ Retrigger(r) => run' \in [RR -> Run]
  <2>1. ASSUME StartRun(r) PROVE run' \in [RR -> Run]
    <3>1. PICK now \in Now(r[1]) : run' = [run EXCEPT ![r].startedAt = now]
      BY <2>1 DEF StartRun
    <3>2. QED
      BY <1>2, <1>6, <3>1
  <2>2. Fresh \in Run
    BY <1>3 DEF Run, Fresh, Absent
  <2>3. QED
    BY <1>3, <1>4, <1>6, <2>1, <2>2 DEF RequeueRun, Retrigger
<1>8. ASSUME NEW status \in Ended, EndsAs(r, status) PROVE run' \in [RR -> Run]
  <2>1. PICK now \in Now(r[1]) : run' = [run EXCEPT ![r].status = status, ![r].completedAt = now]
    BY <1>8 DEF EndsAs
  <2>2. [[run EXCEPT ![r].status = status] EXCEPT ![r].completedAt = now]
           = [run EXCEPT ![r] = [run[r] EXCEPT !.status = status, !.completedAt = now]]
    <3> HIDE DEF RR
    <3>1. QED
      BY <1>1 DEF Run
  <2>3. QED
    BY <1>1, <1>2, <1>4, <2>1, <2>2, RunFields
<1>9. QED
  BY <1>3, <1>5, <1>6, <1>7, <1>8

\* Once granted, always granted, and once merited, always merited.
LEMMA Keeps ==
  ASSUME TypeOK, [Next]_vars
  PROVE  (Granted => Granted') /\ (merited => merited') /\ (Merit => merited' \/ UNCHANGED vars)
<1>1. (merited => merited') /\ (Merit => merited' \/ UNCHANGED vars)
  <2>1. CASE Next
    <3>1. merited' = (merited \/ Merit)
      BY <2>1 DEF Next, Remember
    <3>2. merited \in BOOLEAN
      BY DEF TypeOK
    <3>3. QED
      BY <3>1, <3>2
  <2>2. CASE UNCHANGED vars
    BY <2>2 DEF vars
  <2>3. QED
    BY <2>1, <2>2
<1>2. ASSUME NEW c \in Unlocks \cup Updates, callerPc[c] = "granted" PROVE callerPc'[c] = "granted"
  <2>0. c \in Callers
    BY DEF Callers, Creates
  <2>1. CASE UNCHANGED callerPc
    BY <1>2, <2>1
  <2>2. CASE \E x \in Creates : CreateRead(x) \/ CreateCheckApproved(x) \/ CreateCheckOwn(x) \/ Unlock(x) \/ Request(x)
    BY <1>2, <2>0, <2>2 DEF TypeOK, CreateRead, CreateCheckApproved, CreateCheckOwn, Unlock, Request, CallerGoto
  <2>3. CASE \E u \in Updates : (\E e \in Creates : UpdateRead(u, e)) \/ Approve(u) \/ Reject(u)
    BY <1>2, <2>0, <2>3 DEF TypeOK, UpdateRead, Approve, Reject, CallerGoto
  <2>4. QED
    BY <2>1, <2>2, <2>3 DEF Next, Work, Advance, RunStep, Event, Escalate, StartRun, RequeueRun,
       Retrigger, PostScore, EndUnseen, RunsOnly, escVars, HookAccept, EditScore, HookEnd, HookRetry,
       EvalRead, EvalUpsert, EvalWrite, Gate, CreateReviews, MarkError, TaskFails, TaskAborts, vars
<1>3. Granted => Granted'
  BY <1>2 DEF Granted
<1>4. QED
  BY <1>1, <1>3

\* The steps by what they leave alone, so that each conjunct is looked at only where
\* it can change.
OnRuns == RunStep \/ Event \/ \E t \in Hooks : HookRetry(t) \/ \E status \in Ended : HookEnd(t, status)
OnTasks == \E t \in Tasks : \/ EvalRead(t) \/ EvalUpsert(t) \/ EvalWrite(t) \/ Gate(t)
                            \/ CreateReviews(t) \/ MarkError(t) \/ TaskFails(t) \/ TaskAborts(t)

LEMMA StepKinds ==
  ASSUME [Next]_vars
  PROVE  OnRuns \/ OnTasks \/ Escalate \/ UNCHANGED vars
BY DEF Next, Work, Advance, OnRuns, OnTasks

LEMMA OnRunsLeaves ==
  ASSUME OnRuns
  PROVE  UNCHANGED <<decision, reviews, mishaps, esc, callerPc, target>>
BY DEF OnRuns, RunStep, Event, StartRun, RequeueRun, Retrigger, PostScore, EndUnseen, HookAccept,
   EditScore, HookEnd, HookRetry, RunsOnly, escVars

LEMMA OnTasksLeaves ==
  ASSUME OnTasks
  PROVE  UNCHANGED <<run, esc, callerPc, target>>
BY DEF OnTasks, EvalRead, EvalUpsert, EvalWrite, Gate, CreateReviews, MarkError, TaskFails,
   TaskAborts, escVars

LEMMA EscalateLeaves ==
  ASSUME Escalate
  PROVE  UNCHANGED <<run, mishaps, pc, row, verdict>>
BY DEF Escalate, CreateRead, CreateCheckApproved, CreateCheckOwn, Unlock, Request, UpdateRead,
   Approve, Reject, Escalating, evalVars

\* Steps on runs keep the types.
LEMMA OnRunsType == IInv /\ OnRuns /\ merited' \in BOOLEAN => TypeOK'
<1> SUFFICES ASSUME IInv, OnRuns, merited' \in BOOLEAN PROVE TypeOK'
  OBVIOUS
<1>1. TypeOK /\ (\A t \in Hooks : pc[t] = "accepted" => row[t] # None)
  BY DEF IInv
<1>2. UNCHANGED <<decision, reviews, mishaps, esc, callerPc, target>>
  BY OnRunsLeaves
<1>3. DOMAIN run = Workflows \X Slots
  BY <1>1 DEF TypeOK
<1>4. ASSUME run' \in [Workflows \X Slots -> Run], UNCHANGED verdict,
             pc' = pc \/ (\E t \in Tasks, label \in {"idle", "accepted", "read"} : Goto(t, label)),
             row' = row \/ (\E t \in Hooks, x \in (Workflows \X Slots) \cup {None} : row' = [row EXCEPT ![t] = x])
      PROVE  TypeOK'
  <2>1. pc' \in [Tasks -> {"idle", "accepted", "read", "upsert", "write", "gate", "create", "error"}]
    BY <1>1, <1>4 DEF TypeOK, Goto
  <2>2. row' \in [Hooks -> (Workflows \X Slots) \cup {None}]
    BY <1>1, <1>4 DEF TypeOK
  <2>3. QED
    BY <1>1, <1>2, <1>4, <2>1, <2>2 DEF TypeOK
<1>5. ASSUME NEW r \in Workflows \X Slots, StartRun(r) \/ RequeueRun(r) \/ Retrigger(r) PROVE TypeOK'
  <2>1. run' \in [Workflows \X Slots -> Run]
    BY <1>1, <1>5, RunsType
  <2>2. UNCHANGED evalVars
    BY <1>5 DEF StartRun, RequeueRun, Retrigger
  <2>3. QED
    BY <1>4, <2>1, <2>2 DEF evalVars
<1>6. ASSUME NEW r \in Workflows \X Slots, NEW score \in Scores, PostScore(r, score) PROVE TypeOK'
  <2>1. run' \in [Workflows \X Slots -> Run]
    BY <1>1, <1>6, RunsType DEF PostScore
  <2>2. QED
    BY <1>4, <1>6, <2>1 DEF PostScore, evalVars
<1>7. ASSUME NEW r \in Workflows \X Slots, NEW status \in Ended, EndUnseen(r, status) PROVE TypeOK'
  <2>1. run' \in [Workflows \X Slots -> Run]
    BY <1>1, <1>7, RunsType DEF EndUnseen
  <2>2. QED
    BY <1>4, <1>7, <2>1 DEF EndUnseen, evalVars
<1>8. ASSUME NEW t \in Hooks, NEW r \in Workflows \X Slots, HookAccept(t, r) PROVE TypeOK'
  BY <1>1, <1>4, <1>8 DEF HookAccept, Tasks, TypeOK
<1>9. ASSUME NEW t \in Scorers, NEW r \in Workflows \X Slots, NEW score \in Scores, EditScore(t, r, score)
      PROVE  TypeOK'
  <2>1. run' \in [Workflows \X Slots -> Run]
    BY <1>1, <1>9, RunsType DEF EditScore
  <2>2. QED
    BY <1>4, <1>9, <2>1 DEF EditScore, Tasks
<1>10. ASSUME NEW t \in Hooks, pc[t] = "accepted" PROVE row[t] \in Workflows \X Slots
  BY <1>1, <1>10 DEF TypeOK
<1>11. ASSUME NEW t \in Hooks, HookRetry(t) PROVE TypeOK'
  <2>1. run' \in [Workflows \X Slots -> Run]
    BY <1>1, <1>10, <1>11, RunsType DEF HookRetry
  <2>2. QED
    BY <1>4, <1>11, <2>1 DEF HookRetry, Tasks
<1>12. ASSUME NEW t \in Hooks, NEW status \in Ended, HookEnd(t, status) PROVE TypeOK'
  <2>1. run' \in [Workflows \X Slots -> Run]
    BY <1>1, <1>10, <1>12, RunsType DEF HookEnd
  <2>2. QED
    BY <1>4, <1>12, <2>1 DEF HookEnd, Tasks
<1>13. QED
  BY <1>3, <1>5, <1>6, <1>7, <1>8, <1>9, <1>11, <1>12 DEF OnRuns, RunStep, Event

\* Steps of evaluations and of the gate keep the types.
LEMMA OnTasksType == IInv /\ OnTasks /\ merited' \in BOOLEAN => TypeOK'
<1> SUFFICES ASSUME IInv, OnTasks, merited' \in BOOLEAN PROVE TypeOK'
  OBVIOUS
<1>1. TypeOK
  BY DEF IInv
<1>2. UNCHANGED <<run, esc, callerPc, target>>
  BY OnTasksLeaves
<1>3. PICK t \in Tasks : \/ EvalRead(t) \/ EvalUpsert(t) \/ EvalWrite(t) \/ Gate(t)
                         \/ CreateReviews(t) \/ MarkError(t) \/ TaskFails(t) \/ TaskAborts(t)
  BY DEF OnTasks
<1> USE DEF EvalRead, EvalUpsert, EvalWrite, Gate, CreateReviews, MarkError, TaskFails, TaskAborts
<1>4. pc' \in [Tasks -> {"idle", "accepted", "read", "upsert", "write", "gate", "create", "error"}]
  BY <1>1, <1>3 DEF TypeOK, Goto
<1>5. decision' \in Decision
  <2>1. ASSUME NEW s \in {"PENDING", "ERROR"} PROVE [decision EXCEPT !.status = s] \in Decision
    BY <1>1 DEF TypeOK, Decision
  <2>2. ASSUME NEW v \in {"wait", "pass", "fail"} PROVE Decided(v) \in Decision
    <3>1. (GatingMode /\ v = "fail") \in BOOLEAN
      OBVIOUS
    <3>2. QED
      BY <3>1 DEF Decided, Decision
  <2>3. decision \in Decision /\ verdict[t] \in {"wait", "pass", "fail"}
    BY <1>1 DEF TypeOK
  <2>4. decision' = decision \/ decision' = Decided(verdict[t])
          \/ \E s \in {"PENDING", "ERROR"} : decision' = [decision EXCEPT !.status = s]
    BY <1>3 DEF Write
  <2>5. QED
    BY <2>1, <2>2, <2>3, <2>4
<1>6. row' \in [Hooks -> (Workflows \X Slots) \cup {None}]
  BY <1>1, <1>3 DEF TypeOK
<1>7. verdict' \in [Tasks -> {"wait", "pass", "fail"}]
  BY <1>1, <1>3 DEF TypeOK, Verdict
<1>8. mishaps' \in 0..MaxMishaps
  BY <1>1, <1>3 DEF TypeOK, Mishap
<1>9. reviews' \in BOOLEAN
  BY <1>1, <1>3 DEF TypeOK
<1>10. QED
  BY <1>1, <1>2, <1>4, <1>5, <1>6, <1>7, <1>8, <1>9 DEF TypeOK

\* Steps of escalation calls keep the types.
LEMMA EscalateType == IInv /\ Escalate /\ merited' \in BOOLEAN => TypeOK'
<1> SUFFICES ASSUME IInv, Escalate, merited' \in BOOLEAN PROVE TypeOK'
  OBVIOUS
<1>1. TypeOK
  BY DEF IInv
<1>2. UNCHANGED <<run, mishaps, pc, row, verdict>>
  BY EscalateLeaves
<1>3. ASSUME NEW e \in Creates, Override(e)
      PROVE  /\ decision' \in Decision /\ reviews' \in BOOLEAN
             /\ esc' \in [Creates -> {"none", "PENDING_APPROVAL", "APPROVED", "REJECTED"}]
  BY <1>1, <1>3 DEF TypeOK, Override, Write, Decision
<1>4. ASSUME NEW c \in Creates,
             CreateRead(c) \/ CreateCheckApproved(c) \/ CreateCheckOwn(c) \/ Unlock(c) \/ Request(c)
      PROVE  TypeOK'
  <2>0. c \in Callers
    BY DEF Callers
  <2>1. callerPc' \in [Callers -> {"start", "approved", "own", "commit", "done", "granted"}] /\ UNCHANGED target
    BY <1>1, <1>4, <2>0
       DEF TypeOK, CreateRead, CreateCheckApproved, CreateCheckOwn, Unlock, Request, CallerGoto
  <2>2. /\ decision' \in Decision /\ reviews' \in BOOLEAN
        /\ esc' \in [Creates -> {"none", "PENDING_APPROVAL", "APPROVED", "REJECTED"}]
    BY <1>1, <1>3, <1>4
       DEF TypeOK, CreateRead, CreateCheckApproved, CreateCheckOwn, Unlock, Request
  <2>3. QED
    BY <1>1, <1>2, <2>1, <2>2 DEF TypeOK
<1>5. ASSUME NEW u \in Updates, (\E e \in Creates : UpdateRead(u, e)) \/ Approve(u) \/ Reject(u)
      PROVE  TypeOK'
  <2>0. u \in Callers /\ (callerPc[u] = "commit" => target[u] \in Creates)
    BY <1>1 DEF Callers, IInv, TypeOK
  <2>1. callerPc' \in [Callers -> {"start", "approved", "own", "commit", "done", "granted"}]
    BY <1>1, <1>5, <2>0 DEF TypeOK, UpdateRead, Approve, Reject, CallerGoto
  <2>2. target' \in [Updates -> Creates \cup {None}]
    BY <1>1, <1>5 DEF TypeOK, UpdateRead, Approve, Reject
  <2>3. /\ decision' \in Decision /\ reviews' \in BOOLEAN
        /\ esc' \in [Creates -> {"none", "PENDING_APPROVAL", "APPROVED", "REJECTED"}]
    BY <1>1, <1>3, <1>5, <2>0 DEF TypeOK, UpdateRead, Approve, Reject
  <2>4. QED
    BY <1>1, <1>2, <2>1, <2>2, <2>3 DEF TypeOK
<1>6. QED
  BY <1>4, <1>5 DEF Escalate

\* Every step keeps the types.
LEMMA TypeStep == IInv /\ [Next]_vars => TypeOK'
<1> SUFFICES ASSUME IInv, [Next]_vars PROVE TypeOK'
  OBVIOUS
<1>1. TypeOK
  BY DEF IInv
<1>2. merited' \in BOOLEAN
  <2>1. merited \in BOOLEAN
    BY <1>1 DEF TypeOK
  <2>2. CASE Next
    <3>1. merited' = (merited \/ Merit)
      BY <2>2 DEF Next, Remember
    <3>2. QED
      BY <2>1, <3>1
  <2>3. QED
    BY <2>1, <2>2 DEF vars
<1>3. CASE UNCHANGED vars
  BY <1>1, <1>3 DEF TypeOK, vars, evalVars, escVars
<1>4. QED
  BY <1>2, <1>3, StepKinds, OnRunsType, OnTasksType, EscalateType

\* The submission is let through only by runs or by a person, step by step: first
\* what the tasks know and do.
LEMMA TasksHonest ==
  ASSUME IInv, [Next]_vars, NEW t \in Tasks
  PROVE  /\ (verdict[t] = "pass" => merited)' /\ (pc[t] = "create" => merited \/ Granted)'
<1>0. /\ TypeOK /\ PassedOnMerit /\ (decision.status = "HUMAN_OVERRIDE" => Granted)
      /\ (verdict[t] = "pass" => merited) /\ (pc[t] = "create" => merited \/ Granted)
  BY DEF IInv
<1>1. (Granted => Granted') /\ (merited => merited') /\ (Merit => merited' \/ UNCHANGED vars)
  BY <1>0, Keeps
<1>2. CASE UNCHANGED vars
  BY <1>0, <1>1, <1>2 DEF vars, evalVars
<1>3. CASE OnRuns
  <2>1. verdict' = verdict /\ (pc'[t] = "create" => pc[t] = "create")
    BY <1>0, <1>3 DEF OnRuns, RunStep, Event, StartRun, RequeueRun, Retrigger, PostScore, EndUnseen,
       HookAccept, EditScore, HookEnd, HookRetry, Goto, TypeOK, evalVars
  <2>2. QED
    BY <1>0, <1>1, <2>1
<1>4. CASE Escalate
  BY <1>0, <1>1, <1>4, EscalateLeaves
<1>5. CASE OnTasks
  <2>1. PICK x \in Tasks : \/ EvalRead(x) \/ EvalUpsert(x) \/ EvalWrite(x) \/ Gate(x)
                           \/ CreateReviews(x) \/ MarkError(x) \/ TaskFails(x) \/ TaskAborts(x)
    BY <1>5 DEF OnTasks
  <2>2. CASE EvalRead(x)
    <3>1. PICK c \in Contexts : verdict' = [verdict EXCEPT ![x] = Verdict(c)]
      BY <2>2 DEF EvalRead
    <3>2. pc[x] = "read" /\ pc' = [pc EXCEPT ![x] = "upsert"]
      BY <2>2 DEF EvalRead, Goto
    <3>3. pc' # pc
      BY <1>0, <3>2 DEF TypeOK
    <3>4. Verdict(c) = "pass" => merited'
      BY <1>0, <1>1, <3>3, PassDeserved DEF vars, evalVars
    <3>5. QED
      BY <1>0, <1>1, <3>1, <3>2, <3>4 DEF TypeOK
  <2>3. CASE Gate(x)
    <3>1. decision.status \in Open => merited \/ Granted
      BY <1>0 DEF Open, PassedOnMerit
    <3>2. QED
      BY <1>0, <1>1, <2>3, <3>1 DEF Gate, Goto, TypeOK
  <2>4. CASE \/ EvalUpsert(x) \/ EvalWrite(x) \/ CreateReviews(x) \/ MarkError(x) \/ TaskFails(x)
             \/ TaskAborts(x)
    <3>1. verdict' = verdict /\ (pc'[t] = "create" => pc[t] = "create")
      BY <1>0, <2>4 DEF EvalUpsert, EvalWrite, CreateReviews, MarkError, TaskFails, TaskAborts, Goto, TypeOK
    <3>2. QED
      BY <1>0, <1>1, <3>1
  <2>5. QED
    BY <2>1, <2>2, <2>3, <2>4
<1>6. QED
  BY <1>2, <1>3, <1>4, <1>5, StepKinds

\* Then what the row of the decision says, ...
LEMMA DecisionHonest ==
  ASSUME IInv, [Next]_vars
  PROVE  PassedOnMerit' /\ LockedMeansRefused' /\ (decision.status = "HUMAN_OVERRIDE" => Granted)'
<1>0. /\ TypeOK /\ PassedOnMerit /\ LockedMeansRefused /\ (decision.status = "HUMAN_OVERRIDE" => Granted)
      /\ \A t \in Tasks : verdict[t] = "pass" => merited
  BY DEF IInv
<1>1. (Granted => Granted') /\ (merited => merited')
  BY <1>0, Keeps
<1>2. CASE UNCHANGED decision
  BY <1>0, <1>1, <1>2 DEF PassedOnMerit, LockedMeansRefused
<1>3. CASE OnTasks
  <2>1. PICK t \in Tasks : \/ EvalRead(t) \/ EvalUpsert(t) \/ EvalWrite(t) \/ Gate(t)
                           \/ CreateReviews(t) \/ MarkError(t) \/ TaskFails(t) \/ TaskAborts(t)
    BY <1>3 DEF OnTasks
  <2>2. \/ UNCHANGED decision
        \/ (decision' = Decided(verdict[t]) /\ verdict[t] # "wait")
        \/ decision'.status \in {"PENDING", "ERROR"} /\ decision'.locked = decision.locked
    <3>1. CASE EvalWrite(t) /\ verdict[t] # "wait"
      BY <3>1 DEF EvalWrite, Write
    <3>2. CASE EvalWrite(t) /\ verdict[t] = "wait"
      <4>1. decision' = [decision EXCEPT !.status = "PENDING"]
        BY <3>2 DEF EvalWrite, Write
      <4>2. QED
        BY <1>0, <4>1 DEF TypeOK, Decision
    <3>3. CASE EvalUpsert(t) /\ decision.status = "none"
      <4>1. decision' = [decision EXCEPT !.status = "PENDING"]
        BY <3>3 DEF EvalUpsert, Write
      <4>2. QED
        BY <1>0, <4>1 DEF TypeOK, Decision
    <3>4. CASE MarkError(t) /\ decision.status # "none"
      <4>1. decision' = [decision EXCEPT !.status = "ERROR"]
        BY <3>4 DEF MarkError, Write
      <4>2. QED
        BY <1>0, <4>1 DEF TypeOK, Decision
    <3>5. CASE (EvalUpsert(t) /\ decision.status # "none") \/ (MarkError(t) /\ decision.status = "none")
      BY <3>5 DEF EvalUpsert, MarkError, Write
    <3>6. CASE EvalRead(t) \/ Gate(t) \/ CreateReviews(t) \/ TaskFails(t) \/ TaskAborts(t)
      BY <3>6 DEF EvalRead, Gate, CreateReviews, TaskFails, TaskAborts
    <3>7. QED
      BY <2>1, <3>1, <3>2, <3>3, <3>4, <3>5, <3>6
  <2>3. CASE decision' = Decided(verdict[t]) /\ verdict[t] # "wait"
    <3>1. /\ decision'.status = IF verdict[t] = "pass" THEN "PASSED" ELSE "FAILED"
          /\ decision'.locked = (GatingMode /\ verdict[t] = "fail")
      BY <2>3 DEF Decided
    <3>2. verdict[t] \in {"wait", "pass", "fail"}
      BY <1>0 DEF TypeOK
    <3>3. QED
      BY <1>0, <1>1, <3>1, <3>2 DEF PassedOnMerit, LockedMeansRefused, Open
  <2>4. CASE decision'.status \in {"PENDING", "ERROR"} /\ decision'.locked = decision.locked
    BY <1>0, <2>4 DEF PassedOnMerit, LockedMeansRefused, Open
  <2>5. QED
    BY <1>2, <2>2, <2>3, <2>4
<1>4. CASE Escalate
  <2>1. UNCHANGED decision \/ (decision' = [decision EXCEPT !.status = "HUMAN_OVERRIDE", !.locked = FALSE] /\ Granted')
    <3>1. ASSUME NEW c \in Creates, Unlock(c)
          PROVE  decision' = [decision EXCEPT !.status = "HUMAN_OVERRIDE", !.locked = FALSE] /\ Granted'
      <4>1. c \in Unlocks \cup Updates /\ callerPc'[c] = "granted"
        BY <1>0, <3>1 DEF Unlock, CallerGoto, TypeOK, Callers
      <4>2. QED
        BY <3>1, <4>1 DEF Unlock, Override, Write, Granted
    <3>2. ASSUME NEW u \in Updates, Approve(u)
          PROVE  decision' = [decision EXCEPT !.status = "HUMAN_OVERRIDE", !.locked = FALSE] /\ Granted'
      <4>1. u \in Unlocks \cup Updates /\ callerPc'[u] = "granted"
        BY <1>0, <3>2 DEF Approve, CallerGoto, TypeOK, Callers
      <4>2. QED
        BY <3>2, <4>1 DEF Approve, Override, Write, Granted
    <3>3. QED
      BY <1>4, <3>1, <3>2 DEF Escalate, CreateRead, CreateCheckApproved, CreateCheckOwn, Request,
         UpdateRead, Reject
  <2>2. ASSUME decision' = [decision EXCEPT !.status = "HUMAN_OVERRIDE", !.locked = FALSE], Granted'
        PROVE  PassedOnMerit' /\ LockedMeansRefused' /\ (decision.status = "HUMAN_OVERRIDE" => Granted)'
    <3>1. decision'.status = "HUMAN_OVERRIDE" /\ decision'.locked = FALSE
      BY <1>0, <2>2 DEF TypeOK, Decision
    <3>2. QED
      BY <2>2, <3>1 DEF PassedOnMerit, LockedMeansRefused
  <2>3. QED
    BY <1>2, <2>1, <2>2
<1>5. QED
  BY <1>2, <1>3, <1>4, StepKinds, OnRunsLeaves DEF vars

\* ... and then the reviews.
LEMMA GateStep == IInv /\ [Next]_vars => GateKept'
<1> SUFFICES ASSUME IInv, [Next]_vars PROVE GateKept'
  OBVIOUS
<1>0. TypeOK /\ GateKept /\ \A t \in Tasks : pc[t] = "create" => merited \/ Granted
  BY DEF IInv
<1>1. (Granted => Granted') /\ (merited => merited')
  BY <1>0, Keeps
<1>2. CASE UNCHANGED reviews
  BY <1>0, <1>1, <1>2 DEF GateKept
<1>3. CASE OnTasks
  <2>1. UNCHANGED reviews \/ \E t \in Tasks : pc[t] = "create"
    BY <1>3 DEF OnTasks, EvalRead, EvalUpsert, EvalWrite, Gate, CreateReviews, MarkError, TaskFails, TaskAborts
  <2>2. QED
    BY <1>0, <1>1, <1>2, <2>1 DEF GateKept
<1>4. CASE Escalate
  <2>1. ASSUME NEW c \in Creates, Unlock(c) PROVE Granted'
    BY <1>0, <2>1 DEF Unlock, CallerGoto, TypeOK, Callers, Granted
  <2>2. ASSUME NEW u \in Updates, Approve(u) PROVE Granted'
    BY <1>0, <2>2 DEF Approve, CallerGoto, TypeOK, Callers, Granted
  <2>3. UNCHANGED reviews \/ Granted'
    BY <1>4, <2>1, <2>2 DEF Escalate, CreateRead, CreateCheckApproved, CreateCheckOwn, Request,
       UpdateRead, Reject
  <2>4. QED
    BY <1>2, <2>3 DEF GateKept
<1>5. QED
  BY <1>2, <1>3, <1>4, StepKinds, OnRunsLeaves DEF vars

\* A webhook about to end a run knows it, and a call about to commit its escalation.
LEMMA TargetsStep ==
  ASSUME IInv, [Next]_vars
  PROVE  /\ \A t \in Hooks : pc'[t] = "accepted" => row'[t] # None
         /\ \A c \in Unlocks : callerPc'[c] # "own"
         /\ \A u \in Updates : callerPc'[u] = "commit" => target'[u] # None
<1>0. /\ TypeOK
      /\ \A t \in Hooks : pc[t] = "accepted" => row[t] # None
      /\ \A c \in Unlocks : callerPc[c] # "own"
      /\ \A u \in Updates : callerPc[u] = "commit" => target[u] # None
  BY DEF IInv
<1>1. CASE UNCHANGED vars
  BY <1>0, <1>1 DEF vars, evalVars, escVars
<1>2. CASE OnRuns
  <2>1. UNCHANGED <<callerPc, target>>
    BY <1>2, OnRunsLeaves
  <2>2. CASE UNCHANGED <<pc, row>>
    BY <1>0, <2>1, <2>2
  <2>3. CASE \E t \in Hooks, r \in DOMAIN run : HookAccept(t, r)
    <3>1. None \notin DOMAIN run
      BY <1>0 DEF TypeOK
    <3>2. QED
      BY <1>0, <2>1, <2>3, <3>1 DEF HookAccept, Goto, TypeOK, Tasks
  <2>4. CASE \E t \in Scorers, r \in DOMAIN run, score \in Scores : EditScore(t, r, score)
    BY <1>0, <2>1, <2>4 DEF EditScore, Goto, TypeOK, Tasks
  <2>5. CASE \E t \in Hooks : HookRetry(t) \/ \E status \in Ended : HookEnd(t, status)
    BY <1>0, <2>1, <2>5 DEF HookRetry, HookEnd, Goto, TypeOK, Tasks
  <2>6. QED
    BY <1>2, <2>2, <2>3, <2>4, <2>5 DEF OnRuns, RunStep, Event, StartRun, RequeueRun, Retrigger,
       PostScore, EndUnseen, evalVars
<1>3. CASE OnTasks
  <2>1. PICK t \in Tasks : \/ EvalRead(t) \/ EvalUpsert(t) \/ EvalWrite(t) \/ Gate(t)
                           \/ CreateReviews(t) \/ MarkError(t) \/ TaskFails(t) \/ TaskAborts(t)
    BY <1>3 DEF OnTasks
  <2>2. UNCHANGED <<callerPc, target>>
    BY <1>3, OnTasksLeaves
  <2>3. \A h \in Hooks : pc'[h] = "accepted" => h # t /\ pc[h] = "accepted"
    BY <1>0, <2>1 DEF EvalRead, EvalUpsert, EvalWrite, Gate, CreateReviews, MarkError, TaskFails,
       TaskAborts, Goto, TypeOK, Tasks
  <2>4. UNCHANGED row \/ (t \in Hooks /\ row' = [row EXCEPT ![t] = None])
    BY <2>1 DEF EvalRead, EvalUpsert, EvalWrite, Gate, CreateReviews, MarkError, TaskFails, TaskAborts
  <2>5. QED
    BY <1>0, <2>2, <2>3, <2>4 DEF TypeOK
<1>4. CASE Escalate
  <2>1. UNCHANGED <<pc, row>>
    BY <1>4, EscalateLeaves
  <2>2. CASE \E c \in Creates :
               CreateRead(c) \/ CreateCheckApproved(c) \/ CreateCheckOwn(c) \/ Unlock(c) \/ Request(c)
    BY <1>0, <2>1, <2>2 DEF CreateRead, CreateCheckApproved, CreateCheckOwn, Unlock, Request,
       CallerGoto, TypeOK, Callers, Creates
  <2>3. CASE \E u \in Updates : (\E e \in Creates : UpdateRead(u, e)) \/ Approve(u) \/ Reject(u)
    <3>1. Updates \cap Unlocks = {} /\ None \notin Creates
      OBVIOUS
    <3>2. ASSUME NEW u \in Updates, NEW e \in Creates, UpdateRead(u, e)
          PROVE  /\ \A c \in Unlocks : callerPc'[c] # "own"
                 /\ \A x \in Updates : callerPc'[x] = "commit" => target'[x] # None
      BY <1>0, <3>1, <3>2 DEF UpdateRead, CallerGoto, TypeOK, Callers
    <3>3. ASSUME NEW u \in Updates, Approve(u) \/ Reject(u)
          PROVE  /\ \A c \in Unlocks : callerPc'[c] # "own"
                 /\ \A x \in Updates : callerPc'[x] = "commit" => target'[x] # None
      <4>1. target' = target
        BY <3>3 DEF Approve, Reject
      <4>2. \E label \in {"granted", "done"} : callerPc' = [callerPc EXCEPT ![u] = label]
        BY <3>3 DEF Approve, Reject, CallerGoto
      <4>3. callerPc \in [Callers -> {"start", "approved", "own", "commit", "done", "granted"}]
        BY <1>0 DEF TypeOK
      <4>4. Unlocks \subseteq Callers /\ Updates \subseteq Callers
        BY DEF Callers, Creates
      <4>5. QED
        BY <1>0, <4>1, <4>2, <4>3, <4>4
    <3>4. QED
      BY <1>0, <2>1, <2>3, <3>2, <3>3
  <2>4. QED
    BY <1>4, <2>2, <2>3 DEF Escalate
<1>5. QED
  BY <1>1, <1>2, <1>3, <1>4, StepKinds

\* The invariant is inductive.
LEMMA StepIInv == IInv /\ [Next]_vars => IInv'
BY TypeStep, TasksHonest, DecisionHonest, GateStep, TargetsStep DEF IInv

\* In every reachable state of the handlers the invariant holds, for any config, any
\* scores and any number of requests.
THEOREM Invariance == Spec => []IInv
BY InitIInv, StepIInv, PTL DEF Spec

\* Human reviews are created only of a submission whose runs deserved a pass or that
\* a person let through.
THEOREM GateHolds == Spec => []GateKept
<1>1. IInv => GateKept
  BY DEF IInv
<1>2. QED
  BY Invariance, <1>1, PTL

\* A decision says PASSED only after its runs deserved it.
THEOREM PassesOnMerit == Spec => []PassedOnMerit
<1>1. IInv => PassedOnMerit
  BY DEF IInv
<1>2. QED
  BY Invariance, <1>1, PTL

\* No decision both lets a submission through and locks it.
THEOREM LockedWhenRefused == Spec => []LockedMeansRefused
<1>1. IInv => LockedMeansRefused
  BY DEF IInv
<1>2. QED
  BY Invariance, <1>1, PTL

-----------------------------------------------------------------------------
(* The decision of one submission whose webhooks do not overlap, with nobody *)
(* who edits scores or overrides, and no failure: the instance of the code  *)
(* in which the decision can be held against its runs at any moment.        *)

Undisturbed ==
    /\ Workflows # {} /\ \E h \in Hooks : Hooks = {h}
    /\ Scorers = {} /\ Creates = {} /\ Updates = {}
    /\ ~LateScores /\ ~UnseenEnds /\ MaxMishaps = 0

HasEnded(r) == run[r].status \in Ended

\* A run that ended did so after all that had happened to its workflow, so two
\* ended runs of one do not tie.
EndsApart ==
    \A r, q \in Workflows \X Slots :
        r[1] = q[1] /\ r # q /\ HasEnded(r) /\ HasEnded(q) => run[r].completedAt # run[q].completedAt

\* What the one webhook still has to do is what the decision lacks.
CaughtUp(h) ==
    /\ pc[h] \in {"upsert", "write"} => verdict[h] = IF Merit THEN "pass" ELSE "fail"
    /\ pc[h] \in {"gate", "create"} => decision.status = "PASSED" /\ Merit
    /\ pc[h] = "idle" => /\ decision.status = IF Merit THEN "PASSED" ELSE "FAILED"
                         /\ Merit => reviews

CurrentInv ==
    /\ \A w \in Workflows : run[<<w, 1>>].status # "none"
    /\ EndsApart
    /\ \A h \in Hooks : pc[h] = "accepted" => run[row[h]].status = "open"
    /\ \A t \in Tasks : pc[t] # "error" /\ (t \in Scans => pc[t] \in {"idle", "gate", "create"})
    /\ AllEnded => \A h \in Hooks : CaughtUp(h)

TotalOf(runs, c) ==
    MapThenSumSet(LAMBDA w : Weight[w] * (IF runs[c[w]].score = None THEN 0 ELSE runs[c[w]].score),
                  Workflows)

LEMMA TotalIs ==
  ASSUME NEW c
  PROVE  WeightedTotal(c) = TotalOf(run, c) /\ (WeightedTotal(c) = TotalOf(run, c))'
<1>1. WeightedTotal(c) = TotalOf(run, c)
  BY DEF WeightedTotal, TotalOf
<1>2. (WeightedTotal(c) = TotalOf(run, c))'
  BY DEF WeightedTotal, TotalOf
<1>3. QED
  BY <1>1, <1>2

\* Whether the runs deserve a pass is a matter of the runs alone.
LEMMA MeritStays ==
  ASSUME run' = run
  PROVE  /\ Contexts' = Contexts /\ (Merit' <=> Merit) /\ (AllEnded' <=> AllEnded)
         /\ \A r : HasEnded(r)' <=> HasEnded(r)
<1>1. ASSUME NEW c PROVE WeightedTotal(c)' = WeightedTotal(c)
  <2>1. WeightedTotal(c) = TotalOf(run, c) /\ WeightedTotal(c)' = TotalOf(run', c)
    BY TotalIs
  <2>2. TotalOf(run', c) = TotalOf(run, c)
    OBVIOUS
  <2>3. QED
    BY <2>1, <2>2
<1>2. Contexts' = Contexts
  BY DEF Contexts, Latest, Runs, Precedes
<1>3. \A c : Deserved(c)' <=> Deserved(c)
  BY <1>1 DEF Deserved
<1>4. Merit' <=> Merit
  BY <1>2, <1>3 DEF Merit
<1>5. (AllEnded' <=> AllEnded) /\ \A r : HasEnded(r)' <=> HasEnded(r)
  BY DEF AllEnded, HasEnded
<1>6. QED
  BY <1>2, <1>4, <1>5

\* When all runs have ended, each workflow has one that is the latest.
LEMMA OneContext ==
  ASSUME TypeOK, CurrentInv, AllEnded, NEW c \in Contexts
  PROVE  /\ \A w \in Workflows : /\ c[w] \in Workflows \X Slots /\ c[w][1] = w /\ HasEnded(c[w])
                                 /\ \A q \in Runs(w) : ~Precedes(run[q], run[c[w]])
         /\ \A d \in Contexts : d = c
<1>1. ASSUME NEW d \in Contexts, NEW w \in Workflows
      PROVE  /\ d[w] \in Workflows \X Slots /\ d[w][1] = w /\ HasEnded(d[w]) /\ d[w] \in Runs(w)
             /\ \A q \in Runs(w) : ~Precedes(run[q], run[d[w]])
  <2>1. <<w, 1>> \in Runs(w)
    BY DEF CurrentInv, Runs, Slots
  <2>2. d[w] \in Latest(w)
    BY <2>1 DEF Contexts
  <2>3. d[w] \in Runs(w) /\ \A q \in Runs(w) : ~Precedes(run[q], run[d[w]])
    BY <2>2 DEF Latest
  <2>4. d[w] \in Workflows \X Slots /\ d[w][1] = w /\ run[d[w]].status # "none"
    BY <2>3 DEF Runs
  <2>5. DOMAIN run = Workflows \X Slots
    BY DEF TypeOK
  <2>6. HasEnded(d[w])
    BY <2>4, <2>5 DEF AllEnded, HasEnded
  <2>7. QED
    BY <2>3, <2>4, <2>6
<1>2. ASSUME NEW d \in Contexts PROVE d = c
  <2>1. ASSUME NEW w \in Workflows PROVE d[w] = c[w]
    <3>1. PICK r : r = d[w]
      OBVIOUS
    <3>2. PICK q : q = c[w]
      OBVIOUS
    <3>3. /\ r \in Workflows \X Slots /\ q \in Workflows \X Slots /\ r[1] = q[1] /\ HasEnded(r) /\ HasEnded(q)
          /\ ~Precedes(run[q], run[r]) /\ ~Precedes(run[r], run[q])
      BY <1>1, <3>1, <3>2
    <3>4. /\ run[r].startedAt \in Nat /\ run[r].completedAt \in Nat
          /\ run[q].startedAt \in Nat /\ run[q].completedAt \in Nat
      BY <3>3 DEF TypeOK, Run
    <3>5. run[r].completedAt = run[q].completedAt
      BY <3>3, <3>4 DEF Precedes
    <3>6. r = q
      BY <3>3, <3>5 DEF CurrentInv, EndsApart
    <3>7. QED
      BY <3>1, <3>2, <3>6
  <2>2. d \in [Workflows -> (Workflows \X Slots) \cup {None}] /\ c \in [Workflows -> (Workflows \X Slots) \cup {None}]
    BY DEF Contexts
  <2>3. QED
    BY <2>1, <2>2
<1>3. QED
  BY <1>1, <1>2

\* Then the code's verdict is what the config asks for.
LEMMA VerdictIsMerit ==
  ASSUME TypeOK, CurrentInv, AllEnded, NEW c \in Contexts
  PROVE  Verdict(c) = IF Merit THEN "pass" ELSE "fail"
<1>1. \A w \in Workflows : c[w] \in Workflows \X Slots /\ HasEnded(c[w])
  BY OneContext
<1>2. \A w \in Workflows : c[w] # None
  BY <1>1
<1>3. Ready(c)
  BY <1>1, <1>2 DEF Ready, HasEnded
<1>4. Cancelled(c) <=> ~ \A w \in Workflows : run[c[w]].status \in {"SUCCESS", "FAILURE"}
  BY <1>1 DEF Cancelled, HasEnded, Ended
<1>5. GatingFailure(c) <=> ~ \A w \in Gating : run[c[w]].score # None /\ run[c[w]].score >= Minimum[w]
  <2>1. ASSUME NEW w \in Gating
        PROVE  BelowMinimum(w, run[c[w]].score) <=> ~(run[c[w]].score # None /\ run[c[w]].score >= Minimum[w])
    <3>1. w \in Workflows /\ Minimum[w] \in Nat
      OBVIOUS
    <3>2. PICK s : s = run[c[w]].score
      OBVIOUS
    <3>3. s \in Scores \cup {None}
      BY <1>1, <3>1, <3>2 DEF TypeOK, Run
    <3>4. s = None \/ s \in Nat
      BY <3>3
    <3>5. BelowMinimum(w, s) <=> ~(s # None /\ s >= Minimum[w])
      BY <3>1, <3>4 DEF BelowMinimum
    <3>6. QED
      BY <3>2, <3>5
  <2>2. QED
    BY <2>1 DEF GatingFailure
<1>6. Passes(c) <=> Deserved(c)
  BY <1>2, <1>4, <1>5 DEF Passes, Deserved
<1>7. Merit <=> Deserved(c)
  BY OneContext DEF Merit
<1>8. QED
  BY <1>3, <1>6, <1>7 DEF Verdict

LEMMA CurrentInit == Undisturbed /\ Init => CurrentInv
<1> SUFFICES ASSUME Undisturbed, Init PROVE CurrentInv
  OBVIOUS
<1>1. 1 \in Slots /\ run \in [Workflows \X Slots -> {Fresh, Absent}]
  BY DEF Init, Slots
<1>2. \A w \in Workflows : run[<<w, 1>>] = Fresh /\ <<w, 1>> \in DOMAIN run
  BY <1>1 DEF Init
<1>3. Fresh.status = "open" /\ Absent.status = "none"
  BY DEF Fresh, Absent
<1>4. ~AllEnded
  BY <1>2, <1>3 DEF AllEnded, Undisturbed, Ended
<1>5. \A r \in Workflows \X Slots : ~HasEnded(r)
  BY <1>1, <1>3 DEF HasEnded, Ended
<1>6. \A t \in Tasks : pc[t] = IF t \in Scans THEN "gate" ELSE "idle"
  BY DEF Init
<1>7. \A h \in Hooks : h \in Tasks /\ h \notin Scans
  BY DEF Tasks
<1>8. QED
  BY <1>2, <1>3, <1>4, <1>5, <1>6, <1>7 DEF CurrentInv, EndsApart

\* A step that may change runs ends one, of the webhook, or leaves one open.
LEMMA RunsMove ==
  ASSUME Undisturbed, IInv, CurrentInv, OnRuns
  PROVE  /\ \A t \in Scans : pc'[t] = pc[t]
         /\ \/ \E h \in Hooks, status \in Ended : HookEnd(h, status)
            \/ /\ \E r \in Workflows \X Slots : run'[r].status = "open"
               /\ \A q \in Workflows \X Slots :
                    \/ run'[q].status = run[q].status /\ run'[q].completedAt = run[q].completedAt
                    \/ run[q].status = "none" /\ run'[q].status = "open"
               /\ \A h \in Hooks : pc'[h] # "error" /\ (pc'[h] = "accepted" =>
                    \/ pc[h] = "accepted" /\ row'[h] = row[h]
                    \/ run[row'[h]].status = "open" /\ run' = run)
<1>1. /\ run \in [Workflows \X Slots -> Run] /\ pc \in [Tasks -> {"idle", "accepted", "read", "upsert",
                                                           "write", "gate", "create", "error"}]
      /\ row \in [Hooks -> (Workflows \X Slots) \cup {None}]
      /\ \A h \in Hooks : pc[h] # "error" /\ (pc[h] = "accepted" => row[h] # None)
      /\ Hooks \subseteq Tasks /\ Hooks \cap Scans = {}
  BY DEF IInv, TypeOK, CurrentInv, Tasks
<1>2. ASSUME NEW r \in Workflows \X Slots, run[r].status = "open", NEW x,
             run' = [run EXCEPT ![r] = x], x.status = "open", x.completedAt = run[r].completedAt
      PROVE  /\ run'[r].status = "open"
             /\ \A q \in Workflows \X Slots :
                  run'[q].status = run[q].status /\ run'[q].completedAt = run[q].completedAt
  BY <1>1, <1>2
<1>3. ASSUME NEW r \in Workflows \X Slots, StartRun(r) \/ RequeueRun(r) \/ \E score \in Scores : PostScore(r, score)
      PROVE  /\ run'[r].status = "open" /\ UNCHANGED <<pc, row>>
             /\ \A q \in Workflows \X Slots :
                  run'[q].status = run[q].status /\ run'[q].completedAt = run[q].completedAt
  <2>1. run[r].status = "open" /\ UNCHANGED <<pc, row>>
    BY <1>3 DEF StartRun, RequeueRun, PostScore, evalVars, Undisturbed
  <2>2. \/ \E n : run' = [run EXCEPT ![r].startedAt = n]
        \/ \E score : run' = [run EXCEPT ![r].score = score]
    BY <1>3 DEF StartRun, RequeueRun, PostScore
  <2>3. \E x : /\ run' = [run EXCEPT ![r] = x]
               /\ x.status = run[r].status /\ x.completedAt = run[r].completedAt
    <3>1. run[r] \in Run
      BY <1>1
    <3>2. ASSUME NEW n PROVE /\ [run[r] EXCEPT !.startedAt = n].status = run[r].status
                             /\ [run[r] EXCEPT !.startedAt = n].completedAt = run[r].completedAt
                             /\ [run[r] EXCEPT !.score = n].status = run[r].status
                             /\ [run[r] EXCEPT !.score = n].completedAt = run[r].completedAt
      BY <3>1 DEF Run
    <3>3. QED
      BY <2>2, <3>2
  <2>4. QED
    BY <1>2, <2>1, <2>3
<1>4. ASSUME NEW r \in Workflows \X Slots, Retrigger(r)
      PROVE  /\ run'[r].status = "open" /\ run[r].status = "none" /\ UNCHANGED <<pc, row>>
             /\ \A q \in Workflows \X Slots : q # r => run'[q] = run[q]
  BY <1>1, <1>4 DEF Retrigger, Fresh, Absent, evalVars
<1>5. ASSUME NEW h \in Hooks, NEW r \in Workflows \X Slots, HookAccept(h, r)
      PROVE  /\ run' = run /\ run[r].status = "open"
             /\ row'[h] = r /\ pc'[h] = "accepted"
             /\ \A t \in Tasks : t # h => pc'[t] = pc[t]
             /\ \A t \in Hooks : t # h => row'[t] = row[t]
  BY <1>1, <1>5 DEF HookAccept, Goto
<1>6. ASSUME NEW h \in Hooks, HookRetry(h)
      PROVE  /\ row[h] \in Workflows \X Slots /\ run'[row[h]].status = "open"
             /\ \A q \in Workflows \X Slots :
                  run'[q].status = run[q].status /\ run'[q].completedAt = run[q].completedAt
             /\ pc'[h] = "idle" /\ row'[h] = None
             /\ \A t \in Tasks : t # h => pc'[t] = pc[t]
             /\ \A t \in Hooks : t # h => row'[t] = row[t]
  <2>1. row[h] \in Workflows \X Slots /\ run[row[h]].status = "open"
    BY <1>1, <1>6 DEF HookRetry
  <2>2. PICK r : r = row[h]
    OBVIOUS
  <2>3. run' = [run EXCEPT ![r].startedAt = 0] /\ run[r] \in Run
    BY <1>1, <1>6, <2>1, <2>2 DEF HookRetry
  <2>4. PICK x : x = [run[r] EXCEPT !.startedAt = 0]
    OBVIOUS
  <2>5. x.status = "open" /\ x.completedAt = run[r].completedAt
    BY <2>1, <2>2, <2>3, <2>4 DEF Run
  <2>6. run' = [run EXCEPT ![r] = x]
    BY <2>3, <2>4
  <2>7. QED
    BY <1>1, <1>2, <1>6, <2>1, <2>2, <2>5, <2>6 DEF HookRetry, Goto
<1>7. ASSUME NEW h \in Hooks, NEW status \in Ended, HookEnd(h, status)
      PROVE  \A t \in Tasks : t # h => pc'[t] = pc[t]
  BY <1>1, <1>7 DEF HookEnd, Goto
<1>8. \/ \E r \in Workflows \X Slots : StartRun(r) \/ RequeueRun(r) \/ \E score \in Scores : PostScore(r, score)
      \/ \E r \in Workflows \X Slots : Retrigger(r)
      \/ \E h \in Hooks, r \in Workflows \X Slots : HookAccept(h, r)
      \/ \E h \in Hooks : HookRetry(h)
      \/ \E h \in Hooks, status \in Ended : HookEnd(h, status)
  BY <1>1 DEF OnRuns, RunStep, Event, EndUnseen, Undisturbed
<1>9. \A t \in Scans : t \in Tasks /\ t \notin Hooks
  BY <1>1 DEF Tasks
<1>10. CASE \E r \in Workflows \X Slots : StartRun(r) \/ RequeueRun(r) \/ \E score \in Scores : PostScore(r, score)
  BY <1>1, <1>3, <1>9, <1>10
<1>11. CASE \E r \in Workflows \X Slots : Retrigger(r)
  BY <1>1, <1>4, <1>9, <1>11
<1>12. CASE \E h \in Hooks, r \in Workflows \X Slots : HookAccept(h, r)
  <2>1. PICK h \in Hooks, r \in Workflows \X Slots : HookAccept(h, r)
    BY <1>12
  <2>2. QED
    BY <1>1, <1>5, <1>9, <2>1
<1>13. CASE \E h \in Hooks : HookRetry(h)
  <2>1. PICK h \in Hooks : HookRetry(h)
    BY <1>13
  <2>2. QED
    BY <1>1, <1>6, <1>9, <2>1
<1>14. CASE \E h \in Hooks, status \in Ended : HookEnd(h, status)
  BY <1>7, <1>9, <1>14
<1>15. QED
  BY <1>8, <1>10, <1>11, <1>12, <1>13, <1>14

\* The step that ends a run
LEMMA CurrentEnds ==
  ASSUME Undisturbed, IInv, CurrentInv, NEW h \in Hooks, NEW status \in Ended, HookEnd(h, status)
  PROVE  CurrentInv'
<1>1. /\ run \in [Workflows \X Slots -> Run] /\ pc[h] = "accepted" /\ row[h] \in Workflows \X Slots
      /\ Hooks = {h} /\ h \in Tasks /\ h \notin Scans
      /\ pc \in [Tasks -> {"idle", "accepted", "read", "upsert", "write", "gate", "create", "error"}]
  BY DEF IInv, TypeOK, HookEnd, Tasks, Undisturbed
<1>2. PICK r : r = row[h]
  OBVIOUS
<1>3. PICK now \in Now(r[1]) : run' = [run EXCEPT ![r].status = status, ![r].completedAt = now]
  BY <1>2 DEF HookEnd, EndsAs
<1>4. r \in Workflows \X Slots /\ run[r] \in Run /\ run[r].status = "open"
  BY <1>1, <1>2 DEF CurrentInv
<1>5. /\ run'[r].status = status /\ run'[r].completedAt = now
      /\ \A q \in Workflows \X Slots : q # r => run'[q] = run[q]
  <2>1. PICK x : x = [run[r] EXCEPT !.status = status, !.completedAt = now]
    OBVIOUS
  <2>2. x.status = status /\ x.completedAt = now
    BY <1>4, <2>1 DEF Run
  <2>3. run' = [run EXCEPT ![r] = x]
    BY <1>1, <1>3, <1>4, <2>1
  <2>4. QED
    BY <1>1, <1>4, <2>2, <2>3
<1>6. pc' = [pc EXCEPT ![h] = "read"]
  BY DEF HookEnd, Goto
<1>7. EndsApart'
  <2>1. ASSUME NEW q \in Workflows \X Slots, q # r, q[1] = r[1], HasEnded(q)
        PROVE  run[q].completedAt # now
    <3>1. q \in Runs(r[1])
      <4>1. q = <<q[1], q[2]>> /\ q[2] \in Slots /\ r[1] \in Workflows
        BY <1>4
      <4>2. q \in {r[1]} \X Slots
        BY <2>1, <4>1
      <4>3. QED
        BY <2>1, <4>2 DEF Runs, HasEnded, Ended
    <3>2. run[q].completedAt < now /\ now \in Nat
      BY <1>3, <3>1 DEF Now, After
    <3>3. QED
      BY <3>2
  <2>2. ASSUME NEW p \in Workflows \X Slots, NEW q \in Workflows \X Slots,
               p[1] = q[1], p # q, HasEnded(p)', HasEnded(q)'
        PROVE  run'[p].completedAt # run'[q].completedAt
    <3>1. CASE p = r
      BY <1>5, <2>1, <2>2, <3>1 DEF HasEnded
    <3>2. CASE q = r
      BY <1>5, <2>1, <2>2, <3>2 DEF HasEnded
    <3>3. CASE p # r /\ q # r
      BY <1>5, <2>2, <3>3 DEF HasEnded, CurrentInv, EndsApart
    <3>4. QED
      BY <3>1, <3>2, <3>3
  <2>3. QED
    BY <2>2 DEF EndsApart
<1>8. \A w \in Workflows : run'[<<w, 1>>].status # "none"
  <2> SUFFICES ASSUME NEW w \in Workflows PROVE run'[<<w, 1>>].status # "none"
    OBVIOUS
  <2>1. <<w, 1>> \in Workflows \X Slots /\ run[<<w, 1>>].status # "none"
    BY DEF Slots, CurrentInv
  <2>2. QED
    BY <1>5, <2>1 DEF Ended
<1>9. \A t \in Tasks : pc'[t] # "error" /\ (t \in Scans => pc'[t] \in {"idle", "gate", "create"})
  BY <1>1, <1>6 DEF CurrentInv
<1>10. pc'[h] = "read"
  BY <1>1, <1>6
<1>11. QED
  BY <1>1, <1>7, <1>8, <1>9, <1>10 DEF CurrentInv, CaughtUp

\* The other steps on runs
LEMMA CurrentRuns ==
  ASSUME Undisturbed, IInv, CurrentInv, OnRuns, IInv'
  PROVE  CurrentInv'
<1>1. CASE \E h \in Hooks, status \in Ended : HookEnd(h, status)
  BY <1>1, CurrentEnds
<1>2. CASE /\ \E r \in Workflows \X Slots : run'[r].status = "open"
           /\ \A q \in Workflows \X Slots :
                \/ run'[q].status = run[q].status /\ run'[q].completedAt = run[q].completedAt
                \/ run[q].status = "none" /\ run'[q].status = "open"
           /\ \A h \in Hooks : pc'[h] # "error" /\ (pc'[h] = "accepted" =>
                \/ pc[h] = "accepted" /\ row'[h] = row[h]
                \/ run[row'[h]].status = "open" /\ run' = run)
  <2>1. ~AllEnded'
    <3>1. PICK r \in Workflows \X Slots : run'[r].status = "open"
      BY <1>2
    <3>2. r \in DOMAIN run'
      BY DEF IInv, TypeOK
    <3>3. QED
      BY <3>1, <3>2 DEF AllEnded, Ended
  <2>2. EndsApart'
    BY <1>2 DEF EndsApart, CurrentInv, HasEnded, Ended
  <2>3. \A w \in Workflows : run'[<<w, 1>>].status # "none"
    <3> SUFFICES ASSUME NEW w \in Workflows PROVE run'[<<w, 1>>].status # "none"
      OBVIOUS
    <3>1. <<w, 1>> \in Workflows \X Slots /\ run[<<w, 1>>].status # "none"
      BY DEF Slots, CurrentInv
    <3>2. QED
      BY <1>2, <3>1
  <2>4. \A h \in Hooks : pc'[h] = "accepted" => run'[row'[h]].status = "open"
    <3> SUFFICES ASSUME NEW h \in Hooks, pc'[h] = "accepted" PROVE run'[row'[h]].status = "open"
      OBVIOUS
    <3>1. CASE pc[h] = "accepted" /\ row'[h] = row[h]
      <4>1. row[h] \in Workflows \X Slots /\ run[row[h]].status = "open"
        BY <3>1 DEF IInv, TypeOK, CurrentInv
      <4>2. QED
        BY <1>2, <3>1, <4>1
    <3>2. CASE run[row'[h]].status = "open" /\ run' = run
      BY <3>2
    <3>3. QED
      BY <1>2, <3>1, <3>2
  <2>5. \A t \in Tasks : pc'[t] # "error" /\ (t \in Scans => pc'[t] \in {"idle", "gate", "create"})
    <3>1. \A t \in Scans : pc'[t] = pc[t]
      BY RunsMove
    <3>2. \A t \in Tasks : t \in Hooks \cup Scans
      BY DEF Tasks, Undisturbed
    <3>3. QED
      BY <1>2, <3>1, <3>2 DEF CurrentInv
  <2>6. QED
    BY <2>1, <2>2, <2>3, <2>4, <2>5 DEF CurrentInv
<1>3. QED
  BY <1>1, <1>2, RunsMove

\* The steps of an evaluation and of the creation of reviews
LEMMA CurrentTasks ==
  ASSUME Undisturbed, IInv, CurrentInv, OnTasks
  PROVE  CurrentInv'
<1>1. run' = run /\ TypeOK
  BY OnTasksLeaves DEF IInv
<1>2. /\ Contexts' = Contexts /\ (Merit' <=> Merit) /\ (AllEnded' <=> AllEnded)
      /\ \A r : HasEnded(r)' <=> HasEnded(r)
  BY <1>1, MeritStays
<1>3. PICK t \in Tasks : \/ EvalRead(t) \/ EvalUpsert(t) \/ EvalWrite(t) \/ Gate(t)
                         \/ CreateReviews(t) \/ MarkError(t) \/ TaskFails(t) \/ TaskAborts(t)
  BY DEF OnTasks
<1>4. mishaps \in 0..MaxMishaps /\ MaxMishaps = 0
  BY <1>1 DEF TypeOK, Undisturbed
<1>5. ~TaskFails(t) /\ ~TaskAborts(t)
  BY <1>4 DEF TaskFails, TaskAborts, Mishap
<1>6. ~MarkError(t)
  BY DEF MarkError, CurrentInv
<1>7. \/ EvalRead(t) \/ EvalUpsert(t) \/ EvalWrite(t) \/ Gate(t) \/ CreateReviews(t)
  BY <1>3, <1>5, <1>6
<1>8. /\ row' = row
      /\ \E label \in {"upsert", "write", "gate", "create", "idle"} : pc' = [pc EXCEPT ![t] = label]
  BY <1>7 DEF EvalRead, EvalUpsert, EvalWrite, Gate, CreateReviews, Goto
<1>9. /\ pc \in [Tasks -> {"idle", "accepted", "read", "upsert", "write", "gate", "create", "error"}]
      /\ verdict \in [Tasks -> {"wait", "pass", "fail"}]
      /\ Hooks \subseteq Tasks /\ Scans \subseteq Tasks /\ Hooks \cap Scans = {} /\ Tasks = Hooks \cup Scans
  BY <1>1 DEF TypeOK, Tasks, Undisturbed
<1>10. \A x \in Tasks : x # t => pc'[x] = pc[x]
  BY <1>8, <1>9
<1>11. \A x \in Scans : pc[x] \in {"idle", "gate", "create"}
  BY <1>9 DEF CurrentInv
<1>12. t \in Scans => Gate(t) \/ CreateReviews(t)
  BY <1>7, <1>11 DEF EvalRead, EvalUpsert, EvalWrite
<1>13. /\ \A x \in Tasks : pc'[x] # "error" /\ (x \in Scans => pc'[x] \in {"idle", "gate", "create"})
       /\ \A h \in Hooks : pc'[h] = "accepted" => pc[h] = "accepted"
  <2>1. t \in Scans => pc'[t] \in {"idle", "gate", "create"}
    BY <1>9, <1>12 DEF Gate, CreateReviews, Goto
  <2>2. pc'[t] \notin {"error", "accepted"}
    BY <1>8, <1>9
  <2>3. \A x \in Tasks : pc[x] # "error" /\ (x \in Scans => pc[x] \in {"idle", "gate", "create"})
    BY DEF CurrentInv
  <2>4. QED
    BY <1>9, <1>10, <2>1, <2>2, <2>3
<1>14. ASSUME AllEnded, NEW h \in Hooks PROVE CaughtUp(h)'
  <2>1. CaughtUp(h)
    BY <1>14 DEF CurrentInv
  <2>2. CASE t # h
    <3>1. t \in Scans
      BY <1>9, <2>2 DEF Undisturbed
    <3>2. UNCHANGED <<decision, verdict>> /\ (reviews => reviews') /\ pc'[h] = pc[h]
      BY <1>9, <1>10, <1>12, <2>2, <3>1 DEF Gate, CreateReviews
    <3>3. QED
      BY <1>2, <2>1, <3>2 DEF CaughtUp
  <2>3. CASE t = h /\ EvalRead(h)
    <3>1. PICK c \in Contexts : verdict' = [verdict EXCEPT ![h] = Verdict(c)]
      BY <2>3 DEF EvalRead
    <3>2. Verdict(c) = IF Merit THEN "pass" ELSE "fail"
      BY <1>1, <1>14, VerdictIsMerit
    <3>3. verdict'[h] = (IF Merit THEN "pass" ELSE "fail") /\ pc'[h] = "upsert"
      BY <1>9, <2>3, <3>1, <3>2 DEF EvalRead, Goto
    <3>4. QED
      BY <1>2, <3>3 DEF CaughtUp
  <2>4. CASE t = h /\ EvalUpsert(h)
    <3>1. pc[h] = "upsert" /\ pc'[h] = "write" /\ verdict' = verdict
      BY <1>9, <2>4 DEF EvalUpsert, Goto
    <3>2. QED
      BY <1>2, <2>1, <3>1 DEF CaughtUp
  <2>5. CASE t = h /\ EvalWrite(h)
    <3>1. verdict[h] = IF Merit THEN "pass" ELSE "fail"
      BY <2>1, <2>5 DEF EvalWrite, CaughtUp
    <3>2. decision' = Decided(verdict[h])
      BY <2>5, <3>1 DEF EvalWrite, Write
    <3>3. decision'.status = IF Merit THEN "PASSED" ELSE "FAILED"
      BY <3>1, <3>2 DEF Decided
    <3>4. pc'[h] = IF Merit THEN "gate" ELSE "idle"
      BY <1>9, <2>5, <3>1 DEF EvalWrite, Goto
    <3>5. QED
      BY <1>2, <3>3, <3>4 DEF CaughtUp
  <2>6. CASE t = h /\ Gate(h)
    <3>1. decision.status = "PASSED" /\ Merit /\ decision' = decision
      BY <2>1, <2>6 DEF Gate, CaughtUp
    <3>2. pc'[h] = "create"
      BY <1>9, <2>6, <3>1 DEF Gate, Goto, Open
    <3>3. QED
      BY <1>2, <3>1, <3>2 DEF CaughtUp
  <2>7. CASE t = h /\ CreateReviews(h)
    <3>1. decision.status = "PASSED" /\ Merit /\ decision' = decision /\ reviews' = TRUE
      BY <2>1, <2>7 DEF CreateReviews, CaughtUp
    <3>2. pc'[h] = "idle"
      BY <1>9, <2>7 DEF CreateReviews, Goto
    <3>3. QED
      BY <1>2, <3>1, <3>2 DEF CaughtUp
  <2>8. QED
    BY <1>7, <2>2, <2>3, <2>4, <2>5, <2>6, <2>7
<1>15. EndsApart'
  BY <1>1, <1>2 DEF CurrentInv, EndsApart
<1>16. \A w \in Workflows : run'[<<w, 1>>].status # "none"
  BY <1>1 DEF CurrentInv
<1>17. \A h \in Hooks : pc'[h] = "accepted" => run'[row'[h]].status = "open"
  BY <1>1, <1>8, <1>13 DEF CurrentInv
<1>18. QED
  BY <1>2, <1>13, <1>14, <1>15, <1>16, <1>17 DEF CurrentInv

LEMMA CurrentStep == Undisturbed /\ IInv /\ CurrentInv /\ [Next]_vars => CurrentInv'
<1> SUFFICES ASSUME Undisturbed, IInv, CurrentInv, [Next]_vars PROVE CurrentInv'
  OBVIOUS
<1>1. CASE OnRuns
  BY <1>1, StepIInv, CurrentRuns
<1>2. CASE OnTasks
  BY <1>2, CurrentTasks
<1>3. ~Escalate
  BY DEF Escalate, Undisturbed
<1>4. CASE UNCHANGED vars
  <2>1. run' = run /\ UNCHANGED <<pc, row, verdict, decision, reviews>>
    BY <1>4 DEF vars, evalVars
  <2>2. /\ (Merit' <=> Merit) /\ (AllEnded' <=> AllEnded)
        /\ \A r : HasEnded(r)' <=> HasEnded(r)
    BY <2>1, MeritStays
  <2>3. EndsApart'
    BY <2>1, <2>2 DEF CurrentInv, EndsApart
  <2>4. AllEnded' => \A h \in Hooks : CaughtUp(h)'
    BY <2>1, <2>2 DEF CurrentInv, CaughtUp
  <2>5. QED
    BY <2>1, <2>3, <2>4 DEF CurrentInv
<1>5. QED
  BY <1>1, <1>2, <1>3, <1>4, StepKinds

\* While the webhooks of a submission do not overlap, its decision is that of its
\* runs as they are, whenever all have ended and been handled, and one that passes
\* has its human reviews: for any number of workflows, runs and scan messages.
THEOREM DecisionIsCurrent == ASSUME Undisturbed PROVE Spec => []DecisionCurrent
<1>1. IInv /\ CurrentInv => DecisionCurrent
  <2> SUFFICES ASSUME CurrentInv, AllEnded, Quiet
               PROVE  /\ decision.status = IF Merit THEN "PASSED" ELSE "FAILED"
                      /\ Merit => reviews
    BY DEF DecisionCurrent
  <2>1. PICK h \in Hooks : CaughtUp(h) /\ pc[h] = "idle"
    BY DEF CurrentInv, Quiet, Undisturbed
  <2>2. QED
    BY <2>1 DEF CaughtUp
<1>2. Init => CurrentInv
  BY CurrentInit
<1>3. IInv /\ CurrentInv /\ [Next]_vars => CurrentInv'
  BY CurrentStep
<1>4. QED
  BY <1>1, <1>2, <1>3, Invariance, PTL DEF Spec

\* There a run of a gating workflow that was started last, and was cancelled or
\* scored too low, has the submission refused, whatever earlier ones say and
\* whichever of them ended last.
THEOREM LastStartedDecides == ASSUME Undisturbed PROVE Spec => []RetriggerSupersedes
<1>1. IInv /\ CurrentInv /\ DecisionCurrent => RetriggerSupersedes
  <2> SUFFICES ASSUME IInv, CurrentInv, DecisionCurrent, AllEnded, Quiet, NEW w \in Gating, NEW r \in Runs(w),
                      \A q \in Runs(w) \ {r} : run[q].startedAt < run[r].startedAt,
                      run[r].status = "CANCELLED" \/ run[r].score = None \/ run[r].score < Minimum[w]
               PROVE  decision.status = "FAILED"
    BY DEF RetriggerSupersedes
  <2>1. SUFFICES ASSUME Merit PROVE FALSE
    BY DEF DecisionCurrent
  <2>2. PICK c \in Contexts : Deserved(c)
    BY <2>1 DEF Merit
  <2>3. TypeOK /\ w \in Workflows
    BY DEF IInv
  <2>4. PICK q : q = c[w]
    OBVIOUS
  <2>5. /\ q \in Workflows \X Slots /\ q[1] = w /\ HasEnded(q)
        /\ ~Precedes(run[r], run[q])
    BY <2>3, <2>4, OneContext
  <2>6. q \in Runs(w)
    BY <2>5 DEF Runs, HasEnded, Ended
  <2>7. r \in Workflows \X Slots
    BY <2>3 DEF Runs
  <2>8. run[r].startedAt \in Nat /\ run[q].startedAt \in Nat
    BY <2>3, <2>5, <2>7 DEF TypeOK, Run
  <2>9. q = r
    BY <2>5, <2>6, <2>8 DEF Precedes
  <2>10. /\ run[r].status \in {"SUCCESS", "FAILURE"}
         /\ run[r].score # None /\ run[r].score >= Minimum[w]
    BY <2>2, <2>3, <2>4, <2>9 DEF Deserved
  <2>11. PICK s : s = run[r].score
    OBVIOUS
  <2>12. s \in Nat /\ Minimum[w] \in Nat
    BY <2>3, <2>7, <2>10, <2>11 DEF TypeOK, Run
  <2>13. s >= Minimum[w] /\ s < Minimum[w]
    BY <2>10, <2>11
  <2>14. QED
    BY <2>12, <2>13
<1>2. Init => CurrentInv
  BY CurrentInit
<1>3. IInv /\ CurrentInv /\ [Next]_vars => CurrentInv'
  BY CurrentStep
<1>4. QED
  BY <1>1, <1>2, <1>3, Invariance, DecisionIsCurrent, PTL DEF Spec

=============================================================================
