------------------------ MODULE KafkaDeliveryProofs ------------------------
(* Proofs about KafkaDelivery, for any partition, group and retry setting,  *)
(* about KafkaConnection, for any streams, attempts and tasks, and about    *)
(* ScanComplete, which handles the messages, for any group of instances.    *)
EXTENDS ScanComplete, KafkaConnection, FiniteSetTheorems, TLAPS

USE LengthAssumption, RetriesAssumption, DlqAssumption, FaultsAssumption, ValuesAssumption

\* `dlq.maxRetries || 3` is a natural number of retries, never zero.
LEMMA MaxRetriesPositive == MaxRetries \in Nat /\ MaxRetries > 0
  BY DEF MaxRetries

\* What giving a message a fate does.
LEMMA MeetsFate ==
  ASSUME TypeOK, NEW o \in Offsets, NEW f \in Fates, Meets(o, f)
  PROVE  /\ fate' \in [Offsets -> SUBSET Fates]
         /\ fate'[o] = fate[o] \cup {f} /\ fate'[o] # {}
         /\ \A q \in Offsets \ {o} : fate'[q] = fate[q]
  BY DEF TypeOK, Meets

\* Messages are only ever given more fates, and the log does not change.
LEMMA FateGrows ==
  ASSUME TypeOK, [Next]_vars
  PROVE  \A o \in Offsets : fate[o] # {} => fate'[o] # {}
<1> USE DEF TypeOK, Meets
<1>1. CASE \E i \in Instances : HandlerReturns(i) \/ Bury(i) \/ BuryFails(i)
  BY <1>1 DEF HandlerReturns, Bury, BuryFails
<1>2. CASE \E i \in Instances : HandlerThrows(i)
  BY <1>2 DEF HandlerThrows, CanRetry
<1>3. CASE UNCHANGED fate
  BY <1>3
<1>4. QED
  BY <1>1, <1>2, <1>3 DEF Next, Process, Handler, Trouble, Assign, Rebalance, Crash,
     Receive, Fetch, WaitOver, Commit, CommitFails, vars

\* The initial state satisfies the invariant.
LEMMA InitIInv == Init => IInv
<1> SUFFICES ASSUME Init PROVE IInv
  OBVIOUS
<1>1. TypeOK
  BY MaxRetriesPositive DEF Init, TypeOK, Offsets
<1>2. QED
  BY <1>1 DEF Init, IInv, NothingSkipped, GivenUpAfterRetries, GivenUp, Behind, BuriesExhausted, Offsets

\* Every step keeps the types.
LEMMA TypeStep == IInv /\ [Next]_vars => TypeOK'
<1> SUFFICES ASSUME IInv, [Next]_vars PROVE TypeOK'
  OBVIOUS
<1>0. TypeOK /\ \A i \in Instances : Behind(i)
  BY DEF IInv
<1> USE <1>0, MaxRetriesPositive DEF TypeOK, Offsets, Fates
<1>1. ASSUME NEW i \in Instances, Assign(i) PROVE TypeOK'
  BY <1>1 DEF Assign, StartsAt
<1>2. ASSUME NEW i \in Instances, Rebalance(i) PROVE TypeOK'
  BY <1>2 DEF Rebalance, StartsAt, Fault
<1>3. ASSUME NEW i \in Instances, Crash(i) PROVE TypeOK'
  BY <1>3 DEF Crash, Fault
<1>4. ASSUME NEW i \in Instances, Receive(i) PROVE TypeOK'
  <2>1. next[i] \in Offsets /\ next[i] + 1 \in 1..Length + 1
    BY <1>4, LengthAssumption DEF Receive, Fetch
  <2>2. current' \in [Instances -> Offsets \cup {None}]
    BY <1>4, <2>1 DEF Receive, Fetch
  <2>3. next' \in [Instances -> 1..Length + 1 \cup {None}]
    BY <1>4, <2>1 DEF Receive, Fetch
  <2>4. pc' \in [Instances -> {"poll", "handle", "wait", "bury", "commit"}]
    BY <1>4 DEF Receive, Fetch
  <2>5. QED
    BY <1>4, <2>2, <2>3, <2>4 DEF Receive, Fetch
<1>5. ASSUME NEW i \in Instances, HandlerReturns(i) PROVE TypeOK'
  BY <1>5 DEF HandlerReturns, Meets
<1>6. ASSUME NEW i \in Instances, HandlerThrows(i) PROVE TypeOK'
  <2> DEFINE f == attempt[i] + 1
  <2>1. current[i] \in Offsets /\ attempt[i] \in 0..MaxRetries /\ f \in 1..MaxRetries + 1
    BY <1>6 DEF HandlerThrows, CanRetry, Behind
  <2>2. failures' \in [Offsets -> 0..MaxRetries + 1]
    BY <1>6, <2>1 DEF HandlerThrows, CanRetry
  <2>3. fate' \in [Offsets -> SUBSET Fates]
    <3>1. CASE UNCHANGED fate
      BY <3>1
    <3>2. CASE Meets(current[i], "dropped")
      BY <2>1, <3>2, MeetsFate
    <3>3. QED
      BY <1>6, <3>1, <3>2 DEF HandlerThrows, CanRetry
  <2>4. attempt' \in [Instances -> 0..MaxRetries]
    <3>1. CASE UNCHANGED attempt
      BY <3>1
    <3>2. CASE attempt[i] < MaxRetries /\ attempt' = [attempt EXCEPT ![i] = f]
      BY <2>1, <3>2
    <3>3. QED
      BY <1>6, <3>1, <3>2 DEF HandlerThrows, CanRetry
  <2>5. pc' \in [Instances -> {"poll", "handle", "wait", "bury", "commit"}]
    BY <1>6 DEF HandlerThrows, CanRetry
  <2>6. QED
    BY <1>6, <2>2, <2>3, <2>4, <2>5 DEF HandlerThrows, CanRetry
<1>7. ASSUME NEW i \in Instances, WaitOver(i) PROVE TypeOK'
  BY <1>7 DEF WaitOver
<1>8. ASSUME NEW i \in Instances, Bury(i) PROVE TypeOK'
  BY <1>8 DEF Bury, Meets
<1>9. ASSUME NEW i \in Instances, BuryFails(i) PROVE TypeOK'
  <2>1. current[i] \in Offsets
    BY <1>9 DEF BuryFails, Behind
  <2>2. fate' \in [Offsets -> SUBSET Fates]
    BY <1>9, <2>1, MeetsFate DEF BuryFails
  <2>3. QED
    BY <1>9, <2>2 DEF BuryFails, Fault
<1>10. ASSUME NEW i \in Instances, Commit(i) PROVE TypeOK'
  <2>1. current[i] \in Offsets
    BY <1>10 DEF Commit, Behind
  <2>2. committed' \in 1..Length + 1
    BY <1>10, <2>1 DEF Commit
  <2>3. QED
    BY <1>10, <2>2 DEF Commit, Done
<1>11. ASSUME NEW i \in Instances, CommitFails(i) PROVE TypeOK'
  BY <1>11 DEF CommitFails, Done, Fault
<1>12. CASE UNCHANGED vars
  BY <1>12 DEF vars
<1>13. QED
  BY <1>1, <1>2, <1>3, <1>4, <1>5, <1>6, <1>7, <1>8, <1>9, <1>10, <1>11, <1>12
     DEF Next, Process, Handler, Trouble

\* What is behind an instance, and what it buries, after a step of its own or of
\* another instance.
LEMMA BehindStep ==
  ASSUME IInv, [Next]_vars, NEW j \in Instances
  PROVE  Behind(j)' /\ BuriesExhausted(j)'
<1> USE DEF Offsets, Fates
<1>0. TypeOK /\ NothingSkipped /\ \A i \in Instances : Behind(i) /\ BuriesExhausted(i)
  BY DEF IInv
<1>1. \A o \in Offsets : fate[o] # {} => fate'[o] # {}
  BY FateGrows, <1>0
<1>2. CASE UNCHANGED <<pc[j], current[j], next[j]>> /\ UNCHANGED <<log, failures>>
  BY <1>0, <1>1, <1>2 DEF Behind, BuriesExhausted, Exhausted, TypeOK
<1>3. ASSUME NEW i \in Instances, Assign(i) \/ Rebalance(i) PROVE Behind(j)' /\ BuriesExhausted(j)'
  BY <1>0, <1>3 DEF Assign, Rebalance, StartsAt, Behind, BuriesExhausted, Exhausted, TypeOK, NothingSkipped
<1>4. ASSUME Crash(j) PROVE Behind(j)' /\ BuriesExhausted(j)'
  BY <1>0, <1>4 DEF Crash, Behind, BuriesExhausted, Exhausted, TypeOK
<1>5. ASSUME Receive(j) PROVE Behind(j)' /\ BuriesExhausted(j)'
  <2>1. /\ next[j] \in Offsets /\ current'[j] = next[j]
        /\ pc'[j] = IF log[next[j]] = Garbled THEN "bury" ELSE "handle"
        /\ log' = log
    BY <1>0, <1>5 DEF Receive, Fetch, TypeOK
  <2>2. BuriesExhausted(j)'
    BY <2>1 DEF BuriesExhausted, Exhausted
  <2>3. Behind(j)'
    <3>1. /\ next'[j] = next[j] + 1 /\ pc'[j] \in {"handle", "bury"}
          /\ fate' = fate /\ current[j] = None
      BY <1>0, <1>5 DEF Receive, Fetch, Behind, TypeOK
    <3>2. current'[j] # None /\ pc'[j] # "poll" /\ pc'[j] # "commit"
      BY <1>1, <2>1, <3>1
    <3>3. \A o \in Offsets : o < next[j] => fate[o] # {}
      BY <1>0, <1>1, <2>1, <3>1 DEF Behind
    <3>4. \A o \in Offsets : o < next[j] + 1 => o < next[j] \/ o = next[j]
      BY <2>1 DEF Offsets
    <3>5. QED
      BY <2>1, <3>1, <3>2, <3>3, <3>4 DEF Behind
  <2>4. QED
    BY <2>2, <2>3
<1>6. ASSUME HandlerReturns(j) \/ Bury(j) \/ BuryFails(j) PROVE Behind(j)' /\ BuriesExhausted(j)'
  <2>1. current[j] \in Offsets
    BY <1>0, <1>6 DEF HandlerReturns, Bury, BuryFails, Behind, TypeOK
  <2>2. fate'[current[j]] # {} /\ pc'[j] = "commit" /\ UNCHANGED <<current, next>>
    <3>1. \E f \in Fates : Meets(current[j], f)
      BY <1>6 DEF HandlerReturns, Bury, BuryFails
    <3>2. fate'[current[j]] # {}
      BY <1>0, <2>1, <3>1, MeetsFate
    <3>3. QED
      BY <1>0, <1>6, <3>2 DEF HandlerReturns, Bury, BuryFails, TypeOK
  <2>3. QED
    BY <1>0, <1>1, <1>6, <2>1, <2>2 DEF HandlerReturns, Bury, BuryFails, Behind, BuriesExhausted, TypeOK
<1>7. ASSUME HandlerThrows(j) PROVE Behind(j)' /\ BuriesExhausted(j)'
  <2>1. current[j] \in Offsets /\ UNCHANGED <<current, next, log>> /\ attempt[j] \in 0..MaxRetries
    BY <1>0, <1>7 DEF HandlerThrows, CanRetry, Behind, TypeOK
  <2>2. pc'[j] \in {"wait", "bury", "commit"}
    BY <1>0, <1>7 DEF HandlerThrows, CanRetry, TypeOK
  <2>3. pc'[j] = "commit" => fate'[current[j]] # {}
    <3>1. pc'[j] = "commit" => Meets(current[j], "dropped")
      BY <1>0, <1>7 DEF HandlerThrows, CanRetry, TypeOK
    <3>2. QED
      BY <1>0, <2>1, <3>1, MeetsFate
  <2>4. pc'[j] = "bury" => failures'[current[j]] = MaxRetries + 1
    BY <1>0, <1>7, <2>1, MaxRetriesPositive DEF HandlerThrows, CanRetry, TypeOK
  <2>5. QED
    <3>1. current[j] # None /\ pc'[j] # "poll"
      BY <2>1, <2>2
    <3>2. Behind(j)'
      BY <1>0, <1>1, <2>1, <2>3, <3>1 DEF Behind, TypeOK
    <3>3. QED
      BY <2>1, <2>4, <3>2 DEF BuriesExhausted, Exhausted
<1>8. ASSUME NEW i \in Instances, HandlerThrows(i), i # j PROVE Behind(j)' /\ BuriesExhausted(j)'
  <2>1. UNCHANGED <<pc[j], current[j], next[j], log>>
    BY <1>0, <1>8 DEF HandlerThrows, CanRetry, TypeOK
  <2>2. \A o \in Offsets : failures[o] = MaxRetries + 1 => failures'[o] = MaxRetries + 1
    BY <1>0, <1>8, MaxRetriesPositive DEF HandlerThrows, CanRetry, TypeOK
  <2>3. QED
    BY <1>0, <1>1, <2>1, <2>2 DEF Behind, BuriesExhausted, Exhausted, TypeOK
<1>9. ASSUME WaitOver(j) PROVE Behind(j)' /\ BuriesExhausted(j)'
  BY <1>0, <1>9 DEF WaitOver, Behind, BuriesExhausted, TypeOK
<1>10. ASSUME Commit(j) \/ CommitFails(j) PROVE Behind(j)' /\ BuriesExhausted(j)'
  BY <1>0, <1>10 DEF Commit, CommitFails, Done, Behind, BuriesExhausted, TypeOK
<1>11. ASSUME NEW i \in Instances, i # j,
              Crash(i) \/ Receive(i) \/ HandlerReturns(i) \/ Bury(i) \/ BuryFails(i) \/ WaitOver(i)
                \/ Commit(i) \/ CommitFails(i)
       PROVE  Behind(j)' /\ BuriesExhausted(j)'
  BY <1>0, <1>2, <1>11 DEF Crash, Receive, Fetch, HandlerReturns, Bury, BuryFails, WaitOver, Commit,
     CommitFails, Done, TypeOK
<1>12. CASE UNCHANGED vars
  BY <1>2, <1>12 DEF vars
<1>13. QED
  BY <1>3, <1>4, <1>5, <1>6, <1>7, <1>8, <1>9, <1>10, <1>11, <1>12
     DEF Next, Process, Handler, Trouble

\* The committed offset only moves to just behind a message with a fate.
LEMMA SkippedStep == IInv /\ [Next]_vars => NothingSkipped'
<1> SUFFICES ASSUME IInv, [Next]_vars PROVE NothingSkipped'
  OBVIOUS
<1> USE DEF Offsets
<1>0. TypeOK /\ NothingSkipped /\ \A i \in Instances : Behind(i)
  BY DEF IInv
<1>1. \A o \in Offsets : fate[o] # {} => fate'[o] # {}
  BY FateGrows, <1>0
<1>2. CASE UNCHANGED committed
  BY <1>0, <1>1, <1>2 DEF NothingSkipped
<1>3. ASSUME NEW i \in Instances, Commit(i) PROVE NothingSkipped'
  <2>1. /\ current[i] \in Offsets /\ fate[current[i]] # {} /\ fate' = fate
        /\ \A o \in Offsets : o < current[i] => fate[o] # {}
    BY <1>0, <1>3 DEF Commit, Behind, TypeOK
  <2>2. committed' \in {committed, current[i] + 1}
    BY <1>3 DEF Commit
  <2>3. ASSUME NEW o \in Offsets, o < committed' PROVE fate'[o] # {}
    <3>1. CASE committed' = committed
      BY <1>0, <2>1, <2>3, <3>1 DEF NothingSkipped
    <3>2. CASE committed' = current[i] + 1
      <4>1. o < current[i] \/ o = current[i]
        BY <2>1, <2>3, <3>2
      <4>2. QED
        BY <2>1, <4>1
    <3>3. QED
      BY <2>2, <3>1, <3>2
  <2>4. QED
    BY <2>3 DEF NothingSkipped
<1>4. QED
  BY <1>2, <1>3 DEF Next, Process, Handler, Trouble, Assign, Rebalance, Crash, Receive, Fetch, WaitOver,
     Bury, BuryFails, HandlerReturns, HandlerThrows, CanRetry, CommitFails, vars

\* A message is given up only by an instance that may bury it.
LEMMA GivenUpStep == IInv /\ [Next]_vars => GivenUpAfterRetries'
<1> SUFFICES ASSUME IInv, [Next]_vars, NEW o \in Offsets, GivenUp(o)'
             PROVE  Exhausted(o)'
  BY DEF GivenUpAfterRetries
<1>0. /\ TypeOK /\ \A i \in Instances : Behind(i) /\ BuriesExhausted(i)
      /\ GivenUp(o) => Exhausted(o)
  BY DEF IInv, GivenUpAfterRetries
<1>1. Exhausted(o) => Exhausted(o)'
  <2>1. ASSUME NEW i \in Instances, HandlerThrows(i) PROVE Exhausted(o) => Exhausted(o)'
    BY <1>0, <2>1, MaxRetriesPositive DEF HandlerThrows, CanRetry, Exhausted, TypeOK
  <2>2. CASE UNCHANGED <<log, failures>>
    BY <2>2 DEF Exhausted
  <2>3. QED
    BY <2>1, <2>2 DEF Next, Process, Handler, Trouble, Assign, Rebalance, Crash, Receive, Fetch, WaitOver,
       Bury, BuryFails, HandlerReturns, Commit, CommitFails, vars
<1>2. CASE fate'[o] = fate[o]
  BY <1>0, <1>1, <1>2 DEF GivenUp
<1>3. ASSUME NEW i \in Instances, Bury(i) \/ BuryFails(i), o = current[i] PROVE Exhausted(o)'
  BY <1>0, <1>1, <1>3 DEF Bury, BuryFails, BuriesExhausted
<1>4. ASSUME NEW i \in Instances, Bury(i) \/ BuryFails(i), o # current[i] PROVE Exhausted(o)'
  BY <1>0, <1>2, <1>4 DEF Bury, BuryFails, Meets, TypeOK
<1>5. ASSUME NEW i \in Instances, HandlerReturns(i) PROVE Exhausted(o)'
  <2>1. \A f \in {"deadlettered", "dropped"} : f \in fate'[o] => f \in fate[o]
    BY <1>0, <1>5 DEF HandlerReturns, Meets, TypeOK
  <2>2. QED
    BY <1>0, <1>1, <2>1 DEF GivenUp
<1>6. ASSUME NEW i \in Instances, HandlerThrows(i) PROVE Exhausted(o)'
  <2>1. CASE i \in DlqInstances
    BY <1>0, <1>2, <1>6, <2>1 DEF HandlerThrows
  <2>2. CASE i \notin DlqInstances
    <3>1. DlqInstances # Instances
      BY <2>2
    <3>2. "deadlettered" \in fate'[o] => "deadlettered" \in fate[o]
      BY <1>0, <1>6, <2>2 DEF HandlerThrows, Meets, TypeOK
    <3>3. QED
      BY <1>0, <1>1, <3>1, <3>2 DEF GivenUp
  <2>3. QED
    BY <2>1, <2>2
<1>7. QED
  BY <1>2, <1>3, <1>4, <1>5, <1>6 DEF Next, Process, Handler, Trouble, Assign, Rebalance, Crash,
     Receive, Fetch, WaitOver, Commit, CommitFails, vars

\* The invariant holds in every reachable state.
THEOREM Invariance == Spec => []IInv
<1>1. IInv /\ [Next]_vars => IInv'
  BY TypeStep, BehindStep, SkippedStep, GivenUpStep DEF IInv
<1>2. QED
  BY InitIInv, <1>1, PTL DEF Spec

\* At-least-once: the group's offset never passes a message of which nothing has
\* become, for any number of instances, messages, crashes and rebalances.
THEOREM NeverSkips == Spec => []NothingSkipped
  BY Invariance, PTL DEF IInv

\* No message that parses is buried, or lost while every instance has a dead
\* letter queue, before one instance has tried it MaxRetries + 1 times.
THEOREM GivesUpLate == Spec => []GivenUpAfterRetries
  BY Invariance, PTL DEF IInv

-----------------------------------------------------------------------------
(* KafkaConnection: one loop at a time.                                    *)

LoopStates == {"none", "idle", "busy", "done"}

TaskStates == {"none", "stream", "loop", "start", "wait"}

\* A loop that runs is the one the service knows, and a task that starts the
\* next one knows of none, unless closing a stream has failed.
ConnectionIInv ==
    /\ loops \in [Streams -> LoopStates] /\ taskAt \in [Tasks -> TaskStates]
    /\ leaked \in BOOLEAN
    /\ \A t \in Tasks : taskAt[t] # "none" => reconnectionTask = t
    /\ kafkaState = "initializing" => Running = {} /\ \A t \in Tasks : taskAt[t] = "none"
    /\ ~leaked => /\ Running \subseteq {consumerLoop}
                  /\ \A t \in Tasks : taskAt[t] = "start" => consumerLoop = 0

\* The loops that run, in two states
LEMMA LoopsAdvance ==
  ASSUME loops \in [Streams -> LoopStates], NEW g \in Streams, NEW x \in LoopStates,
         loops' = [loops EXCEPT ![g] = x], x = "done" \/ g \in Running
  PROVE  loops' \in [Streams -> LoopStates] /\ Running' \subseteq Running
BY DEF Running, LoopStates

LEMMA NoLoopZero ==
  ASSUME loops \in [Streams -> LoopStates], Running \subseteq {0}
  PROVE  Running = {}
<1>1. 0 \notin Streams
  BY ConnectionAssumption DEF Streams
<1>2. QED
  BY <1>1 DEF Running

LEMMA ConnectionInitIInv ==
  ASSUME NEW isDisabled \in BOOLEAN, ConnectionInit(isDisabled)
  PROVE  ConnectionIInv
<1>1. Running = {}
  BY DEF ConnectionInit, Running
<1>2. QED
  BY <1>1 DEF ConnectionInit, ConnectionIInv, LoopStates, TaskStates

\* A start makes one loop where none runs.
LEMMA StartedOne ==
  ASSUME ConnectionIInv, Started, leaked' = leaked, ~leaked => Running = {}
  PROVE  /\ loops' \in [Streams -> LoopStates] /\ kafkaState' # "initializing"
         /\ ~leaked' => Running' \subseteq {consumerLoop'}
<1>1. loops' = [loops EXCEPT ![made'] = "idle"] /\ consumerLoop' = made' /\ kafkaState' = "ready"
  BY DEF Started
<1>2. loops' \in [Streams -> LoopStates]
  BY <1>1 DEF ConnectionIInv, LoopStates
<1>3. \A g \in Running' : g \in Running \/ g = made'
  BY <1>1 DEF Running, ConnectionIInv
<1>4. QED
  BY <1>1, <1>2, <1>3

\* A failure of Kafka begins a task only where there is none, and not before
\* the first start has come through.
LEMMA FailureBeginsOne ==
  ASSUME ConnectionIInv, HandleKafkaFailure
  PROVE  /\ taskAt' \in [Tasks -> TaskStates]
         /\ \A t \in Tasks : taskAt'[t] # "none" => reconnectionTask' = t
         /\ \A t \in Tasks : taskAt'[t] = "start" => taskAt[t] = "start"
         /\ UNCHANGED <<kafkaState, taskAt>> \/ kafkaState' = "reconnecting"
<1>1. CASE UNCHANGED taskVars
  BY <1>1 DEF HandleKafkaFailure, ConnectionIInv, taskVars
<1>2. CASE ~isShuttingDown /\ reconnectionTask = 0 /\ \E t \in Tasks : BeginTask(t)
  <2>1. PICK t \in Tasks : BeginTask(t)
    BY <1>2
  <2>2. taskAt' = [taskAt EXCEPT ![t] = "stream"] /\ reconnectionTask' = t
        /\ kafkaState' = "reconnecting"
    BY <1>2, <2>1 DEF BeginTask, HandleKafkaFailure
  <2>3. \A u \in Tasks : taskAt[u] = "none"
    BY <1>2, ConnectionAssumption DEF ConnectionIInv
  <2>4. QED
    BY <2>2, <2>3 DEF ConnectionIInv, TaskStates
<1>3. QED
  BY <1>1, <1>2 DEF HandleKafkaFailure, ScheduleReconnect

LEMMA LoopingStep ==
  ASSUME ConnectionIInv, NEW g \in Streams, Looping(g) \/ NextMessage(g) \/ StreamFails(g)
  PROVE  ConnectionIInv'
<1> USE DEF ConnectionIInv
<1>1. CASE NextMessage(g) \/ Processed(g)
  <2>1. /\ loops' \in [Streams -> LoopStates] /\ Running' \subseteq Running
    BY <1>1, LoopsAdvance DEF NextMessage, Processed, Running, LoopStates
  <2>2. UNCHANGED <<kafkaState, consumerLoop, reconnectionTask, taskAt, leaked>>
    BY <1>1 DEF NextMessage, Processed, taskVars
  <2>3. QED
    BY <2>1, <2>2
<1>2. CASE StreamFails(g)
  BY <1>2 DEF StreamFails, taskVars, Running
<1>3. CASE OnError(g) \/ (LoopEnds(g) /\ streams[g] = "broken")
  <2>1. HandleKafkaFailure /\ UNCHANGED <<consumerLoop, leaked>>
    BY <1>3 DEF OnError, LoopEnds
  <2>2. /\ loops' \in [Streams -> LoopStates] /\ Running' \subseteq Running
    <3>1. CASE OnError(g)
      BY <3>1 DEF OnError, Running
    <3>2. CASE LoopEnds(g)
      BY <3>2, LoopsAdvance DEF LoopEnds, LoopStates
    <3>3. QED
      BY <1>3, <3>1, <3>2
  <2>3. QED
    BY <2>1, <2>2, FailureBeginsOne
<1>4. CASE LoopEnds(g) /\ streams[g] # "broken"
  <2>1. /\ loops' \in [Streams -> LoopStates] /\ Running' \subseteq Running
    BY <1>4, LoopsAdvance DEF LoopEnds, LoopStates
  <2>2. UNCHANGED <<kafkaState, consumerLoop, reconnectionTask, taskAt, leaked>>
    BY <1>4 DEF LoopEnds, taskVars
  <2>3. QED
    BY <2>1, <2>2
<1>5. QED
  BY <1>1, <1>2, <1>3, <1>4 DEF Looping

\* Where a step of a task leads.
LEMMA TaskMoves ==
  ASSUME ConnectionIInv, NEW t \in Tasks, taskAt[t] # "none",
         Ends(t) \/ \E x \in TaskStates : Moves(t, x)
  PROVE  /\ taskAt' \in [Tasks -> TaskStates]
         /\ \A u \in Tasks \ {t} : taskAt'[u] = "none"
         /\ \A u \in Tasks : taskAt'[u] # "none" => reconnectionTask' = u
<1>1. reconnectionTask = t /\ \A u \in Tasks \ {t} : taskAt[u] = "none"
  BY DEF ConnectionIInv
<1>2. QED
  BY <1>1 DEF Ends, Moves, ConnectionIInv, TaskStates

\* A loop waited for has ended.
LEMMA LoopAwaited ==
  ASSUME ConnectionIInv, AwaitLoop, loops' = loops, leaked' = leaked
  PROVE  consumerLoop' = 0 /\ Running' = Running /\ (~leaked => Running = {})
<1>1. ~leaked => Running \subseteq {consumerLoop}
  BY DEF ConnectionIInv
<1>2. consumerLoop # 0 => consumerLoop \notin Running
  BY DEF AwaitLoop, Running
<1>3. loops \in [Streams -> LoopStates]
  BY DEF ConnectionIInv
<1>4. QED
  BY <1>1, <1>2, <1>3, NoLoopZero DEF AwaitLoop, Running

LEMMA ReconnectingStep ==
  ASSUME ConnectionIInv, NEW t \in Tasks, Reconnecting(t) \/ TaskFailsToStart(t)
  PROVE  ConnectionIInv'
<1>0. taskAt[t] # "none" /\ kafkaState # "initializing" /\ (kafkaState' = "initializing" => FALSE)
  BY DEF Reconnecting, TaskCloses, TaskAwaitsLoop, TaskStarts, TaskTriesAgain, TaskFailsToStart, Started,
     ConnectionIInv
<1>1. CASE TaskCloses(t)
  <2>1. /\ taskAt[t] = "stream" /\ UNCHANGED <<kafkaState, consumerLoop, loops>>
        /\ \/ Moves(t, "loop") /\ leaked' = leaked
           \/ Reconnect(t) /\ leaked' = TRUE
    BY <1>1 DEF TaskCloses, CloseStream
  <2>2. /\ taskAt' \in [Tasks -> TaskStates]
        /\ \A u \in Tasks \ {t} : taskAt'[u] = "none"
        /\ \A u \in Tasks : taskAt'[u] # "none" => reconnectionTask' = u
    BY <1>0, <2>1, TaskMoves DEF Reconnect, TaskStates
  <2>3. ~leaked' => ~leaked /\ taskAt'[t] = "loop"
    BY <2>1 DEF Moves, ConnectionIInv
  <2>4. Running' = Running /\ leaked' \in BOOLEAN
    BY <2>1 DEF Running, ConnectionIInv
  <2>5. QED
    BY <1>0, <2>1, <2>2, <2>3, <2>4 DEF ConnectionIInv
<1>2. CASE TaskAwaitsLoop(t)
  <2>1. AwaitLoop /\ Reconnect(t) /\ UNCHANGED <<loops, leaked>>
    BY <1>2 DEF TaskAwaitsLoop
  <2>2. /\ taskAt' \in [Tasks -> TaskStates]
        /\ \A u \in Tasks : taskAt'[u] # "none" => reconnectionTask' = u
    BY <1>0, <2>1, TaskMoves DEF Reconnect, TaskStates
  <2>3. consumerLoop' = 0 /\ Running' = Running /\ (~leaked => Running = {})
    BY <2>1, LoopAwaited
  <2>4. QED
    BY <1>0, <2>1, <2>2, <2>3 DEF ConnectionIInv
<1>3. CASE TaskStarts(t)
  <2>1. taskAt[t] = "start" /\ Started /\ Ends(t) /\ leaked' = leaked
    BY <1>3 DEF TaskStarts
  <2>2. ~leaked => Running = {}
    BY <2>1, NoLoopZero DEF ConnectionIInv
  <2>3. /\ taskAt' \in [Tasks -> TaskStates] /\ (\A u \in Tasks : taskAt'[u] = "none")
        /\ \A u \in Tasks : taskAt'[u] # "none" => reconnectionTask' = u
    <3>1. taskAt'[t] = "none"
      BY <2>1 DEF Ends, ConnectionIInv
    <3>2. QED
      BY <1>0, <2>1, <3>1, TaskMoves
  <2>4. /\ loops' \in [Streams -> LoopStates]
        /\ ~leaked' => Running' \subseteq {consumerLoop'}
    BY <2>1, <2>2, StartedOne
  <2>5. QED
    BY <1>0, <2>1, <2>3, <2>4 DEF ConnectionIInv
<1>4. CASE TaskTriesAgain(t) \/ TaskFailsToStart(t)
  <2>1. /\ Ends(t) \/ Moves(t, "stream") \/ Moves(t, "wait")
        /\ UNCHANGED <<consumerLoop, loops, leaked>>
    BY <1>4 DEF TaskTriesAgain, TaskFailsToStart
  <2>2. /\ taskAt' \in [Tasks -> TaskStates]
        /\ \A u \in Tasks \ {t} : taskAt'[u] = "none"
        /\ \A u \in Tasks : taskAt'[u] # "none" => reconnectionTask' = u
    BY <1>0, <2>1, TaskMoves DEF TaskStates
  <2>3. taskAt'[t] # "start"
    BY <2>1 DEF Ends, Moves, ConnectionIInv
  <2>4. Running' = Running
    BY <2>1 DEF Running
  <2>5. QED
    BY <1>0, <2>1, <2>2, <2>3, <2>4 DEF ConnectionIInv
<1>5. QED
  BY <1>1, <1>2, <1>3, <1>4 DEF Reconnecting

LEMMA ConnectionStep == ConnectionIInv /\ [ConnectionNext]_connectionVars => ConnectionIInv'
<1> SUFFICES ASSUME ConnectionIInv, [ConnectionNext]_connectionVars PROVE ConnectionIInv'
  OBVIOUS
<1>1. CASE Bootstrap
  <2>1. kafkaState = "initializing" /\ Started /\ UNCHANGED <<reconnectionTask, taskAt, leaked>>
    BY <1>1 DEF Bootstrap, taskVars
  <2>2. Running = {} /\ \A t \in Tasks : taskAt[t] = "none"
    BY <2>1 DEF ConnectionIInv
  <2>3. QED
    BY <2>1, <2>2, StartedOne DEF ConnectionIInv
<1>2. CASE DestroyAwaitsLoop
  <2>1. AwaitLoop /\ kafkaState' = "disabled" /\ UNCHANGED <<reconnectionTask, taskAt, loops, leaked>>
    BY <1>2 DEF DestroyAwaitsLoop, Gone, taskVars
  <2>2. consumerLoop' = 0 /\ Running' = Running /\ (~leaked => Running = {})
    BY <2>1, LoopAwaited
  <2>3. QED
    BY <2>1, <2>2 DEF ConnectionIInv
<1>3. CASE DestroyCloses
  <2>1. /\ UNCHANGED <<consumerLoop, loops, reconnectionTask, taskAt>>
        /\ leaked' = leaked \/ leaked' = TRUE
        /\ kafkaState' = kafkaState \/ kafkaState' = "disabled"
    BY <1>3 DEF DestroyCloses, CloseStream, Gone, taskVars
  <2>2. Running' = Running /\ leaked' \in BOOLEAN /\ (~leaked' => ~leaked)
    <3>1. Running' = Running
      BY <2>1 DEF Running
    <3>2. CASE leaked' = leaked
      BY <3>1, <3>2 DEF ConnectionIInv
    <3>3. CASE leaked' = TRUE
      BY <3>1, <3>3
    <3>4. QED
      BY <2>1, <3>2, <3>3
  <2>3. kafkaState' = "initializing" => kafkaState = "initializing"
    BY <2>1
  <2>4. QED
    BY <2>1, <2>2, <2>3 DEF ConnectionIInv
<1>4. CASE BootstrapFails \/ Destroy \/ DestroyAwaitsTask \/ UNCHANGED connectionVars
  <2>1. UNCHANGED <<kafkaState, consumerLoop, loops, reconnectionTask, taskAt, leaked>>
    BY <1>4 DEF BootstrapFails, Destroy, DestroyAwaitsTask, connectionVars, taskVars
  <2>2. QED
    BY <2>1 DEF ConnectionIInv, Running
<1>5. QED
  BY <1>1, <1>2, <1>3, <1>4, LoopingStep, ReconnectingStep DEF ConnectionNext, Destroying

\* However streams fail, starts fail and the module is destroyed, with any
\* number of attempts and of calls of performReconnect: no two loops of an
\* instance process messages at the same time (unless closing a stream failed).
THEOREM OneLoopRuns == ConnectionSpec => []OneLoop
<1>1. (\E isDisabled \in BOOLEAN : ConnectionInit(isDisabled)) => ConnectionIInv
  BY ConnectionInitIInv
<1>2. ConnectionIInv => OneLoop
  <2> SUFFICES ASSUME ConnectionIInv, ~leaked PROVE Cardinality(Running) <= 1
    BY DEF OneLoop
  <2>1. Running = {} \/ Running = {consumerLoop}
    BY DEF ConnectionIInv
  <2>2. Cardinality(Running) = 0 \/ Cardinality(Running) = 1
    BY <2>1, FS_EmptySet, FS_Singleton
  <2>3. QED
    BY <2>2
<1>3. QED
  BY <1>1, <1>2, ConnectionStep, PTL DEF ConnectionSpec

-----------------------------------------------------------------------------
(* ScanComplete: its handler runs inside KafkaDelivery.                    *)

USE PayloadAssumption, SetupAssumption, MishapsAssumption

\* What is known of a submission whose reviews have been seen to
ReviewsDone(s) ==
    mishaps = 0 /\ ~ConfigWorkflows /\ ~(DispatchAi /\ ChallengeWorkflows) => s \in pending

RunsDone(s) == DispatchAi /\ (ConfigWorkflows \/ ChallengeWorkflows) => rows[s] # "none"

\* What an instance has done so far of a message, at each step of its handler
StepFits(i) ==
    /\ pc[i] \in {"handle", "wait"} => log[current[i]] \in Payloads
    /\ step[i] # "update" => /\ pc[i] = "handle" /\ Result(i) # "infected"
                             /\ Result(i) = "clean" => /\ Sub(i) \in scanned
                                                       /\ seen[i] => Sub(i) \in raised
    /\ step[i] = "queue" => DispatchAi
    /\ step[i] = "dispatch" => rows[Sub(i)] # "none"
    /\ step[i] \in {"reviews", "publish", "mark"} => Result(i) = "clean" /\ RunsDone(Sub(i))
    /\ step[i] \in {"publish", "mark"} => ReviewsDone(Sub(i))
    /\ step[i] = "mark" => events[Sub(i)] > 0

RaisedFits == \A s \in raised : events[s] > 0

\* Instances that have been given the partition and not crashed since
Group == {i \in Instances : next[i] # None \/ pc[i] # "poll"}

Marking(s) == {i \in Instances : step[i] = "mark" /\ Sub(i) = s}

\* Those that will publish the event of a submission, not knowing that it is raised
Unaware(s) ==
    {i \in Instances : /\ step[i] \in {"queue", "dispatch", "reviews", "publish"}
                       /\ log[current[i]] = <<s, "clean">> /\ ~seen[i]}

Unassigned == IF owner = None THEN 1 ELSE 0

\* Every repetition there has been or may still be, of the event of a submission
\* that is not marked and of one that is
MayPublish(s) ==
    IF s \in raised THEN Cardinality(Unaware(s)) ELSE Cardinality(Group \ Marking(s)) + Unassigned

RepeatsFit == \A s \in Submissions : events[s] + MayPublish(s) <= 1 + mishaps + faults

ScanIInv ==
    /\ IInv /\ ScanTypeOK
    /\ \A i \in Instances : StepFits(i)
    /\ RaisedFits /\ HandledMeansDone /\ RepeatsFit

\* A message the handler has in hand tells of a submission.
LEMMA InHand ==
  ASSUME NEW i \in Instances, log[current[i]] \in Payloads
  PROVE  Sub(i) \in Submissions /\ Result(i) \in Results /\ log[current[i]] = <<Sub(i), Result(i)>>
BY DEF Sub, Result

\* The handler goes on, returns or throws.
LEMMA HandlerGoes ==
  ASSUME NEW i \in Instances, Handle(i) \/ HandleFails(i)
  PROVE  /\ pc[i] = "handle"
         /\ \/ UNCHANGED vars /\ \E x \in Steps \ {"update"} : step' = [step EXCEPT ![i] = x]
            \/ /\ step' = [step EXCEPT ![i] = "update"]
               /\ HandlerReturns(i) \/ HandlerThrows(i)
<1> USE DEF Goto, Returns, Throws, At, Steps
<1>1. CASE SkipInfected(i) \/ UpdateUrl(i)
  BY <1>1 DEF SkipInfected, UpdateUrl, AfterQueue
<1>2. CASE Queue(i)
  BY <1>2 DEF Queue, AfterQueue
<1>3. CASE Dispatch(i) \/ Reviews(i) \/ ReviewsFail(i)
  BY <1>3 DEF Dispatch, AfterQueue, Reviews, ReviewsFail
<1>4. CASE Publish(i) \/ Mark(i) \/ MarkFails(i)
  BY <1>4 DEF Publish, Mark, MarkFails
<1>5. CASE CallFails(i)
  BY <1>5 DEF CallFails
<1>6. QED
  BY <1>1, <1>2, <1>3, <1>4, <1>5 DEF Handle, HandleFails

\* What KafkaDelivery does around the handler
LEMMA DeliverSteps ==
  ASSUME NEW i \in Instances, Deliver(i)
  PROVE  \/ step' = step /\ (Assign(i) \/ Process(i) \/ Rebalance(i) \/ BuryFails(i) \/ CommitFails(i))
         \/ step' = [step EXCEPT ![i] = "update"] /\ Crash(i)
BY DEF Deliver

LEMMA ScanStepDelivers ==
  ASSUME [ScanNext]_allVars
  PROVE  [Next]_vars
<1>1. ASSUME NEW i \in Instances, Handle(i) \/ HandleFails(i) PROVE [Next]_vars
  BY <1>1, HandlerGoes DEF Next, Handler
<1>2. ASSUME NEW i \in Instances, Deliver(i) PROVE [Next]_vars
  BY <1>2, DeliverSteps DEF Next, Trouble
<1>3. ASSUME NEW s \in Submissions, AiPasses(s) PROVE [Next]_vars
  BY <1>3 DEF AiPasses
<1>4. QED
  BY <1>1, <1>2, <1>3 DEF ScanNext, allVars

\* The consumer of submission.scan.complete is an instance of the abstract
\* consumer of KafkaDelivery: what is proved of every handler holds of this one.
THEOREM ScanImplementsDelivery == ScanSpec => Spec
<1>1. ScanInit => Init
  BY DEF ScanInit
<1>2. [ScanNext]_allVars => [Next]_vars
  BY ScanStepDelivers
<1>3. QED
  BY <1>1, <1>2, PTL DEF ScanSpec, Spec

-----------------------------------------------------------------------------
(* ScanComplete: what the handler leaves behind stays.                     *)

\* What a handler that goes on, or ends, leaves of the records
LEMMA HandlerRecords ==
  ASSUME ScanIInv, NEW i \in Instances, Handle(i) \/ HandleFails(i)
  PROVE  /\ Sub(i) \in Submissions
         /\ scanned' = scanned \/ scanned' = scanned \cup {Sub(i)}
         /\ seen' \in [Instances -> BOOLEAN] /\ \A j \in Instances \ {i} : seen'[j] = seen[j]
         /\ rows' = rows \/ \E x \in {"queued", "dispatched"} : rows' = [rows EXCEPT ![Sub(i)] = x]
         /\ passed' = passed
         /\ pending' = pending \/ pending' = pending \cup {Sub(i)}
         /\ raised' = raised \/ raised' = raised \cup {Sub(i)}
         /\ events' = events \/ Announce(Sub(i))
         /\ mishaps' = mishaps \/ (mishaps < MaxMishaps /\ mishaps' = mishaps + 1)
<1>0. /\ Sub(i) \in Submissions /\ seen \in [Instances -> BOOLEAN]
  BY HandlerGoes, InHand DEF ScanIInv, StepFits, ScanTypeOK
<1> USE <1>0 DEF records
<1>1. CASE SkipInfected(i)
  BY <1>1 DEF SkipInfected
<1>2. CASE UpdateUrl(i)
  <2>1. RowUpdate(i) /\ UNCHANGED <<rows, passed, pending, raised, events, mishaps>>
    BY <1>2 DEF UpdateUrl
  <2>2. CASE Result(i) = "clean"
    <3>1. (Sub(i) \in raised) \in BOOLEAN /\ seen' = [seen EXCEPT ![i] = Sub(i) \in raised]
      BY <2>1, <2>2 DEF RowUpdate
    <3>2. seen' \in [Instances -> BOOLEAN] /\ \A j \in Instances \ {i} : seen'[j] = seen[j]
      BY <3>1, Zenon
    <3>3. QED
      BY <2>1, <2>2, <3>2 DEF RowUpdate
  <2>3. QED
    BY <2>1, <2>2 DEF RowUpdate
<1>3. CASE Queue(i)
  BY <1>3 DEF Queue
<1>4. CASE Dispatch(i)
  BY <1>4 DEF Dispatch
<1>5. CASE Reviews(i)
  BY <1>5 DEF Reviews, EnsurePending
<1>6. CASE Publish(i)
  BY <1>6 DEF Publish
<1>7. CASE Mark(i)
  BY <1>7 DEF Mark
<1>8. CASE ReviewsFail(i) \/ MarkFails(i)
  BY <1>8 DEF ReviewsFail, MarkFails, Mishap
<1>9. CASE CallFails(i)
  BY <1>9 DEF CallFails, Mishap
<1>10. QED
  BY <1>1, <1>2, <1>3, <1>4, <1>5, <1>6, <1>7, <1>8, <1>9 DEF Handle, HandleFails

\* An instance that is in its handler stays where it is, or starts anew, while
\* KafkaDelivery does its part; the others do not move.
LEMMA InstancesStay ==
  ASSUME ScanIInv, NEW i \in Instances, Deliver(i), NEW j \in Instances
  PROVE  /\ log' = log
         /\ j # i => step'[j] = step[j] /\ pc'[j] = pc[j] /\ current'[j] = current[j]
         /\ step'[j] # "update" => step'[j] = step[j] /\ pc'[j] = pc[j] /\ current'[j] = current[j]
<1>0. TypeOK /\ ScanTypeOK
  BY DEF ScanIInv, IInv
<1> USE <1>0 DEF TypeOK, ScanTypeOK
<1>1. CASE step' = [step EXCEPT ![i] = "update"] /\ Crash(i)
  BY <1>1 DEF Crash
<1>2. CASE step' = step /\ (Assign(i) \/ Rebalance(i))
  BY <1>2 DEF Assign, Rebalance
<1>3. CASE step' = step /\ (Process(i) \/ BuryFails(i) \/ CommitFails(i))
  <2>1. /\ log' = log /\ step' = step /\ pc[i] # "handle"
        /\ j # i => pc'[j] = pc[j] /\ current'[j] = current[j]
    BY <1>3 DEF Process, Receive, Fetch, WaitOver, Bury, Commit, Done, BuryFails, CommitFails
  <2>2. QED
    BY <2>1
<1> HIDE DEF TypeOK, ScanTypeOK
<1>4. QED
  BY <1>1, <1>2, <1>3, DeliverSteps, Zenon

LEMMA ScanTypeStep ==
  ASSUME ScanIInv, [ScanNext]_allVars
  PROVE  ScanTypeOK'
<1>0. IInv /\ ScanTypeOK
  BY DEF ScanIInv
<1>1. TypeOK'
  BY <1>0, ScanStepDelivers, TypeStep
<1>2. ASSUME NEW i \in Instances, Handle(i) \/ HandleFails(i), setup' = setup PROVE ScanTypeOK'
  <2>1. /\ step' \in [Instances -> Steps]
        /\ \A j \in Instances : step'[j] = "update" \/ pc'[j] = "handle"
    BY <1>0, <1>2, HandlerGoes DEF ScanTypeOK, TypeOK, vars, HandlerReturns, HandlerThrows, Steps
  <2>2. rows' \in [Submissions -> {"none", "queued", "dispatched"}]
    BY <1>0, <1>2, HandlerRecords DEF ScanTypeOK
  <2>3. events' \in [Submissions -> Nat]
    BY <1>0, <1>2, HandlerRecords DEF ScanTypeOK, Announce
  <2>4. mishaps' \in 0..MaxMishaps
    BY <1>0, <1>2, HandlerRecords DEF ScanTypeOK
  <2>5. QED
    BY <1>0, <1>1, <1>2, <2>1, <2>2, <2>3, <2>4, HandlerRecords DEF ScanTypeOK
<1>3. ASSUME NEW i \in Instances, Deliver(i), UNCHANGED <<seen, records, mishaps>>, setup' = setup
      PROVE  ScanTypeOK'
  <2>1. step' \in [Instances -> Steps]
    BY <1>0, <1>3, DeliverSteps DEF ScanTypeOK, Steps
  <2>2. ASSUME NEW j \in Instances PROVE step'[j] = "update" \/ pc'[j] = "handle"
    BY <1>0, <1>3, InstancesStay DEF ScanTypeOK
  <2>3. QED
    BY <1>0, <1>1, <1>3, <2>1, <2>2 DEF ScanTypeOK, records
<1>4. ASSUME NEW s \in Submissions, AiPasses(s), setup' = setup PROVE ScanTypeOK'
  BY <1>0, <1>1, <1>4 DEF AiPasses, ScanTypeOK, vars
<1>5. CASE UNCHANGED allVars
  BY <1>0, <1>1, <1>5 DEF allVars, vars, handler, records, ScanTypeOK
<1>6. QED
  BY <1>2, <1>3, <1>4, <1>5 DEF ScanNext

\* Nothing that has been done for a submission is undone.
LEMMA RecordsGrow ==
  ASSUME ScanIInv, [ScanNext]_allVars
  PROVE  /\ scanned \subseteq scanned' /\ raised \subseteq raised' /\ pending \subseteq pending'
         /\ \A s \in Submissions : /\ rows[s] # "none" => rows'[s] # "none"
                                   /\ events[s] <= events'[s]
         /\ mishaps <= mishaps' /\ setup' = setup
<1>0. ScanTypeOK
  BY DEF ScanIInv
<1>1. ASSUME NEW i \in Instances, Handle(i) \/ HandleFails(i)
      PROVE  /\ scanned \subseteq scanned' /\ raised \subseteq raised' /\ pending \subseteq pending'
             /\ \A s \in Submissions : /\ rows[s] # "none" => rows'[s] # "none"
                                       /\ events[s] <= events'[s]
             /\ mishaps <= mishaps'
  <2>1. /\ rows' = rows \/ \E x \in {"queued", "dispatched"} : rows' = [rows EXCEPT ![Sub(i)] = x]
        /\ events' = events \/ Announce(Sub(i))
    BY <1>1, HandlerRecords
  <2>2. \A s \in Submissions : rows[s] # "none" => rows'[s] # "none"
    BY <1>0, <2>1 DEF ScanTypeOK
  <2>3. \A s \in Submissions : events[s] <= events'[s]
    BY <1>0, <2>1 DEF ScanTypeOK, Announce
  <2>4. QED
    BY <1>0, <1>1, <2>2, <2>3, HandlerRecords DEF ScanTypeOK
<1>2. ASSUME NEW s \in Submissions, AiPasses(s)
      PROVE  pending \subseteq pending' /\ UNCHANGED <<scanned, rows, raised, events, mishaps>>
  BY <1>2 DEF AiPasses
<1>3. QED
  BY <1>0, <1>1, <1>2 DEF ScanNext, ScanTypeOK, allVars, handler, records

LEMMA DoneStays ==
  ASSUME ScanIInv, [ScanNext]_allVars, NEW s \in Submissions
  PROVE  /\ RunsDone(s) => RunsDone(s)'
         /\ ReviewsDone(s) => ReviewsDone(s)'
<1>1. /\ pending \subseteq pending' /\ setup' = setup
      /\ rows[s] # "none" => rows'[s] # "none"
  BY RecordsGrow
<1>2. mishaps' = 0 => mishaps = 0
  BY RecordsGrow DEF ScanIInv, ScanTypeOK
<1>3. QED
  BY <1>1, <1>2 DEF RunsDone, ReviewsDone, DispatchAi, ConfigWorkflows, ChallengeWorkflows

\* A message that waits for its handler has been parsed.
LEMMA ParsedStep ==
  ASSUME ScanIInv, [ScanNext]_allVars, NEW j \in Instances, pc'[j] \in {"handle", "wait"}
  PROVE  log'[current'[j]] \in Payloads
<1>0. TypeOK /\ Behind(j) /\ (pc[j] \in {"handle", "wait"} => log[current[j]] \in Payloads)
  BY DEF ScanIInv, IInv, StepFits
<1>1. [Next]_vars
  BY ScanStepDelivers
<1>2. CASE UNCHANGED vars
  BY <1>0, <1>2 DEF vars
<1>3. ASSUME NEW i \in Instances, Assign(i) \/ Rebalance(i) PROVE log'[current'[j]] \in Payloads
  BY <1>0, <1>3 DEF Assign, Rebalance
<1>4. ASSUME Receive(j) PROVE log'[current'[j]] \in Payloads
  <2>1. /\ next[j] \in Offsets /\ current'[j] = next[j] /\ log' = log
        /\ pc'[j] = IF log[next[j]] = Garbled THEN "bury" ELSE "handle"
    BY <1>0, <1>4 DEF Receive, Fetch, TypeOK
  <2>2. QED
    BY <1>0, <2>1 DEF TypeOK
<1>5. ASSUME HandlerReturns(j) \/ HandlerThrows(j) \/ WaitOver(j) \/ Bury(j) \/ BuryFails(j)
      PROVE  log'[current'[j]] \in Payloads
  BY <1>0, <1>5 DEF HandlerReturns, HandlerThrows, WaitOver, Bury, BuryFails, TypeOK
<1>6. ASSUME Commit(j) \/ CommitFails(j) \/ Crash(j) PROVE log'[current'[j]] \in Payloads
  BY <1>0, <1>6 DEF Commit, CommitFails, Crash, Done, TypeOK
<1>7. ASSUME NEW i \in Instances \ {j}, Process(i) \/ Handler(i) \/ Trouble(i)
      PROVE  log'[current'[j]] \in Payloads
  <2>1. UNCHANGED <<log, pc[j], current[j]>>
    BY <1>0, <1>7 DEF Process, Handler, Trouble, Receive, Fetch, WaitOver, Bury, Commit, Done,
       HandlerReturns, HandlerThrows, CanRetry, Rebalance, Crash, BuryFails, CommitFails, TypeOK
  <2>2. QED
    BY <1>0, <2>1
<1>8. QED
  BY <1>1, <1>2, <1>3, <1>4, <1>5, <1>6, <1>7 DEF Next, Process, Handler, Trouble

\* An instance that does not move still stands where its records say.
LEMMA FitsStay ==
  ASSUME ScanIInv, [ScanNext]_allVars, NEW j \in Instances,
         UNCHANGED <<log, pc[j], current[j], step[j], seen[j]>>
  PROVE  StepFits(j)'
<1>0. StepFits(j) /\ Sub(j)' = Sub(j) /\ Result(j)' = Result(j)
  BY DEF ScanIInv, Sub, Result
<1>1. CASE step[j] = "update"
  BY <1>0, <1>1 DEF StepFits
<1>2. CASE step[j] # "update"
  <2>1. Sub(j) \in Submissions
    BY <1>0, <1>2, InHand DEF StepFits
  <2>2. RunsDone(Sub(j)) => RunsDone(Sub(j))'
    BY <1>0, <2>1, DoneStays
  <2>3. ReviewsDone(Sub(j)) => ReviewsDone(Sub(j))'
    BY <1>0, <2>1, DoneStays
  <2>4. /\ scanned \subseteq scanned' /\ raised \subseteq raised' /\ setup' = setup
        /\ rows[Sub(j)] # "none" => rows'[Sub(j)] # "none"
        /\ events[Sub(j)] > 0 => events'[Sub(j)] > 0
    <3>1. events[Sub(j)] \in Nat /\ events'[Sub(j)] \in Nat
      BY <2>1, ScanTypeStep DEF ScanIInv, ScanTypeOK
    <3>2. QED
      BY <2>1, <3>1, RecordsGrow
  <2>5. QED
    BY <1>0, <1>2, <2>2, <2>3, <2>4 DEF StepFits, DispatchAi
<1>3. QED
  BY <1>1, <1>2

LEMMA FitsAtStart ==
  ASSUME ScanIInv, [ScanNext]_allVars, NEW j \in Instances, step'[j] = "update"
  PROVE  StepFits(j)'
BY ParsedStep DEF StepFits

\* Each step of the handler does its part before the next one begins.
LEMMA HandlerFits ==
  ASSUME ScanIInv, NEW i \in Instances, Handle(i) \/ HandleFails(i), setup' = setup,
         UNCHANGED vars
  PROVE  StepFits(i)' \/ step'[i] = "update"
<1>0. /\ ScanTypeOK /\ StepFits(i) /\ pc[i] = "handle"
      /\ Sub(i) \in Submissions /\ Result(i) \in Results
      /\ Sub(i)' = Sub(i) /\ Result(i)' = Result(i)
      /\ log[current[i]] \in Payloads /\ log'[current'[i]] \in Payloads /\ pc'[i] = "handle"
  BY HandlerGoes, InHand DEF ScanIInv, StepFits, vars, Sub, Result
<1> DEFINE s == Sub(i)
<1>1. RunsDone(s) <=> (DispatchAi /\ (ConfigWorkflows \/ ChallengeWorkflows) => rows[s] # "none")
  BY DEF RunsDone
<1>2. UNCHANGED <<DispatchAi, ConfigWorkflows, ChallengeWorkflows, RapidChallenge>>
  BY DEF DispatchAi, ConfigWorkflows, ChallengeWorkflows, RapidChallenge
<1> USE <1>0 DEF StepFits, At, Goto, Returns
<1>3. CASE SkipInfected(i) \/ Mark(i) \/ MarkFails(i) \/ CallFails(i)
  BY <1>3 DEF SkipInfected, Mark, MarkFails, CallFails, Throws, ScanTypeOK
<1>4. CASE UpdateUrl(i)
  <2>1. /\ step[i] = "update" /\ Result(i) # "infected" /\ raised' = raised
        /\ Result(i) = "clean" => s \in scanned' /\ seen'[i] = (s \in raised)
    BY <1>4 DEF UpdateUrl, RowUpdate, ScanTypeOK
  <2>2. \/ step'[i] = "update"
        \/ step'[i] = "queue" /\ DispatchAi
        \/ step'[i] = "reviews" /\ ~DispatchAi /\ Result(i) # "nourl"
    BY <1>4 DEF UpdateUrl, AfterQueue, ScanTypeOK
  <2>3. ~DispatchAi => RunsDone(s)'
    BY <1>2 DEF RunsDone
  <2>4. QED
    BY <1>2, <2>1, <2>2, <2>3 DEF Results
<1>5. CASE Queue(i)
  <2>1. step[i] = "queue" /\ UNCHANGED <<seen, scanned, raised>>
    BY <1>5 DEF Queue
  <2>2. \/ step'[i] = "update"
        \/ step'[i] = "dispatch" /\ rows'[s] = "queued"
        \/ /\ step'[i] = "reviews" /\ Result(i) # "nourl" /\ rows' = rows
           /\ ~(ConfigWorkflows \/ ChallengeWorkflows) \/ rows[s] # "none"
    BY <1>5 DEF Queue, AfterQueue, ScanTypeOK
  <2>3. (~(ConfigWorkflows \/ ChallengeWorkflows) \/ rows'[s] # "none") => RunsDone(s)'
    BY <1>2 DEF RunsDone
  <2>4. QED
    BY <1>2, <2>1, <2>2, <2>3 DEF Results
<1>6. CASE Dispatch(i)
  <2>1. /\ step[i] = "dispatch" /\ UNCHANGED <<seen, scanned, raised>> /\ rows'[s] = "dispatched"
        /\ step'[i] = "update" \/ (step'[i] = "reviews" /\ Result(i) # "nourl")
    BY <1>6 DEF Dispatch, AfterQueue, ScanTypeOK
  <2>2. RunsDone(s)'
    BY <2>1 DEF RunsDone
  <2>3. QED
    BY <2>1, <2>2 DEF Results
<1>7. CASE Reviews(i) \/ ReviewsFail(i)
  <2>1. /\ step[i] = "reviews" /\ step'[i] = "publish" /\ UNCHANGED <<seen, scanned, raised, rows>>
    BY <1>7 DEF Reviews, ReviewsFail, records, ScanTypeOK
  <2>2. RunsDone(s)'
    BY <1>1, <1>2, <2>1 DEF RunsDone
  <2>3. ReviewsDone(s)'
    <3>1. CASE Reviews(i)
      BY <1>2, <2>1, <3>1 DEF Reviews, EnsurePending, ReviewsDone
    <3>2. CASE ReviewsFail(i)
      BY <3>2 DEF ReviewsFail, Mishap, ReviewsDone, ScanTypeOK
    <3>3. QED
      BY <1>7, <3>1, <3>2
  <2>4. QED
    BY <2>1, <2>2, <2>3
<1>8. CASE Publish(i)
  <2>1. /\ step[i] = "publish" /\ UNCHANGED <<seen, scanned, raised, rows, pending, mishaps>>
        /\ step'[i] = "update" \/ (step'[i] = "mark" /\ events'[s] = events[s] + 1)
    BY <1>8 DEF Publish, Announce, ScanTypeOK
  <2>2. RunsDone(s)' /\ ReviewsDone(s)'
    BY <1>1, <1>2, <2>1 DEF RunsDone, ReviewsDone
  <2>3. events[s] + 1 > 0
    BY DEF ScanTypeOK
  <2>4. QED
    BY <2>1, <2>2, <2>3
<1>9. QED
  BY <1>3, <1>4, <1>5, <1>6, <1>7, <1>8 DEF Handle, HandleFails

LEMMA StepFitsStep ==
  ASSUME ScanIInv, [ScanNext]_allVars, NEW j \in Instances
  PROVE  StepFits(j)'
<1>0. ScanTypeOK /\ TypeOK
  BY DEF ScanIInv, IInv
<1>1. ASSUME NEW i \in Instances, Handle(i) \/ HandleFails(i), setup' = setup PROVE StepFits(j)'
  <2>1. step'[i] = "update" \/ UNCHANGED vars
    BY <1>0, <1>1, HandlerGoes DEF ScanTypeOK
  <2>2. CASE j = i
    BY <1>1, <2>1, <2>2, HandlerFits, FitsAtStart
  <2>3. CASE j # i
    <3>1. step'[j] = step[j] /\ UNCHANGED <<log, pc[j], current[j]>>
      BY <1>0, <1>1, <2>3, HandlerGoes DEF ScanTypeOK, TypeOK, vars, HandlerReturns, HandlerThrows
    <3>2. seen'[j] = seen[j]
      BY <1>1, <2>3, HandlerRecords
    <3>3. QED
      BY <3>1, <3>2, FitsStay
  <2>4. QED
    BY <2>2, <2>3
<1>2. ASSUME NEW i \in Instances, Deliver(i), seen' = seen PROVE StepFits(j)'
  BY <1>2, InstancesStay, FitsStay, FitsAtStart
<1>3. CASE UNCHANGED <<vars, step, seen>>
  BY <1>3, FitsStay DEF vars
<1>4. QED
  BY <1>1, <1>2, <1>3 DEF ScanNext, AiPasses, allVars, handler

\* What is true of a submission with a clean scan that counts as handled
AllDone(s) == s \in scanned /\ RunsDone(s) /\ (RapidChallenge => events[s] > 0) /\ ReviewsDone(s)

\* A handler that returns has done all of it.
LEMMA ReturnsDone ==
  ASSUME ScanIInv, [ScanNext]_allVars, NEW i \in Instances, Handle(i) \/ HandleFails(i),
         HandlerReturns(i), "handled" \notin fate[current[i]], Result(i) = "clean"
  PROVE  AllDone(Sub(i))'
<1>0. /\ ScanTypeOK /\ StepFits(i) /\ RaisedFits /\ pc[i] = "handle"
      /\ Sub(i) \in Submissions /\ Sub(i)' = Sub(i)
  BY HandlerGoes, InHand DEF ScanIInv, StepFits, HandlerReturns, Sub
<1> DEFINE s == Sub(i)
<1>1. pc'[i] = "commit" /\ pc' # pc
  BY <1>0 DEF HandlerReturns, ScanIInv, IInv, TypeOK
<1>2. Publish(i) \/ Mark(i) \/ MarkFails(i)
  <2>1. ~SkipInfected(i)
    BY <1>0 DEF SkipInfected
  <2>2. ~(UpdateUrl(i) \/ Queue(i) \/ Dispatch(i) \/ Reviews(i) \/ ReviewsFail(i))
    BY <1>1 DEF UpdateUrl, Queue, Dispatch, AfterQueue, Reviews, ReviewsFail, Goto, vars
  <2>3. ~CallFails(i)
    <3>1. CASE HandlerThrows(i)
      <4>1. TypeOK /\ current[i] \in Offsets
        BY <1>0 DEF ScanIInv, IInv, TypeOK, Behind
      <4>2. "handled" \in fate'[current[i]]
        BY <4>1 DEF HandlerReturns, Meets, TypeOK
      <4>3. "handled" \notin fate'[current[i]]
        BY <3>1, <4>1 DEF HandlerThrows, Meets, TypeOK
      <4>4. QED
        BY <4>2, <4>3
    <3>2. QED
      BY <3>1 DEF CallFails, Throws
  <2>4. QED
    BY <2>1, <2>2, <2>3 DEF Handle, HandleFails
<1>3. /\ step[i] \in {"publish", "mark"}
      /\ step[i] = "publish" => ~Publishes(i)
  BY <1>1, <1>2 DEF Publish, Publishes, Mark, MarkFails, At, Goto, vars
<1>4. RapidChallenge => events[s] > 0
  BY <1>0, <1>3 DEF StepFits, Publishes, RaisedFits
<1>5. RunsDone(s) /\ ReviewsDone(s) /\ s \in scanned
  BY <1>0, <1>3 DEF StepFits
<1>6. RunsDone(s)' /\ ReviewsDone(s)'
  <2>1. ASSUME NEW t \in Submissions, RunsDone(t) /\ ReviewsDone(t) PROVE RunsDone(t)' /\ ReviewsDone(t)'
    BY <2>1, DoneStays
  <2>2. PICK t \in Submissions : t = s
    BY <1>0
  <2>3. t' = s'
    BY <1>0, <2>2
  <2>4. QED
    BY <1>5, <2>1, <2>2, <2>3 DEF RunsDone, ReviewsDone
<1>7. events[s] <= events'[s] /\ events[s] \in Nat /\ events'[s] \in Nat /\ RapidChallenge' = RapidChallenge
  BY <1>0, RecordsGrow, ScanTypeStep DEF ScanTypeOK, RapidChallenge
<1>8. s \in scanned'
  BY <1>0, <1>5, RecordsGrow
<1>9. QED
  BY <1>0, <1>4, <1>6, <1>7, <1>8 DEF AllDone

LEMMA AllDoneStays ==
  ASSUME ScanIInv, [ScanNext]_allVars, NEW s \in Submissions, AllDone(s)
  PROVE  AllDone(s)'
<1>1. events[s] <= events'[s] /\ events[s] \in Nat /\ events'[s] \in Nat
  BY RecordsGrow, ScanTypeStep DEF ScanIInv, ScanTypeOK
<1>2. QED
  BY <1>1, RecordsGrow, DoneStays DEF AllDone, RapidChallenge

LEMMA HandledAllDone == HandledMeansDone <=> \A s \in Submissions : HandledClean(s) => AllDone(s)
BY DEF HandledMeansDone, AllDone, RunsDone, ReviewsDone

LEMMA HandledStep ==
  ASSUME ScanIInv, [ScanNext]_allVars
  PROVE  HandledMeansDone'
<1>0. TypeOK
  BY DEF ScanIInv, IInv
<1>1. ASSUME NEW s \in Submissions, HandledClean(s)' PROVE AllDone(s)'
  <2>1. PICK o \in Offsets : log'[o] = <<s, "clean">> /\ "handled" \in fate'[o]
    BY <1>1 DEF HandledClean
  <2>2. log' = log
    BY ScanStepDelivers DEF Next, Process, Handler, Trouble, Assign, Rebalance, Crash, Receive, Fetch,
       WaitOver, Bury, Commit, HandlerReturns, HandlerThrows, BuryFails, CommitFails, vars
  <2>3. CASE "handled" \in fate[o]
    <3>1. AllDone(s)
      BY <2>1, <2>2, <2>3, HandledAllDone DEF HandledClean, ScanIInv
    <3>2. QED
      BY <3>1, AllDoneStays
  <2>4. CASE "handled" \notin fate[o]
    <3>1. ASSUME NEW i \in Instances, Handle(i) \/ HandleFails(i) PROVE AllDone(s)'
      <4>1. HandlerReturns(i) /\ o = current[i]
        <5>1. CASE UNCHANGED vars
          BY <2>1, <2>4, <5>1 DEF vars
        <5>2. CASE HandlerThrows(i)
          BY <1>0, <2>1, <2>4, <5>2 DEF HandlerThrows, Meets, TypeOK
        <5>3. CASE HandlerReturns(i)
          BY <1>0, <2>1, <2>4, <5>3 DEF HandlerReturns, Meets, TypeOK
        <5>4. QED
          BY <3>1, <5>1, <5>2, <5>3, HandlerGoes
      <4>2. Sub(i) = s /\ Result(i) = "clean" /\ Sub(i)' = s
        BY <2>1, <2>2, <4>1 DEF Sub, Result, HandlerReturns
      <4>3. AllDone(Sub(i))'
        BY <2>4, <3>1, <4>1, <4>2, ReturnsDone
      <4>4. QED
        BY <4>2, <4>3 DEF AllDone, RunsDone, ReviewsDone
    <3>2. ASSUME NEW i \in Instances, Deliver(i) PROVE FALSE
      BY <1>0, <2>1, <2>4, <3>2, DeliverSteps DEF Assign, Process, Rebalance, Crash, Receive, WaitOver,
         Bury, Commit, BuryFails, CommitFails, Meets, TypeOK
    <3>3. CASE UNCHANGED vars
      BY <2>1, <2>4, <3>3 DEF vars
    <3>4. QED
      BY <3>1, <3>2, <3>3 DEF ScanNext, AiPasses, allVars
  <2>5. QED
    BY <2>3, <2>4
<1>2. HandledMeansDone' <=> \A s \in Submissions : HandledClean(s)' => AllDone(s)'
  BY DEF HandledMeansDone, AllDone, RunsDone, ReviewsDone
<1>3. QED
  BY <1>1, <1>2

\* A submission is marked only when its event has been published.
LEMMA RaisedStep ==
  ASSUME ScanIInv, [ScanNext]_allVars
  PROVE  RaisedFits'
<1>0. ScanTypeOK /\ RaisedFits /\ \A i \in Instances : StepFits(i)
  BY DEF ScanIInv
<1>1. ASSUME NEW s \in Submissions, events[s] > 0 PROVE events'[s] > 0
  <2>1. events[s] \in Nat /\ events'[s] \in Nat /\ events[s] <= events'[s]
    BY RecordsGrow, ScanTypeStep DEF ScanIInv, ScanTypeOK
  <2>2. QED
    BY <1>1, <2>1
<1>2. CASE raised' = raised
  BY <1>0, <1>1, <1>2 DEF RaisedFits, ScanTypeOK
<1>3. ASSUME NEW i \in Instances, Mark(i) PROVE RaisedFits'
  <2>1. /\ raised' = raised \cup {Sub(i)} /\ events[Sub(i)] > 0 /\ pc[i] = "handle"
    BY <1>0, <1>3 DEF Mark, At, StepFits
  <2>2. Sub(i) \in Submissions
    BY <1>0, <2>1, InHand DEF StepFits
  <2>3. QED
    BY <1>0, <1>1, <2>1, <2>2 DEF RaisedFits, ScanTypeOK
<1>4. ASSUME NEW i \in Instances, HandleFails(i) \/ (Handle(i) /\ ~Mark(i)) PROVE raised' = raised
  BY <1>4 DEF Handle, HandleFails, SkipInfected, UpdateUrl, Queue, Dispatch, Reviews, Publish, ReviewsFail,
     MarkFails, CallFails, records
<1>5. QED
  BY <1>2, <1>3, <1>4 DEF ScanNext, AiPasses, allVars, handler, records

-----------------------------------------------------------------------------
(* ScanComplete: how often an event may be published.                      *)

LEMMA Sizes ==
  ASSUME NEW S \in SUBSET Instances, NEW T \in SUBSET Instances, NEW i \in Instances
  PROVE  /\ Cardinality(S) \in Nat
         /\ S \subseteq T => Cardinality(S) <= Cardinality(T)
         /\ S \subseteq T \cup {i} => Cardinality(S) <= Cardinality(T) + 1
         /\ S \subseteq T \ {i} /\ i \in T => Cardinality(S) + 1 <= Cardinality(T)
<1>1. IsFiniteSet(S) /\ IsFiniteSet(T) /\ IsFiniteSet(T \cup {i}) /\ IsFiniteSet(T \ {i})
  <2>1. IsFiniteSet(S) /\ IsFiniteSet(T)
    BY GroupAssumption, FS_Subset
  <2>2. QED
    BY <2>1, FS_AddElement, FS_RemoveElement
<1>2. /\ Cardinality(S) \in Nat /\ Cardinality(T) \in Nat
      /\ Cardinality(T \cup {i}) \in Nat /\ Cardinality(T \ {i}) \in Nat
  BY <1>1, FS_CardinalityType
<1>3. Cardinality(T \cup {i}) <= Cardinality(T) + 1
  BY <1>1, <1>2, FS_AddElement
<1>4. i \in T => Cardinality(T \ {i}) = Cardinality(T) - 1
  BY <1>1, FS_RemoveElement
<1>5. S \subseteq T => Cardinality(S) <= Cardinality(T)
  BY <1>1, FS_Subset
<1>6. S \subseteq T \cup {i} => Cardinality(S) <= Cardinality(T \cup {i})
  BY <1>1, FS_Subset
<1>7. S \subseteq T \ {i} => Cardinality(S) <= Cardinality(T \ {i})
  BY <1>1, FS_Subset
<1>8. QED
  BY <1>2, <1>3, <1>4, <1>5, <1>6, <1>7

\* A handler that goes on, or ends, leaves the group as it is and moves alone.
LEMMA HandlerMembers ==
  ASSUME ScanIInv, NEW i \in Instances, Handle(i) \/ HandleFails(i), NEW s \in Submissions
  PROVE  /\ Group' = Group /\ i \in Group /\ owner' = owner /\ faults' = faults
         /\ \A j \in Instances \ {i} : /\ j \in Marking(s)' <=> j \in Marking(s)
                                       /\ j \in Unaware(s)' <=> j \in Unaware(s)
         /\ i \in Marking(s)' <=> step'[i] = "mark" /\ Sub(i) = s
         /\ i \in Unaware(s)' <=> /\ step'[i] \in {"queue", "dispatch", "reviews", "publish"}
                                  /\ log[current[i]] = <<s, "clean">> /\ ~seen'[i]
<1>0. TypeOK /\ ScanTypeOK
  BY DEF ScanIInv, IInv
<1>1. /\ pc[i] = "handle" /\ pc'[i] # "poll" /\ \A j \in Instances \ {i} : pc'[j] = pc[j]
      /\ UNCHANGED <<log, owner, next, current, faults>>
  BY <1>0, HandlerGoes DEF HandlerReturns, HandlerThrows, CanRetry, TypeOK, vars
<1>2. \A j \in Instances \ {i} : step'[j] = step[j] /\ seen'[j] = seen[j]
  BY <1>0, HandlerGoes, HandlerRecords DEF ScanTypeOK
<1>3. Group' = Group /\ i \in Group
  BY <1>1 DEF Group
<1>4. \A j \in Instances : Sub(j)' = Sub(j)
  BY <1>1 DEF Sub
<1>5. QED
  BY <1>1, <1>2, <1>3, <1>4 DEF Marking, Unaware

Quiet(i, s) ==
    /\ UNCHANGED <<events, mishaps, raised>>
    /\ step[i] # "mark" /\ step'[i] # "mark"
    /\ s \in raised /\ i \in Unaware(s)' => i \in Unaware(s)

Announces(i) ==
    /\ Announce(Sub(i)) /\ UNCHANGED <<seen, mishaps, raised>>
    /\ step[i] = "publish" /\ step'[i] = "mark" /\ ~seen[i]

Marks(i) ==
    /\ raised' = raised \cup {Sub(i)} /\ UNCHANGED <<events, mishaps>>
    /\ step[i] = "mark" /\ step'[i] = "update"

Fails(i, s) ==
    /\ mishaps' = mishaps + 1 /\ raised' = raised
    /\ events' = events \/ (Announce(Sub(i)) /\ step[i] # "mark")
    /\ step'[i] # "mark"
    /\ i \in Unaware(s)' => i \in Unaware(s)

\* What a step of the handler has to do with the event of a submission
LEMMA HandlerEffect ==
  ASSUME ScanIInv, NEW i \in Instances, Handle(i) \/ HandleFails(i), NEW s \in Submissions
  PROVE  Quiet(i, s) \/ Announces(i) \/ Marks(i) \/ Fails(i, s)
<1>0. /\ ScanTypeOK /\ StepFits(i)
      /\ Sub(i) \in Submissions /\ log[current[i]] = <<Sub(i), Result(i)>>
  BY HandlerGoes, InHand DEF ScanIInv, StepFits
<1>1. /\ i \in Unaware(s) <=> /\ step[i] \in {"queue", "dispatch", "reviews", "publish"}
                              /\ log[current[i]] = <<s, "clean">> /\ ~seen[i]
      /\ i \in Unaware(s)' <=> /\ step'[i] \in {"queue", "dispatch", "reviews", "publish"}
                               /\ log[current[i]] = <<s, "clean">> /\ ~seen'[i]
  BY HandlerMembers DEF Unaware
<1>2. CASE SkipInfected(i)
  <2>1. step[i] = "update" /\ step'[i] = "update" /\ UNCHANGED <<events, mishaps, raised>>
    BY <1>0, <1>2 DEF SkipInfected, At, Returns, records, ScanTypeOK
  <2>2. QED
    BY <1>1, <2>1 DEF Quiet
<1>3. CASE UpdateUrl(i)
  <2>1. /\ step[i] = "update" /\ step'[i] # "mark" /\ UNCHANGED <<events, mishaps, raised>>
        /\ Result(i) = "clean" => seen'[i] = (Sub(i) \in raised)
    BY <1>0, <1>3 DEF UpdateUrl, RowUpdate, At, AfterQueue, Returns, Goto, ScanTypeOK
  <2>2. s \in raised => i \notin Unaware(s)'
    <3>1. log[current[i]] = <<s, "clean">> => Sub(i) = s /\ Result(i) = "clean"
      BY DEF Sub, Result
    <3>2. QED
      BY <1>1, <2>1, <3>1
  <2>3. QED
    BY <2>1, <2>2 DEF Quiet
<1>4. CASE Queue(i) \/ Dispatch(i) \/ Reviews(i)
  <2>1. /\ step[i] \in {"queue", "dispatch", "reviews"} /\ step'[i] # "mark"
        /\ UNCHANGED <<seen, events, mishaps, raised>>
    BY <1>0, <1>4 DEF Queue, Dispatch, Reviews, At, AfterQueue, Returns, Goto, ScanTypeOK
  <2>2. QED
    BY <1>1, <2>1 DEF Quiet
<1>5. CASE Publish(i)
  <2>1. step[i] = "publish" /\ UNCHANGED <<seen, mishaps, raised>>
    BY <1>5 DEF Publish, At
  <2>2. CASE Publishes(i)
    BY <1>0, <1>5, <2>1, <2>2 DEF Publish, Publishes, Goto, ScanTypeOK, Announces
  <2>3. CASE ~Publishes(i)
    <3>1. step'[i] = "update" /\ events' = events
      BY <1>0, <1>5, <2>3 DEF Publish, Returns, ScanTypeOK
    <3>2. QED
      BY <1>1, <2>1, <3>1 DEF Quiet
  <2>4. QED
    BY <2>2, <2>3
<1>6. CASE Mark(i)
  BY <1>0, <1>6 DEF Mark, At, Returns, ScanTypeOK, Marks
<1>7. CASE HandleFails(i)
  <2>1. mishaps' = mishaps + 1 /\ UNCHANGED <<raised, seen>>
    BY <1>7 DEF HandleFails, ReviewsFail, MarkFails, CallFails, Mishap, records
  <2>2. \/ step'[i] = "update"
        \/ step[i] = "reviews" /\ step'[i] = "publish"
    BY <1>0, <1>7 DEF HandleFails, ReviewsFail, MarkFails, CallFails, At, Returns, Throws, Goto, ScanTypeOK
  <2>3. events' = events \/ (Announce(Sub(i)) /\ step[i] # "mark")
    BY <1>7 DEF HandleFails, ReviewsFail, MarkFails, CallFails, At, records
  <2>4. QED
    BY <1>1, <2>1, <2>2, <2>3 DEF Fails
<1>8. QED
  BY <1>2, <1>3, <1>4, <1>5, <1>6, <1>7 DEF Handle

LEMMA HandlerRepeats ==
  ASSUME ScanIInv, NEW i \in Instances, Handle(i) \/ HandleFails(i), NEW s \in Submissions
  PROVE  events'[s] + MayPublish(s)' <= 1 + mishaps' + faults'
<1> DEFINE G == Group \ Marking(s)
           U == Unaware(s)
<1>0. /\ ScanTypeOK /\ events[s] \in Nat /\ mishaps \in Nat /\ faults \in Nat
      /\ Sub(i) \in Submissions /\ log[current[i]] = <<Sub(i), Result(i)>>
      /\ events[s] + MayPublish(s) <= 1 + mishaps + faults
  BY HandlerGoes, InHand DEF ScanIInv, IInv, TypeOK, ScanTypeOK, StepFits, RepeatsFit
<1>1. /\ Unassigned \in {0, 1} /\ Unassigned' = Unassigned /\ faults' = faults
  BY HandlerMembers DEF Unassigned
<1>2. /\ G \in SUBSET Instances /\ G' \in SUBSET Instances
      /\ U \in SUBSET Instances /\ U' \in SUBSET Instances
  BY DEF Group, Unaware
<1>3. /\ Cardinality(G) \in Nat /\ Cardinality(G') \in Nat
      /\ Cardinality(U) \in Nat /\ Cardinality(U') \in Nat
  BY <1>2, Sizes
<1>4. CASE Quiet(i, s)
  <2>1. G' \subseteq G /\ (s \in raised => U' \subseteq U)
    BY <1>2, <1>4, HandlerMembers DEF Quiet, Marking
  <2>2. Cardinality(G') <= Cardinality(G) /\ (s \in raised => Cardinality(U') <= Cardinality(U))
    BY <1>2, <2>1, Sizes
  <2>3. events'[s] = events[s] /\ mishaps' = mishaps /\ raised' = raised
    BY <1>4 DEF Quiet
  <2>4. QED
    BY <1>0, <1>1, <1>3, <2>2, <2>3 DEF MayPublish
<1>5. CASE Announces(i)
  <2>1. G' \subseteq G /\ U' \subseteq U /\ raised' = raised /\ mishaps' = mishaps
    BY <1>2, <1>5, HandlerMembers DEF Announces, Marking, Unaware
  <2>2. CASE Sub(i) = s
    <3>1. events'[s] = events[s] + 1
      BY <1>0, <1>5, <2>2 DEF Announces, Announce, ScanTypeOK
    <3>2. i \in G /\ i \notin G'
      BY <1>5, <2>2, HandlerMembers DEF Announces, Marking
    <3>3. i \in U /\ i \notin U'
      <4>1. Result(i) = "clean"
        BY <1>5 DEF Announces, ScanIInv, StepFits
      <4>2. QED
        BY <1>0, <1>5, <2>2, <4>1, HandlerMembers DEF Announces, Unaware
    <3>4. Cardinality(G') + 1 <= Cardinality(G) /\ Cardinality(U') + 1 <= Cardinality(U)
      BY <1>2, <2>1, <3>2, <3>3, Sizes
    <3>5. QED
      BY <1>0, <1>1, <1>3, <2>1, <3>1, <3>4 DEF MayPublish
  <2>3. CASE Sub(i) # s
    <3>1. events'[s] = events[s]
      BY <1>0, <1>5, <2>3 DEF Announces, Announce, ScanTypeOK
    <3>2. Cardinality(G') <= Cardinality(G) /\ Cardinality(U') <= Cardinality(U)
      BY <1>2, <2>1, Sizes
    <3>3. QED
      BY <1>0, <1>1, <1>3, <2>1, <3>1, <3>2 DEF MayPublish
  <2>4. QED
    BY <2>2, <2>3
<1>6. CASE Marks(i)
  <2>1. U' \subseteq U /\ events'[s] = events[s] /\ mishaps' = mishaps
    BY <1>2, <1>6, HandlerMembers DEF Marks
  <2>2. U \subseteq G
    BY DEF Unaware, Marking, Group, ScanIInv, StepFits
  <2>3. s # Sub(i) => (G' \subseteq G /\ (s \in raised' <=> s \in raised))
    BY <1>6, HandlerMembers DEF Marks, Marking
  <2>4. s = Sub(i) => s \in raised'
    BY <1>6 DEF Marks
  <2>5. U' \subseteq G
    BY <2>1, <2>2
  <2>6. /\ Cardinality(U') <= Cardinality(U) /\ Cardinality(U') <= Cardinality(G)
        /\ s # Sub(i) => Cardinality(G') <= Cardinality(G)
    BY <1>2, <2>1, <2>3, <2>5, Sizes
  <2>7. QED
    BY <1>0, <1>1, <1>3, <2>1, <2>3, <2>4, <2>6 DEF MayPublish
<1>7. CASE Fails(i, s)
  <2>1. U' \subseteq U /\ G' \subseteq G \cup {i} /\ (step[i] # "mark" => G' \subseteq G)
    BY <1>2, <1>7, HandlerMembers DEF Fails, Marking
  <2>2. /\ Cardinality(U') <= Cardinality(U) /\ Cardinality(G') <= Cardinality(G) + 1
        /\ step[i] # "mark" => Cardinality(G') <= Cardinality(G)
    BY <1>2, <2>1, Sizes
  <2>3. events'[s] = events[s] \/ (events'[s] = events[s] + 1 /\ step[i] # "mark")
    BY <1>0, <1>7 DEF Fails, Announce, ScanTypeOK
  <2>4. mishaps' = mishaps + 1 /\ raised' = raised
    BY <1>7 DEF Fails
  <2>5. QED
    BY <1>0, <1>1, <1>3, <2>2, <2>3, <2>4 DEF MayPublish
<1>8. QED
  BY <1>4, <1>5, <1>6, <1>7, HandlerEffect

LEMMA DeliverRepeats ==
  ASSUME ScanIInv, NEW i \in Instances, Deliver(i), UNCHANGED <<seen, records, mishaps>>,
         NEW s \in Submissions
  PROVE  events'[s] + MayPublish(s)' <= 1 + mishaps' + faults'
<1> DEFINE G == Group \ Marking(s)
           U == Unaware(s)
<1>0. /\ TypeOK /\ ScanTypeOK /\ events[s] \in Nat /\ mishaps \in Nat /\ faults \in Nat
      /\ events[s] + MayPublish(s) <= 1 + mishaps + faults
      /\ UNCHANGED <<events, raised, mishaps>>
  BY DEF ScanIInv, IInv, TypeOK, ScanTypeOK, RepeatsFit, records
<1>1. /\ G \in SUBSET Instances /\ G' \in SUBSET Instances
      /\ U \in SUBSET Instances /\ U' \in SUBSET Instances
  BY DEF Group, Unaware
<1>2. /\ Cardinality(G) \in Nat /\ Cardinality(G') \in Nat
      /\ Cardinality(U) \in Nat /\ Cardinality(U') \in Nat
  BY <1>1, Sizes
<1>3. \A j \in Instances : j # i => /\ step'[j] = step[j] /\ Sub(j)' = Sub(j)
                                    /\ log'[current'[j]] = log[current[j]] /\ pc'[j] = pc[j]
  BY InstancesStay DEF Sub
<1>4. U' \subseteq U
  <2>1. ASSUME NEW j \in U' PROVE j \in U
    <3>1. step'[j] \in {"queue", "dispatch", "reviews", "publish"} /\ j \in Instances
      BY DEF Unaware
    <3>2. step'[j] = step[j] /\ current'[j] = current[j] /\ log' = log
      BY <3>1, InstancesStay
    <3>3. QED
      BY <3>1, <3>2 DEF Unaware
  <2>2. QED
    BY <2>1
<1>5. /\ Unassigned \in {0, 1} /\ Unassigned' \in {0, 1}
      /\ Cardinality(U') <= Cardinality(U)
  BY <1>1, <1>4, Sizes DEF Unassigned
<1>6. CASE Assign(i)
  <2>1. Unassigned = 1 /\ Unassigned' = 0 /\ faults' = faults
    BY <1>6, ValuesAssumption DEF Assign, StartsAt, Unassigned
  <2>2. step' = step
    BY <1>6, DeliverSteps, ValuesAssumption DEF Assign, Crash, StartsAt
  <2>3. G' \subseteq G \cup {i}
    BY <1>0, <1>6, <2>2 DEF Assign, StartsAt, Group, Marking, Sub, TypeOK
  <2>4. Cardinality(G') <= Cardinality(G) + 1
    BY <1>1, <2>3, Sizes
  <2>5. QED
    BY <1>0, <1>2, <1>5, <2>1, <2>4 DEF MayPublish
<1>7. CASE Rebalance(i)
  <2>1. Unassigned = 0 /\ Unassigned' = 0 /\ faults' = faults + 1
    BY <1>7, ValuesAssumption DEF Rebalance, StartsAt, Fault, Unassigned
  <2>2. step' = step
    BY <1>7, DeliverSteps, ValuesAssumption DEF Rebalance, Crash, StartsAt
  <2>3. G' \subseteq G \cup {i}
    BY <1>0, <1>7, <2>2 DEF Rebalance, StartsAt, Group, Marking, Sub, TypeOK
  <2>4. Cardinality(G') <= Cardinality(G) + 1
    BY <1>1, <2>3, Sizes
  <2>5. QED
    BY <1>0, <1>2, <1>5, <2>1, <2>4 DEF MayPublish
<1>8. CASE Crash(i)
  <2>1. faults' = faults + 1
    BY <1>8 DEF Crash, Fault
  <2>2. i \notin Group' /\ \A j \in Instances \ {i} : next'[j] = next[j]
    BY <1>0, <1>8 DEF Crash, Group, TypeOK
  <2>3. G' \subseteq G
    BY <1>3, <2>2 DEF Group, Marking
  <2>4. Cardinality(G') <= Cardinality(G)
    BY <1>1, <2>3, Sizes
  <2>5. QED
    BY <1>0, <1>2, <1>5, <2>1, <2>4 DEF MayPublish
<1>9. CASE Process(i) \/ BuryFails(i) \/ CommitFails(i)
  <2>1. /\ owner' = owner
        /\ faults' = faults \/ faults' = faults + 1
        /\ pc[i] \notin {"handle"} /\ (next' = next \/ Receive(i))
    BY <1>9 DEF Process, Receive, Fetch, WaitOver, Bury, Commit, BuryFails, CommitFails, Fault
  <2>2. \A j \in Group' : j \in Group
    <3>1. ASSUME NEW j \in Instances, j # i, j \in Group' PROVE j \in Group
      <4>1. next'[j] = next[j]
        BY <1>0, <2>1, <3>1 DEF Receive, Fetch, TypeOK
      <4>2. QED
        BY <1>3, <3>1, <4>1 DEF Group
    <3>2. ASSUME i \in Group' PROVE i \in Group
      BY <1>0, <1>9, <3>2, ValuesAssumption DEF Group, Process, Receive, Fetch, WaitOver, Bury, Commit,
         BuryFails, CommitFails, Offsets
    <3>3. QED
      BY <3>1, <3>2 DEF Group
  <2>3. i \notin Marking(s)
    BY <1>0, <2>1 DEF Marking, ScanTypeOK
  <2>4. G' \subseteq G
    BY <1>3, <2>2, <2>3 DEF Marking
  <2>5. Unassigned' = Unassigned /\ Cardinality(G') <= Cardinality(G)
    BY <1>1, <2>1, <2>4, Sizes DEF Unassigned
  <2>6. QED
    BY <1>0, <1>2, <1>5, <2>1, <2>5 DEF MayPublish
<1>10. QED
  BY <1>6, <1>7, <1>8, <1>9, DeliverSteps

LEMMA RepeatsStep ==
  ASSUME ScanIInv, [ScanNext]_allVars
  PROVE  RepeatsFit'
<1>1. ASSUME UNCHANGED <<vars, step, seen, raised, events, mishaps>> PROVE RepeatsFit'
  <2>1. ASSUME NEW s \in Submissions PROVE Unaware(s)' = Unaware(s) /\ Marking(s)' = Marking(s)
    BY <1>1 DEF vars, Unaware, Marking, Sub
  <2>2. Group' = Group /\ Unassigned' = Unassigned /\ faults' = faults
    BY <1>1 DEF vars, Group, Unassigned
  <2>3. QED
    BY <1>1, <2>1, <2>2 DEF ScanIInv, RepeatsFit, MayPublish
<1>2. QED
  BY <1>1, HandlerRepeats, DeliverRepeats DEF ScanNext, AiPasses, allVars, handler, records, RepeatsFit

LEMMA ScanInitIInv == ScanInit => ScanIInv
<1> SUFFICES ASSUME ScanInit PROVE ScanIInv
  OBVIOUS
<1>1. IInv
  BY InitIInv DEF ScanInit
<1>2. ScanTypeOK
  BY <1>1 DEF ScanInit, IInv, ScanTypeOK, Steps
<1>3. (\A i \in Instances : StepFits(i)) /\ RaisedFits /\ HandledMeansDone
  BY DEF ScanInit, Init, StepFits, RaisedFits, HandledMeansDone, HandledClean
<1>4. RepeatsFit
  <2>1. Group = {} /\ Unassigned = 1 /\ faults = 0 /\ mishaps = 0 /\ raised = {}
    BY DEF ScanInit, Init, Group, Unassigned
  <2>2. Cardinality({}) = 0
    BY FS_EmptySet
  <2>3. ASSUME NEW s \in Submissions PROVE events[s] + MayPublish(s) <= 1 + mishaps + faults
    <3>1. events[s] = 0 /\ Group \ Marking(s) = {}
      BY <2>1 DEF ScanInit
    <3>2. QED
      BY <2>1, <2>2, <3>1 DEF MayPublish
  <2>4. QED
    BY <2>3 DEF RepeatsFit
<1>5. QED
  BY <1>1, <1>2, <1>3, <1>4 DEF ScanIInv

LEMMA ScanStep == ScanIInv /\ [ScanNext]_allVars => ScanIInv'
<1> SUFFICES ASSUME ScanIInv, [ScanNext]_allVars PROVE ScanIInv'
  OBVIOUS
<1>1. IInv'
  BY ScanStepDelivers, TypeStep, BehindStep, SkippedStep, GivenUpStep DEF ScanIInv, IInv
<1>2. QED
  BY <1>1, ScanTypeStep, StepFitsStep, RaisedStep, HandledStep, RepeatsStep DEF ScanIInv

\* A clean scan that counts as handled has its submission updated, its AI
\* workflows queued, its reviews opened and its event published, for any number
\* of instances, retries, crashes and rebalances between the steps.
THEOREM HandledIsDone == ScanSpec => []HandledMeansDone
<1>1. ScanIInv => HandledMeansDone
  BY DEF ScanIInv
<1>2. QED
  BY <1>1, ScanInitIInv, ScanStep, PTL DEF ScanSpec

\* Every event published a second time is paid for by a failed call, a crash, a
\* rebalance or a commit that failed.
THEOREM RepeatsAreFaults == ScanSpec => []EventRepeatsAreFaults
<1>1. ScanIInv => EventRepeatsAreFaults
  <2> SUFFICES ASSUME ScanIInv, NEW s \in Submissions PROVE events[s] <= 1 + mishaps + faults
    BY DEF EventRepeatsAreFaults
  <2>1. events[s] \in Nat /\ mishaps \in Nat /\ faults \in Nat
    BY DEF ScanIInv, IInv, TypeOK, ScanTypeOK
  <2>2. events[s] + MayPublish(s) <= 1 + mishaps + faults
    BY DEF ScanIInv, RepeatsFit
  <2>3. Unaware(s) \in SUBSET Instances /\ Group \ Marking(s) \in SUBSET Instances
    BY DEF Unaware, Group
  <2>4. Cardinality(Unaware(s)) \in Nat /\ Cardinality(Group \ Marking(s)) \in Nat /\ Unassigned \in Nat
    BY <2>3, GroupAssumption, FS_Subset, FS_CardinalityType DEF Unassigned
  <2>5. QED
    BY <2>1, <2>2, <2>4 DEF MayPublish
<1>2. QED
  BY <1>1, ScanInitIInv, ScanStep, PTL DEF ScanSpec

=============================================================================
