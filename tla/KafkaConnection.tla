---------------------------- MODULE KafkaConnection ----------------------------
(***************************************************************************)
(* How an instance keeps its connection to Kafka                           *)
(* (kafka-consumer.service.ts): it starts a stream and a loop that         *)
(* processes its messages, makes both anew when the stream fails, gives up *)
(* after some attempts, and closes them when the module is destroyed.  What *)
(* the loop does with a message is KafkaDelivery.                          *)
(*                                                                         *)
(* Each start makes a stream and its loop.  The client library is external: *)
(* closing and starting answer or throw.                                   *)
(***************************************************************************)
EXTENDS Naturals, FiniteSets

CONSTANTS
    MaxAttempts,    \* KAFKA_RETRY_ATTEMPTS, at least 1
    MaxTroubles,    \* bound: streams that fail, calls that throw
    Tasks           \* calls of performReconnect that may run at a time

ASSUME ConnectionAssumption == MaxAttempts \in Nat \ {0} /\ MaxTroubles \in Nat /\ 0 \notin Tasks

\* A failed stream is told of twice, and each may make another.
Streams == 1..(2 * MaxTroubles + 1)

VARIABLES
    kafkaState,
    made,               \* the number of streams
    stream, consumerLoop, \* the stream, and that of the loop, or 0
    streams, loops,     \* every stream, and its loop
    unheard,             \* streams whose error the listener has not heard of
    reconnectionTask,   \* the task that is waited for, or 0
    taskAt, tries,      \* where every task is, and its attempt
    destroyAt,          \* where onModuleDestroy is
    troubles,
    leaked              \* auxiliary: closing a stream has failed

connectionVars == <<kafkaState, made, stream, consumerLoop, streams, loops, unheard,
                    reconnectionTask, taskAt, tries, destroyAt, troubles, leaked>>

taskVars == <<reconnectionTask, taskAt, tries>>

isShuttingDown == destroyAt # "no"

\* A disabled consumer (DISABLE_KAFKA) does nothing.
ConnectionInit(isDisabled) ==
    /\ kafkaState = IF isDisabled THEN "disabled" ELSE "initializing"
    /\ made = 0
    /\ stream = 0 /\ consumerLoop = 0
    /\ streams = [g \in Streams |-> "none"] /\ loops = [g \in Streams |-> "none"]
    /\ unheard = {} /\ destroyAt = "no"
    /\ reconnectionTask = 0 /\ taskAt = [t \in Tasks |-> "none"] /\ tries = [t \in Tasks |-> 0]
    /\ troubles = 0 /\ leaked = FALSE

OneTrouble == troubles < MaxTroubles /\ troubles' = troubles + 1

-----------------------------------------------------------------------------
(* startConsumer                                                           *)

Started ==
    /\ made' = made + 1
    /\ stream' = made' /\ streams' = [streams EXCEPT ![made'] = "live"]
    /\ consumerLoop' = made' /\ loops' = [loops EXCEPT ![made'] = "idle"]
    /\ kafkaState' = "ready"

Bootstrap ==
    /\ kafkaState = "initializing" /\ destroyAt = "no"
    /\ Started
    /\ UNCHANGED <<unheard, taskVars, destroyAt, troubles, leaked>>

\* The service does not come up.
BootstrapFails ==
    /\ kafkaState = "initializing" /\ destroyAt = "no"
    /\ OneTrouble /\ destroyAt' = "gone"
    /\ UNCHANGED <<kafkaState, made, stream, consumerLoop, streams, loops, unheard, taskVars, leaked>>

-----------------------------------------------------------------------------
(* consumeStream                                                           *)

NextMessage(g) ==
    /\ loops[g] = "idle" /\ streams[g] = "live"
    /\ loops' = [loops EXCEPT ![g] = "busy"]
    /\ UNCHANGED <<kafkaState, made, stream, consumerLoop, streams, unheard, taskVars, destroyAt, troubles,
                   leaked>>

\* processMessage returns in every case.
Processed(g) ==
    /\ loops[g] = "busy"
    /\ loops' = [loops EXCEPT ![g] = "idle"]
    /\ UNCHANGED <<kafkaState, made, stream, consumerLoop, streams, unheard, taskVars, destroyAt, troubles,
                   leaked>>

StreamFails(g) ==
    /\ streams[g] = "live" /\ OneTrouble
    /\ streams' = [streams EXCEPT ![g] = "broken"] /\ unheard' = unheard \cup {g}
    /\ UNCHANGED <<kafkaState, made, stream, consumerLoop, loops, taskVars, destroyAt, leaked>>

BeginTask(t) ==
    /\ taskAt[t] = "none"
    /\ reconnectionTask' = t
    /\ taskAt' = [taskAt EXCEPT ![t] = "stream"] /\ tries' = [tries EXCEPT ![t] = 1]

ScheduleAnother ==
    IF \A t \in Tasks : taskAt[t] # "none" THEN UNCHANGED taskVars ELSE \E t \in Tasks : BeginTask(t)

ScheduleReconnect ==
    IF reconnectionTask # 0 THEN UNCHANGED taskVars ELSE \E t \in Tasks : BeginTask(t)

HandleKafkaFailure ==
    IF isShuttingDown THEN UNCHANGED <<kafkaState, taskVars>>
    ELSE kafkaState' = "reconnecting" /\ ScheduleReconnect

\* The listener of the stream
OnError(g) ==
    /\ g \in unheard /\ unheard' = unheard \ {g}
    /\ HandleKafkaFailure
    /\ UNCHANGED <<made, stream, consumerLoop, streams, loops, destroyAt, troubles, leaked>>

\* The for await of the loop ends, or throws.
LoopEnds(g) ==
    /\ loops[g] = "idle" /\ streams[g] \in {"closed", "broken"}
    /\ loops' = [loops EXCEPT ![g] = "done"]
    /\ IF streams[g] = "broken" THEN HandleKafkaFailure ELSE UNCHANGED <<kafkaState, taskVars>>
    /\ UNCHANGED <<made, stream, consumerLoop, streams, unheard, destroyAt, troubles, leaked>>

-----------------------------------------------------------------------------
(* disconnect, for the task and for the destruction                        *)

\* An error is logged and ends it; what is open stays so.
CloseStream(proceed, end) ==
    \/ /\ IF stream = 0 THEN UNCHANGED <<stream, streams, unheard>>
          ELSE /\ streams' = [streams EXCEPT ![stream] = "closed"] /\ unheard' = unheard \ {stream}
               /\ stream' = 0
       /\ proceed /\ UNCHANGED <<troubles, leaked>>
    \/ /\ stream # 0 /\ OneTrouble /\ leaked' = TRUE
       /\ end /\ UNCHANGED <<stream, streams, unheard>>

AwaitLoop == (consumerLoop # 0 => loops[consumerLoop] = "done") /\ consumerLoop' = 0

-----------------------------------------------------------------------------
(* performReconnect                                                        *)

Moves(t, step) == taskAt' = [taskAt EXCEPT ![t] = step] /\ UNCHANGED reconnectionTask

\* The finally of scheduleReconnect
Ends(t) == taskAt' = [taskAt EXCEPT ![t] = "none"] /\ reconnectionTask' = 0

\* When it has disconnected: connect, unless it is shutting down.
Reconnect(t) ==
    IF isShuttingDown THEN Ends(t) ELSE Moves(t, "start")

TaskCloses(t) ==
    /\ taskAt[t] = "stream"
    /\ CloseStream(Moves(t, "loop"), Reconnect(t))
    /\ UNCHANGED <<kafkaState, made, consumerLoop, loops, tries, destroyAt>>

TaskAwaitsLoop(t) ==
    /\ taskAt[t] = "loop" /\ AwaitLoop /\ Reconnect(t)
    /\ UNCHANGED <<kafkaState, made, stream, streams, loops, unheard, tries, destroyAt, troubles, leaked>>

TaskStarts(t) ==
    /\ taskAt[t] = "start" /\ Started /\ Ends(t)
    /\ UNCHANGED <<unheard, tries, destroyAt, troubles, leaked>>

TaskFailsToStart(t) ==
    /\ taskAt[t] = "start" /\ OneTrouble
    /\ \/ tries[t] < MaxAttempts /\ ~isShuttingDown /\ Moves(t, "wait") /\ UNCHANGED kafkaState
       \/ tries[t] = MaxAttempts /\ ~isShuttingDown /\ Ends(t) /\ kafkaState' = "failed"
       \/ isShuttingDown /\ Ends(t) /\ UNCHANGED kafkaState
    /\ UNCHANGED <<made, stream, consumerLoop, streams, loops, unheard, tries, destroyAt, leaked>>

TaskTriesAgain(t) ==
    /\ taskAt[t] = "wait"
    /\ IF isShuttingDown THEN Ends(t) /\ UNCHANGED tries
       ELSE Moves(t, "stream") /\ tries' = [tries EXCEPT ![t] = @ + 1]
    /\ UNCHANGED <<kafkaState, made, stream, consumerLoop, streams, loops, unheard, destroyAt, troubles, leaked>>

-----------------------------------------------------------------------------
(* onModuleDestroy                                                         *)

Destroy ==
    /\ destroyAt = "no" /\ kafkaState \notin {"initializing", "disabled"}
    /\ destroyAt' = "task"
    /\ UNCHANGED <<kafkaState, made, stream, consumerLoop, streams, loops, unheard, taskVars, troubles, leaked>>

TaskAwaitedNever == TRUE
TaskAwaited == reconnectionTask = 0

DestroyAwaitsTask ==
    /\ destroyAt = "task" /\ TaskAwaited
    /\ destroyAt' = "stream"
    /\ UNCHANGED <<kafkaState, made, stream, consumerLoop, streams, loops, unheard, taskVars, troubles, leaked>>

Gone == destroyAt' = "gone" /\ kafkaState' = "disabled"

DestroyCloses ==
    /\ destroyAt = "stream"
    /\ CloseStream(destroyAt' = "loop" /\ UNCHANGED kafkaState, Gone)
    /\ UNCHANGED <<made, consumerLoop, loops, taskVars>>

DestroyAwaitsLoop ==
    /\ destroyAt = "loop" /\ AwaitLoop /\ Gone
    /\ UNCHANGED <<made, stream, streams, loops, unheard, taskVars, troubles, leaked>>

-----------------------------------------------------------------------------
Looping(g) == Processed(g) \/ OnError(g) \/ LoopEnds(g)

Reconnecting(t) == TaskCloses(t) \/ TaskAwaitsLoop(t) \/ TaskStarts(t) \/ TaskTriesAgain(t)

Destroying == DestroyAwaitsTask \/ DestroyCloses \/ DestroyAwaitsLoop

ConnectionNext ==
    \/ Bootstrap \/ BootstrapFails
    \/ \E g \in Streams : Looping(g) \/ NextMessage(g) \/ StreamFails(g)
    \/ \E t \in Tasks : Reconnecting(t) \/ TaskFailsToStart(t)
    \/ Destroy \/ Destroying

ConnectionSpec ==
    (\E isDisabled \in BOOLEAN : ConnectionInit(isDisabled)) /\ [][ConnectionNext]_connectionVars

-----------------------------------------------------------------------------
(* Properties                                                              *)

Running == {g \in Streams : loops[g] \in {"idle", "busy"}}

\* One loop processes messages: the next one starts when the former has ended
\* (the order of disconnect, and one reconnection task at a time), unless
\* closing a stream has failed, when the service leaves it behind.
OneLoop == ~leaked => Cardinality(Running) <= 1

Consuming ==
    kafkaState = "ready" /\ stream # 0 /\ streams[stream] = "live" /\ consumerLoop \in Running

\* However stream errors, failing starts and shutting down come together, the
\* instance ends up consuming, or failed (which the health check answers with
\* 503), or shut down with no loop left that it has not left behind.
ConsumesOrAdmits ==
    <>[](IF destroyAt = "gone" \/ kafkaState = "disabled" THEN leaked \/ Running = {} ELSE kafkaState = "failed" \/ Consuming)

=============================================================================
