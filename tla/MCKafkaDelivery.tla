-------------------------- MODULE MCKafkaDelivery --------------------------
(***************************************************************************)
(* Small instances for TLC of what the Kafka consumer does with messages,  *)
(* and of how it keeps its connection.  They share no state here: each has *)
(* starts of its own, in which the other stands still, the consumer being  *)
(* disabled or all messages handled.  Liveness is checked without symmetry. *)
(***************************************************************************)
EXTENDS KafkaDelivery, KafkaConnection

VARIABLE part   \* the part that moves

kafkaVars == <<vars, connectionVars, part>>

AllHandled ==
    /\ log \in [Offsets -> Payloads] /\ committed = Length + 1
    /\ owner = None /\ next = [i \in Instances |-> None]
    /\ current = [i \in Instances |-> None] /\ pc = [i \in Instances |-> "poll"]
    /\ attempt = [i \in Instances |-> 0]
    /\ fate = [o \in Offsets |-> {"handled"}] /\ failures = [o \in Offsets |-> 0]
    /\ faults = 0

KafkaInit ==
    \/ part = "delivery" /\ Init /\ ConnectionInit(TRUE)
    \/ part = "connection" /\ AllHandled /\ ConnectionInit(FALSE)

OfDelivery(A) == part = "delivery" /\ A /\ UNCHANGED <<connectionVars, part>>

OfConnection(A) == part = "connection" /\ A /\ UNCHANGED <<vars, part>>

KafkaNext == OfDelivery(Next) \/ OfConnection(ConnectionNext)

\* The group assigns a free partition, and an instance goes on with its message
\* and its handler.  Loops, listeners, timers and the calls of the
\* Kafka client come to an end; messages need not come.
KafkaSpec ==
    /\ KafkaInit /\ [][KafkaNext]_kafkaVars
    /\ WF_kafkaVars(OfDelivery(\E i \in Instances : Assign(i)))
    /\ \A i \in Instances : WF_kafkaVars(OfDelivery(Process(i) \/ Handler(i)))
    /\ WF_kafkaVars(OfConnection(Bootstrap \/ Destroying \/ \E t \in Tasks : Reconnecting(t)))
    /\ \A g \in Streams : WF_kafkaVars(OfConnection(Looping(g)))

=============================================================================
