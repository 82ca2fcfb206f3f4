--------------------------- MODULE KafkaDelivery ---------------------------
(***************************************************************************)
(* How one partition of a topic is consumed (kafka-consumer.service.ts):   *)
(* processMessage handles a message, tries again when the handler throws,  *)
(* gives up into the dead letter queue, and commits in every case.         *)
(*                                                                         *)
(* The broker and the consumer group are external: they remember the       *)
(* offset committed last, give the partition to one instance at a time,    *)
(* and start an instance at that offset.  An instance that has lost the    *)
(* partition may still process what it had fetched.                        *)
(***************************************************************************)
EXTENDS Integers

CONSTANTS
    Instances,          \* instances of the service in the consumer group
    Payloads,           \* values of messages JSON.parse accepts
    Garbled,            \* a value it does not accept
    Length,             \* bound: messages in the partition
    ConfiguredRetries,  \* KAFKA_DLQ_MAX_RETRIES
    DlqInstances,       \* those started with KAFKA_DLQ_ENABLED
    MaxFaults,          \* bound: crashes, rebalances, failed commits and sends
    None

ASSUME LengthAssumption == Length \in Nat
ASSUME RetriesAssumption == ConfiguredRetries \in Nat
ASSUME DlqAssumption == DlqInstances \subseteq Instances
ASSUME FaultsAssumption == MaxFaults \in Nat
ASSUME ValuesAssumption == Garbled \notin Payloads /\ None \notin Instances \cup Int

Offsets == 1..Length

\* this.options.dlq.maxRetries || 3
MaxRetries == IF ConfiguredRetries = 0 THEN 3 ELSE ConfiguredRetries

VARIABLES
    log,        \* the messages of the partition
    committed,  \* the offset the group continues from
    owner,      \* the instance the partition is assigned to
    next,       \* the offset an instance's stream yields next
    current,    \* the message in processMessage
    pc,         \* where processMessage is
    attempt,    \* messageRetryCount of the message in hand
    fate,       \* auxiliary: what has become of a message
    failures,   \* auxiliary: most failed attempts in one processing of a message
    faults

vars == <<log, committed, owner, next, current, pc, attempt, fate, failures, faults>>

Fates == {"handled", "deadlettered", "dropped"}

TypeOK ==
    /\ log \in [Offsets -> Payloads \cup {Garbled}]
    /\ committed \in 1..Length + 1
    /\ owner \in Instances \cup {None}
    /\ next \in [Instances -> 1..Length + 1 \cup {None}]
    /\ current \in [Instances -> Offsets \cup {None}]
    /\ pc \in [Instances -> {"poll", "handle", "wait", "bury", "commit"}]
    /\ attempt \in [Instances -> 0..MaxRetries]
    /\ fate \in [Offsets -> SUBSET Fates]
    /\ failures \in [Offsets -> 0..MaxRetries + 1]
    /\ faults \in 0..MaxFaults

Init ==
    /\ log \in [Offsets -> Payloads \cup {Garbled}]
    /\ committed = 1
    /\ owner = None
    /\ next = [i \in Instances |-> None]
    /\ current = [i \in Instances |-> None]
    /\ pc = [i \in Instances |-> "poll"]
    /\ attempt = [i \in Instances |-> 0]
    /\ fate = [o \in Offsets |-> {}]
    /\ failures = [o \in Offsets |-> 0]
    /\ faults = 0

\* One more thing goes wrong.
Fault == faults < MaxFaults /\ faults' = faults + 1

Meets(o, f) == fate' = [fate EXCEPT ![o] = @ \cup {f}]

-----------------------------------------------------------------------------
(* The broker and the group.                                               *)

\* The stream of consume() starts at the committed offset.
StartsAt(i, o) ==
    /\ owner' = i
    /\ next' = [next EXCEPT ![i] = o]

Assign(i) ==
    /\ owner = None
    /\ StartsAt(i, committed)
    /\ UNCHANGED <<log, committed, current, pc, attempt, fate, failures, faults>>

Rebalance(i) ==
    /\ Fault
    /\ owner \notin {None, i}
    /\ StartsAt(i, committed)
    /\ UNCHANGED <<log, committed, current, pc, attempt, fate, failures>>

Crash(i) ==
    /\ Fault
    /\ owner' = IF owner = i THEN None ELSE owner
    /\ next' = [next EXCEPT ![i] = None]
    /\ current' = [current EXCEPT ![i] = None]
    /\ pc' = [pc EXCEPT ![i] = "poll"]
    /\ attempt' = [attempt EXCEPT ![i] = 0]
    /\ UNCHANGED <<log, committed, fate, failures>>

-----------------------------------------------------------------------------
(* consumeStream and processMessage.                                       *)

Fetch(i) ==
    /\ pc[i] = "poll"
    /\ next[i] \in Offsets
    /\ current' = [current EXCEPT ![i] = next[i]]
    /\ next' = [next EXCEPT ![i] = next[i] + 1]
    /\ pc' = [pc EXCEPT ![i] = IF log[next[i]] = Garbled THEN "bury" ELSE "handle"]

ReceiveCommitting(i) ==
    /\ Fetch(i)
    /\ committed' = next[i] + 1
    /\ UNCHANGED <<log, owner, attempt, fate, failures, faults>>

\* Nothing is committed before the handler has ended: autocommit is off.
Receive(i) ==
    /\ Fetch(i)
    /\ UNCHANGED <<log, committed, owner, attempt, fate, failures, faults>>

HandlerReturns(i) ==
    /\ pc[i] = "handle"
    /\ Meets(current[i], "handled")
    /\ pc' = [pc EXCEPT ![i] = "commit"]
    /\ UNCHANGED <<log, committed, owner, next, current, attempt, failures, faults>>

CanRetryOnceLess(i) == attempt[i] + 1 < MaxRetries
CanRetry(i) == attempt[i] < MaxRetries

\* A handler that throws is tried again without end.
HandlerThrowsForEver(i) ==
    /\ pc[i] = "handle"
    /\ failures' = [failures EXCEPT ![current[i]] = MaxRetries + 1]
    /\ pc' = [pc EXCEPT ![i] = "wait"]
    /\ UNCHANGED <<log, committed, owner, next, current, attempt, fate, faults>>

\* handleFailedMessage: try again, bury the message, or drop it.
HandlerThrows(i) ==
    LET o == current[i]
        failed == attempt[i] + 1
    IN  /\ pc[i] = "handle"
        /\ failures' = [failures EXCEPT ![o] = IF failed > @ THEN failed ELSE @]
        /\ \/ /\ i \in DlqInstances /\ CanRetry(i)
              /\ attempt' = [attempt EXCEPT ![i] = failed]
              /\ pc' = [pc EXCEPT ![i] = "wait"]
              /\ UNCHANGED fate
           \/ /\ i \in DlqInstances /\ ~CanRetry(i)
              /\ pc' = [pc EXCEPT ![i] = "bury"]
              /\ UNCHANGED <<attempt, fate>>
           \/ /\ i \notin DlqInstances
              /\ Meets(o, "dropped")
              /\ pc' = [pc EXCEPT ![i] = "commit"]
              /\ UNCHANGED attempt
        /\ UNCHANGED <<log, committed, owner, next, current, faults>>

WaitOver(i) ==
    /\ pc[i] = "wait"
    /\ pc' = [pc EXCEPT ![i] = "handle"]
    /\ UNCHANGED <<log, committed, owner, next, current, attempt, fate, failures, faults>>

\* sendToDLQ, which does nothing when the queue is disabled.
Bury(i) ==
    /\ pc[i] = "bury"
    /\ Meets(current[i], IF i \in DlqInstances THEN "deadlettered" ELSE "dropped")
    /\ pc' = [pc EXCEPT ![i] = "commit"]
    /\ UNCHANGED <<log, committed, owner, next, current, attempt, failures, faults>>

\* The send fails, or its answer is lost; the error is logged, no more.
BuryFails(i) ==
    /\ Fault
    /\ pc[i] = "bury"
    /\ i \in DlqInstances
    /\ Meets(current[i], "dropped") \/ Meets(current[i], "deadlettered")
    /\ pc' = [pc EXCEPT ![i] = "commit"]
    /\ UNCHANGED <<log, committed, owner, next, current, attempt, failures>>

Done(i) ==
    /\ pc' = [pc EXCEPT ![i] = "poll"]
    /\ current' = [current EXCEPT ![i] = None]
    /\ attempt' = [attempt EXCEPT ![i] = 0]

\* The group refuses the commit of an instance that has lost the partition;
\* commitMessage swallows the error.
Commit(i) ==
    /\ pc[i] = "commit"
    /\ committed' = IF owner = i THEN current[i] + 1 ELSE committed
    /\ Done(i)
    /\ UNCHANGED <<log, owner, next, fate, failures, faults>>

CommitFails(i) ==
    /\ Fault
    /\ pc[i] = "commit"
    /\ Done(i)
    /\ UNCHANGED <<log, committed, owner, next, fate, failures>>

-----------------------------------------------------------------------------
Process(i) == Receive(i) \/ WaitOver(i) \/ Bury(i) \/ Commit(i)

Handler(i) == HandlerReturns(i) \/ HandlerThrows(i)

Trouble(i) == Rebalance(i) \/ Crash(i) \/ BuryFails(i) \/ CommitFails(i)

Next == \E i \in Instances : Assign(i) \/ Process(i) \/ Handler(i) \/ Trouble(i)

Spec == Init /\ [][Next]_vars

-----------------------------------------------------------------------------
(* Properties.                                                             *)

\* The group never moves past a message of which nothing has become, however
\* crashes, rebalances and refused commits fall between handling and commit.
NothingSkipped == \A o \in Offsets : o < committed => fate[o] # {}

Exhausted(o) == log[o] = Garbled \/ failures[o] = MaxRetries + 1

\* In the dead letter queue, or lost although every instance has one.
GivenUp(o) ==
    \/ "deadlettered" \in fate[o]
    \/ "dropped" \in fate[o] /\ DlqInstances = Instances

\* A message is given up only when it cannot be parsed or one instance has tried
\* it MaxRetries + 1 times.
GivenUpAfterRetries == \A o \in Offsets : GivenUp(o) => Exhausted(o)

\* What strengthens NothingSkipped to an inductive invariant: an instance has
\* left nothing behind it but the message it has in hand.
Behind(i) ==
    /\ pc[i] = "poll" <=> current[i] = None
    /\ current[i] # None => \A o \in Offsets : o < current[i] => fate[o] # {}
    /\ next[i] # None => \A o \in Offsets : o < next[i] => fate[o] # {} \/ o = current[i]
    /\ pc[i] = "commit" => fate[current[i]] # {}

\* ... and it buries only what it may.
BuriesExhausted(i) == pc[i] = "bury" => Exhausted(current[i])

IInv ==
    /\ TypeOK /\ NothingSkipped /\ GivenUpAfterRetries
    /\ \A i \in Instances : Behind(i) /\ BuriesExhausted(i)

\* A poison message does not block the partition: every message is handled,
\* buried or dropped in the end, even if its handler always throws.
EveryMessageSettled == \A o \in Offsets : <>(fate[o] # {})

=============================================================================
