---------------------------- MODULE StreamConsumer ----------------------------
(***************************************************************************)
(* src/streaming/: a TransactionConsumer (kafka_client.py) whose handler   *)
(* is a FraudProcessingHandler (fraud_processing_consumer.py) around the   *)
(* risk engine, reading one Kafka partition.                               *)
(*                                                                         *)
(* External, as kafka_client.py uses kafka-python: the log; the position,  *)
(* which the iterator advances before it yields a message; the committed   *)
(* offset, moved to the position by the auto-commit of a poll and by       *)
(* close(); a group without a committed offset starts at the end of the    *)
(* log (auto_offset_reset's default).  A log entry is a TransactionID; an  *)
(* ID occurs twice when a producer retried a send that raised.             *)
(*                                                                         *)
(* The engine's Redis-backed state outlives the consumer process; the      *)
(* handler's idempotency cache and the consumer's counters do not.         *)
(***************************************************************************)
EXTENDS Integers, Sequences, FiniteSets, Functions

CONSTANTS
  Ids,           \* TransactionIDs
  Invalid,       \* the IDs whose transaction _validate_transaction refuses
  Undecodable,   \* the IDs whose message _deserialize_transaction cannot decode
  CacheSize,     \* idempotency_cache_size
  MaxRetries,    \* max_retries
  HasDlq,        \* TRUE: a dlq_producer is configured
  Uncommitted,   \* the group has no committed offset
  MaxLog,        \* bound: messages in the topic
  MaxLives,      \* bound: consumer processes started, one after the other
  MaxAmbiguous   \* bound: engine calls per ID that raise although the update was applied

ASSUME StreamAssumption ==
  /\ Invalid \subseteq Ids /\ Undecodable \subseteq Ids
  /\ CacheSize \in Nat /\ MaxRetries \in Nat /\ MaxLog \in Nat
  /\ MaxLives \in Nat /\ MaxAmbiguous \in Nat
  /\ HasDlq \in BOOLEAN
  /\ Uncommitted \notin Nat

VARIABLES
  log,            \* the topic
  committed,      \* the group's committed offset, or Uncommitted
  pc,             \* where the consumer process is
  position,       \* messages the iterator has yielded or skipped
  attempt,        \* attempt of _process_one on the message at `position`
  stopped,        \* _stopped
  counters,       \* messages_processed, messages_failed, messages_dead_lettered
  order,          \* _seen_order; _seen_transaction_ids has the same keys
  cached,         \* DOMAIN _seen_transaction_ids
  applied,        \* [Ids -> Nat]: times the engine's state took the transaction
  decisions,      \* [Ids -> Nat]: decisions published for it
  deadLetters,    \* offsets published to the dead-letter topic
  handled,        \* offsets _process_one has finished with
  abandoned,      \* offsets committed by close() although a stop broke off before them
  interrupted,    \* offsets committed by close() although an exception cut them short
  skipped,        \* offsets a start at the end of the log has passed over
  base,           \* the position this process started at
  lives,          \* processes started
  ambiguous,      \* [Ids -> Nat]: calls that raised after the update was applied
  evicted         \* [Ids -> Nat]: evictions from the cache

consumer == <<pc, position, attempt, stopped, counters, base>>
cache == <<order, cached, evicted>>
engine == <<applied, ambiguous>>
outputs == <<decisions, deadLetters>>
offsets == <<handled, abandoned, interrupted, skipped>>
vars == <<log, committed, consumer, cache, engine, outputs, offsets, lives>>

NoCounts == [processed |-> 0, failed |-> 0, deadLettered |-> 0]
Zero == [i \in Ids |-> 0]

Init == /\ log = <<>> /\ committed = Uncommitted
        /\ pc = "down" /\ position = 0 /\ attempt = 0 /\ stopped = FALSE
        /\ counters = NoCounts /\ base = 0
        /\ order = <<>> /\ cached = {} /\ evicted = Zero
        /\ applied = Zero /\ ambiguous = Zero
        /\ decisions = Zero /\ deadLetters = {}
        /\ handled = {} /\ abandoned = {} /\ interrupted = {} /\ skipped = {}
        /\ lives = 0

Id == log[position]    \* the message being processed

----------------------------------------------------------------------------
(* The topic and the life of the process *)

\* A producer's send() reaches the topic, whether it then returns or raises.
Publish(i) ==
  /\ Len(log) < MaxLog
  /\ log' = Append(log, i)
  /\ UNCHANGED <<committed, consumer, cache, engine, outputs, offsets, lives>>

\* The process ends: everything it kept in memory is gone.
Exit == /\ pc' = "down" /\ position' = 0 /\ base' = 0
        /\ attempt' = 0 /\ stopped' = FALSE /\ counters' = NoCounts
        /\ order' = <<>> /\ cached' = {}
        /\ UNCHANGED evicted

\* A new process: run() creates its KafkaConsumer.
Start ==
  /\ pc = "down" /\ lives < MaxLives
  /\ lives' = lives + 1
  /\ pc' = "poll"
  /\ position' = IF committed = Uncommitted THEN Len(log) ELSE committed
  /\ skipped' = skipped \cup (1..position' \ (handled \cup abandoned \cup interrupted))
  /\ base' = position'
  /\ UNCHANGED <<log, committed, attempt, stopped, counters, cache, engine, outputs,
                 handled, abandoned, interrupted>>

\* The process is killed between any two steps; nothing is committed.
Crash ==
  /\ pc # "down"
  /\ Exit
  /\ UNCHANGED <<log, committed, engine, outputs, offsets, lives>>

\* An exception leaves run(): a KeyboardInterrupt or SystemExit anywhere (they
\* are no Exception), or an error of the dead-letter send that is no
\* StreamingUnavailableError.  `finally: consumer.close()` still runs, and its
\* final commit passes the message in hand, or fails.
Interrupt ==
  /\ pc # "down"
  /\ \/ /\ committed' = position
        /\ interrupted' = IF pc = "poll" THEN interrupted
                          ELSE interrupted \cup ({position} \ handled)
     \/ UNCHANGED <<committed, interrupted>>
  /\ Exit
  /\ UNCHANGED <<log, engine, outputs, handled, abandoned, skipped, lives>>

\* stop(), from another thread or a signal handler.
Stop ==
  /\ pc # "down" /\ ~stopped
  /\ stopped' = TRUE
  /\ UNCHANGED <<log, committed, pc, position, attempt, counters, base,
                 cache, engine, outputs, offsets, lives>>

----------------------------------------------------------------------------
(* run(): the poll loop *)

\* Mutant of AutoCommit: a background thread commits while a message is handled.
CommitAnytime ==
  /\ pc \in {"poll", "handler"}
  /\ committed' = position
  /\ UNCHANGED <<log, consumer, cache, engine, outputs, offsets, lives>>

\* The iterator polls: the auto-commit interval may have elapsed.
AutoCommit ==
  /\ pc = "poll"
  /\ committed' = position
  /\ UNCHANGED <<log, consumer, cache, engine, outputs, offsets, lives>>

\* Mutant of Deliver: the end of the log is not noticed.
DeliverPastEnd ==
  /\ pc = "poll"
  /\ position' = position + 1
  /\ pc' = "yielded"
  /\ UNCHANGED <<log, committed, attempt, stopped, counters, base,
                 cache, engine, outputs, offsets, lives>>

\* The iterator yields the next message; its position is already past it.
Deliver ==
  /\ pc = "poll" /\ position < Len(log)
  /\ log[position + 1] \notin Undecodable
  /\ position' = position + 1
  /\ pc' = "yielded"
  /\ UNCHANGED <<log, committed, attempt, stopped, counters, base,
                 cache, engine, outputs, offsets, lives>>

\* The iterator raises on a message it cannot decode: run() is left through
\* its `finally`, and the message is the next process's first one.
DecodeRaises ==
  /\ pc = "poll" /\ position < Len(log)
  /\ log[position + 1] \in Undecodable
  /\ committed' \in {position, committed}
  /\ Exit
  /\ UNCHANGED <<log, engine, outputs, offsets, lives>>

\* `if self._stopped: break` on a message already yielded; close() follows,
\* and its final commit is accepted or fails.
BreakOff ==
  /\ pc = "yielded" /\ stopped
  /\ \/ /\ committed' = position
        /\ abandoned' = abandoned \cup ({position} \ handled)
     \/ UNCHANGED <<committed, abandoned>>
  /\ Exit
  /\ UNCHANGED <<log, engine, outputs, handled, interrupted, skipped, lives>>

\* `while not self._stopped` ends after an empty poll; close() commits, or fails to.
LeaveLoop ==
  /\ pc = "poll" /\ stopped
  /\ committed' \in {position, committed}
  /\ Exit
  /\ UNCHANGED <<log, engine, outputs, offsets, lives>>

----------------------------------------------------------------------------
(* _process_one and FraudProcessingHandler.__call__ *)

BeginMessage ==
  /\ pc = "yielded" /\ ~stopped
  /\ attempt' = 1
  /\ pc' = "handler"
  /\ UNCHANGED <<log, committed, position, stopped, counters, base,
                 cache, engine, outputs, offsets, lives>>

Count(field) == counters' = [counters EXCEPT ![field] = @ + 1]

FinishMessage == /\ pc' = "poll"
                 /\ handled' = handled \cup {position}
                 /\ UNCHANGED <<abandoned, interrupted, skipped>>

\* Mutant of SkipDuplicate: the cached decision is published again.
SkipAndPublish ==
  /\ pc = "handler" /\ Id \in cached
  /\ decisions' = [decisions EXCEPT ![Id] = @ + 1]
  /\ Count("processed")
  /\ FinishMessage
  /\ UNCHANGED <<log, committed, position, attempt, stopped, base,
                 cache, engine, deadLetters, lives>>

\* The cache answers for an ID it has seen.
SkipDuplicate ==
  /\ pc = "handler" /\ Id \in cached
  /\ Count("processed")
  /\ FinishMessage
  /\ UNCHANGED <<log, committed, position, attempt, stopped, base,
                 cache, engine, outputs, lives>>

\* Mutant of CallEngine: the cache is not consulted.
CallEngineAlways ==
  /\ pc = "handler" /\ Id \notin Invalid
  /\ pc' = "calling"
  /\ UNCHANGED <<log, committed, position, attempt, stopped, counters, base,
                 cache, engine, outputs, offsets, lives>>

\* process_transaction accepts the transaction and goes to the engine's state,
\* whose Redis client has no read timeout: the call may never come back.
CallEngine ==
  /\ pc = "handler" /\ Id \notin cached /\ Id \notin Invalid
  /\ pc' = "calling"
  /\ UNCHANGED <<log, committed, position, attempt, stopped, counters, base,
                 cache, engine, outputs, offsets, lives>>

\* Mutant of RetryOrGiveUp: max_retries is ignored.
RetryForever == pc' = "handler" /\ UNCHANGED <<attempt, counters>>

\* Mutant of RetryOrGiveUp: messages_failed counts attempts.
CountEveryFailure ==
  /\ Count("failed")
  /\ IF attempt <= MaxRetries
     THEN pc' = "handler" /\ attempt' = attempt + 1
     ELSE pc' = "exhausted" /\ UNCHANGED attempt

\* The attempt has raised: there is another one, or it was the last.
RetryOrGiveUp ==
  IF attempt <= MaxRetries
  THEN pc' = "handler" /\ attempt' = attempt + 1 /\ UNCHANGED counters
  ELSE pc' = "exhausted" /\ Count("failed") /\ UNCHANGED attempt

\* TransactionValidationError, before the engine's state is touched.
ValidationRaises ==
  /\ pc = "handler" /\ Id \notin cached /\ Id \in Invalid
  /\ RetryOrGiveUp
  /\ UNCHANGED <<log, committed, position, stopped, base,
                 cache, engine, outputs, offsets, lives>>

\* process_transaction returns: the state has the transaction.
EngineReturns ==
  /\ pc = "calling"
  /\ applied' = [applied EXCEPT ![Id] = @ + 1]
  /\ pc' = "applied"
  /\ UNCHANGED <<log, committed, position, attempt, stopped, counters, base, ambiguous,
                 cache, outputs, offsets, lives>>

\* It raises, before or after the state's final put.
EngineRaises ==
  /\ pc = "calling"
  /\ \/ UNCHANGED engine
     \/ /\ ambiguous[Id] < MaxAmbiguous
        /\ applied' = [applied EXCEPT ![Id] = @ + 1]
        /\ ambiguous' = [ambiguous EXCEPT ![Id] = @ + 1]
  /\ RetryOrGiveUp
  /\ UNCHANGED <<log, committed, position, stopped, base, cache, outputs, offsets, lives>>

\* Mutant of Remember: the evicted ID stays in _seen_order.
RememberWithoutPop ==
  /\ pc = "applied"
  /\ order' = Append(order, Id)
  /\ cached' = IF Len(order) < CacheSize THEN cached \cup {Id}
               ELSE (cached \cup {Id}) \ {Head(Append(order, Id))}
  /\ evicted' = evicted
  /\ pc' = "remembered"
  /\ UNCHANGED <<log, committed, position, attempt, stopped, counters, base,
                 engine, outputs, offsets, lives>>

\* _remember, with its bounded eviction of the oldest ID.
Remember ==
  /\ pc = "applied"
  /\ LET longer == Append(order, Id)
         oldest == Head(longer)
     IN  IF Len(longer) <= CacheSize
         THEN order' = longer /\ cached' = cached \cup {Id} /\ UNCHANGED evicted
         ELSE /\ order' = Tail(longer)
              /\ cached' = (cached \cup {Id}) \ {oldest}
              /\ evicted' = [evicted EXCEPT ![oldest] = @ + 1]
  /\ pc' = "remembered"
  /\ UNCHANGED <<log, committed, position, attempt, stopped, counters, base,
                 engine, outputs, offsets, lives>>

\* The decision is published, or the failure is logged; the message is done.
PublishDecision ==
  /\ pc = "remembered"
  /\ decisions' \in {decisions, [decisions EXCEPT ![Id] = @ + 1]}
  /\ Count("processed")
  /\ FinishMessage
  /\ UNCHANGED <<log, committed, position, attempt, stopped, base, deadLetters,
                 cache, engine, lives>>

\* The dead letter is sent, refused, or there is no DLQ; the loop goes on.
DeadLetter ==
  /\ pc = "exhausted"
  /\ \/ HasDlq /\ Count("deadLettered") /\ deadLetters' = deadLetters \cup {position}
     \/ UNCHANGED <<counters, deadLetters>>
  /\ FinishMessage
  /\ UNCHANGED <<log, committed, position, attempt, stopped, base, decisions,
                 cache, engine, lives>>

Process == \/ BeginMessage \/ SkipDuplicate \/ CallEngine \/ ValidationRaises
           \/ Remember \/ PublishDecision \/ DeadLetter

Engine == EngineReturns \/ EngineRaises

Next == \/ \E i \in Ids : Publish(i)
        \/ Start \/ Crash \/ Interrupt \/ Stop
        \/ AutoCommit \/ Deliver \/ DecodeRaises \/ BreakOff \/ LeaveLoop
        \/ Process \/ Engine

Spec == Init /\ [][Next]_vars

\* The single consumer thread keeps running while the process is up.  Nothing
\* forces a new process to start, a producer to send, stop() to be called, or
\* the engine's call to come back.
FairSpec == Spec /\ WF_vars(Process) /\ WF_vars(Deliver) /\ WF_vars(BreakOff)
                 /\ WF_vars(LeaveLoop) /\ WF_vars(DecodeRaises)

----------------------------------------------------------------------------
(* Properties *)

Counters == [processed : Nat, failed : Nat, deadLettered : Nat]

TopicTypes == /\ log \in Seq(Ids)
              /\ committed \in 0..Len(log) \cup {Uncommitted}
              /\ position \in 0..Len(log)
              /\ pc \notin {"down", "poll"} => position # 0
ProcessTypes == /\ pc \in {"down", "poll", "yielded", "handler", "calling", "applied",
                           "remembered", "exhausted"}
                /\ attempt \in 0..(MaxRetries + 1) /\ stopped \in BOOLEAN
                /\ counters \in Counters
                /\ order \in Seq(Ids) /\ cached \subseteq Ids
                /\ base \in Nat /\ lives \in Nat
EngineTypes == /\ applied \in [Ids -> Nat] /\ decisions \in [Ids -> Nat]
               /\ ambiguous \in [Ids -> Nat] /\ evicted \in [Ids -> Nat]
OffsetTypes == /\ handled \subseteq 1..Len(log) /\ abandoned \subseteq 1..Len(log)
               /\ interrupted \subseteq 1..Len(log)
               /\ skipped \subseteq 1..Len(log) /\ deadLetters \subseteq 1..Len(log)
TypeOK == TopicTypes /\ ProcessTypes /\ EngineTypes /\ OffsetTypes

\* The handler's two structures stay in step: the list holds each cached ID
\* once, oldest first, and no more of them than the cache may hold.
CacheInSync == /\ cached = Range(order)
               /\ Cardinality(cached) = Len(order)
               /\ Len(order) <= CacheSize

\* The idempotency guarantee with its exact limits: within one process a
\* transaction enters the behavioural state once, plus once per eviction of
\* its ID and once per engine call that raised after applying it; every new
\* process may add one more (fraud_processing_consumer.py:38-59).
AppliedBound ==
  \A i \in Ids : applied[i] <= lives + ambiguous[i] + evicted[i]

\* No decision is published for a transaction the state has not taken, and
\* never two for one application, whatever is retried or redelivered.
DecisionsBacked == \A i \in Ids : decisions[i] + ambiguous[i] <= applied[i]

\* At-least-once with its exceptions: the committed offset passes only messages
\* that were handled, that a first start at the end of the log skipped, or the
\* single one per process that a stop() or an escaping exception has cut short
\* before close() committed (kafka_client.py:199, 207-208).
CutShort == abandoned \cup interrupted
DealtWith == handled \cup CutShort \cup skipped
CommittedIsHandled ==
  /\ committed # Uncommitted => 1..committed \subseteq DealtWith
  /\ Cardinality(CutShort) <= lives

\* Every message a live process has taken is counted exactly once, as
\* processed or as failed, and only failed ones are dead-lettered.
InFlight == pc \in {"yielded", "handler", "calling", "applied", "remembered"}
AccountingExact ==
  pc # "down" =>
    /\ counters.processed + counters.failed + (IF InFlight THEN 1 ELSE 0) = position - base
    /\ counters.deadLettered <= counters.failed

\* kafka_client.py:132-134: stop() "finishes the in-flight message, does not
\* abandon it": no message is committed that no process has handled.
NothingAbandoned == abandoned = {}

\* However the engine fails, no message blocks the partition: each one in the
\* topic is eventually handled, or passed over, or the process goes down; only
\* an engine call that never comes back holds it for ever.
EveryMessageHandled ==
  \/ <>[](pc = "calling")
  \/ \A o \in 1..MaxLog : o <= Len(log) ~> (o \in DealtWith \/ pc = "down")
=============================================================================
