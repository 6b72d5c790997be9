------------------------- MODULE StreamConsumerProofs -------------------------
(***************************************************************************)
(* StreamConsumer, for every set of transactions, cache size, number of    *)
(* retries, log length, number of processes and failures.                  *)
(***************************************************************************)
EXTENDS StreamConsumer, SequenceTheorems, FiniteSetTheorems, TLAPS

----------------------------------------------------------------------------
(* Types *)

(* Counting keeps the counters counters.                                   *)
LEMMA CountTypes ==
  ASSUME counters \in Counters, NEW field \in {"processed", "failed", "deadLettered"},
         Count(field)
  PROVE  /\ counters' \in Counters
         /\ counters'[field] = counters[field] + 1
         /\ \A f \in {"processed", "failed", "deadLettered"} \ {field} : counters'[f] = counters[f]
<1>1. counters' = [counters EXCEPT ![field] = counters[field] + 1]
  BY DEF Count
<1>2. CASE field = "processed"
  BY <1>1, <1>2 DEF Counters
<1>3. CASE field = "failed"
  BY <1>1, <1>3 DEF Counters
<1>4. CASE field = "deadLettered"
  BY <1>1, <1>4 DEF Counters
<1> QED BY <1>2, <1>3, <1>4

LEMMA NoCountsTypes == NoCounts \in Counters /\ <<>> \in Seq(Ids)
BY DEF NoCounts, Counters

(* An attempt that has raised leads to the next one or to giving up.        *)
LEMMA RetryTypes ==
  ASSUME ProcessTypes, RetryOrGiveUp
  PROVE  /\ pc' \in {"handler", "exhausted"}
         /\ attempt' \in 0..(MaxRetries + 1)
         /\ counters' \in Counters
<1>1. CASE pc' = "handler" /\ attempt' = attempt + 1 /\ attempt <= MaxRetries
           /\ UNCHANGED counters
  BY <1>1, StreamAssumption DEF ProcessTypes
<1>2. CASE pc' = "exhausted" /\ Count("failed") /\ UNCHANGED attempt
  BY <1>2, CountTypes DEF ProcessTypes
<1> QED BY <1>1, <1>2 DEF RetryOrGiveUp

LEMMA ExitTypes ==
  ASSUME ProcessTypes, Exit, UNCHANGED lives
  PROVE  ProcessTypes'
<1>1. /\ pc' = "down" /\ attempt' = 0 /\ stopped' = FALSE
      /\ counters' = NoCounts /\ order' = <<>> /\ cached' = {} /\ base' = 0
  BY DEF Exit
<1>2. 0 \in 0..(MaxRetries + 1)
  BY StreamAssumption
<1>3. lives' \in Nat
  BY DEF ProcessTypes
<1> QED BY <1>1, <1>2, <1>3, NoCountsTypes DEF ProcessTypes

(* The oldest ID of a non-empty cache order, and what remains after it.    *)
LEMMA EvictionTypes ==
  ASSUME order \in Seq(Ids), NEW i \in Ids
  PROVE  /\ Append(order, i) \in Seq(Ids)
         /\ Head(Append(order, i)) \in Ids
         /\ Tail(Append(order, i)) \in Seq(Ids)
<1>1. Append(order, i) \in Seq(Ids) /\ Append(order, i) # <<>>
  BY AppendProperties
<1> DEFINE q == Append(order, i)
<1> HIDE DEF q
<1>2. q \in Seq(Ids) /\ q # <<>>
  BY <1>1 DEF q
<1>3. Head(q) \in Ids /\ Tail(q) \in Seq(Ids)
  BY <1>2, HeadTailProperties
<1> QED BY <1>2, <1>3 DEF q

LEMMA BumpTypes ==
  ASSUME NEW f \in [Ids -> Nat], NEW i \in Ids
  PROVE  [f EXCEPT ![i] = @ + 1] \in [Ids -> Nat]
OBVIOUS

LEMMA InitTypes ==
  ASSUME Init
  PROVE  TypeOK
<1>1. <<>> \in Seq(Ids) /\ Len(<<>>) = 0
  OBVIOUS
<1>2. TopicTypes
  BY <1>1 DEF Init, TopicTypes
<1>3. ProcessTypes
  <2>1. counters = NoCounts /\ order = <<>> /\ pc = "down" /\ attempt = 0
    BY DEF Init
  <2>2. stopped \in BOOLEAN /\ cached \subseteq Ids /\ base \in Nat /\ lives \in Nat
    BY DEF Init
  <2>3. 0 \in 0..(MaxRetries + 1)
    BY StreamAssumption
  <2> QED BY <2>1, <2>2, <2>3, NoCountsTypes DEF ProcessTypes
<1>4. EngineTypes
  BY DEF Init, EngineTypes, Zero
<1>5. OffsetTypes
  BY DEF Init, OffsetTypes
<1> QED BY <1>2, <1>3, <1>4, <1>5 DEF TypeOK

(* A message being processed is an ID.                                     *)
LEMMA IdIsId ==
  ASSUME TypeOK, pc \notin {"down", "poll"}
  PROVE  Id \in Ids
<1>1. log \in Seq(Ids) /\ position \in 1..Len(log)
  BY DEF TypeOK, TopicTypes
<1> QED BY <1>1 DEF Id

(* Only Publish changes the topic, and only at its end.                    *)
LEMMA LogGrows ==
  ASSUME TypeOK, [Next]_vars
  PROVE  /\ log' \in Seq(Ids)
         /\ Len(log) \in Nat /\ Len(log') \in Nat /\ Len(log) <= Len(log')
         /\ \A o \in 1..Len(log) : log'[o] = log[o]
         /\ log' = log \/ UNCHANGED <<committed, consumer, cache, engine, outputs, offsets, lives>>
<1>1. log \in Seq(Ids) /\ Len(log) \in Nat
  BY DEF TypeOK, TopicTypes
<1>2. ASSUME NEW i \in Ids, Publish(i)
      PROVE  /\ log' = Append(log, i)
             /\ UNCHANGED <<committed, consumer, cache, engine, outputs, offsets, lives>>
  BY <1>2 DEF Publish
<1>3. CASE log' = log
  BY <1>1, <1>3
<1>4. CASE log' # log
  <2>1. \E i \in Ids : Publish(i)
    BY <1>4 DEF Next, vars, Process, Start, Crash, Stop, AutoCommit, Deliver, DecodeRaises,
                BreakOff, LeaveLoop, BeginMessage, SkipDuplicate, EngineReturns, EngineRaises,
                Remember, PublishDecision, DeadLetter, Engine, Interrupt, CallEngine,
                ValidationRaises
  <2>2. PICK i \in Ids : Publish(i)
    BY <2>1
  <2>3. log' = Append(log, i)
    BY <1>2, <2>2
  <2>4. /\ log' \in Seq(Ids) /\ Len(log') = Len(log) + 1
        /\ \A o \in 1..Len(log) : log'[o] = log[o]
    BY <1>1, <2>3
  <2> QED BY <1>1, <1>2, <2>2, <2>4
<1> QED BY <1>3, <1>4

LEMMA NextTopicTypes ==
  ASSUME TypeOK, [Next]_vars
  PROVE  TopicTypes'
<1> USE StreamAssumption DEF TopicTypes, TypeOK, consumer, cache, engine, outputs, offsets
<1>0. /\ log' \in Seq(Ids) /\ Len(log) \in Nat /\ Len(log') \in Nat /\ Len(log) <= Len(log')
  BY LogGrows
<1>1. ASSUME NEW i \in Ids, Publish(i) PROVE TopicTypes'
  BY <1>1, <1>0 DEF Publish
<1>2. CASE Start
  BY <1>2, <1>0 DEF Start
<1>3. CASE Crash
  BY <1>3, <1>0 DEF Crash, Exit
<1>4. CASE Stop
  BY <1>4, <1>0 DEF Stop
<1>5. CASE AutoCommit
  BY <1>5, <1>0 DEF AutoCommit
<1>6. CASE Deliver
  BY <1>6, <1>0 DEF Deliver
<1>7. CASE DecodeRaises
  BY <1>7, <1>0 DEF DecodeRaises, Exit
<1>8. CASE BreakOff
  BY <1>8, <1>0 DEF BreakOff, Exit
<1>9. CASE LeaveLoop
  BY <1>9, <1>0 DEF LeaveLoop, Exit
<1>10. CASE BeginMessage
  BY <1>10, <1>0 DEF BeginMessage
<1>11. CASE SkipDuplicate
  BY <1>11, <1>0 DEF SkipDuplicate, FinishMessage, Count
<1>12. CASE EngineReturns
  BY <1>12, <1>0 DEF EngineReturns
<1>13. CASE EngineRaises
  BY <1>13, <1>0 DEF EngineRaises, RetryOrGiveUp, Count
<1>14. CASE Remember
  BY <1>14, <1>0 DEF Remember
<1>15. CASE PublishDecision
  BY <1>15, <1>0 DEF PublishDecision, FinishMessage, Count
<1>16. CASE DeadLetter
  BY <1>16, <1>0 DEF DeadLetter, FinishMessage, Count
<1>17. CASE UNCHANGED vars
  BY <1>17 DEF vars
<1>18. CASE Interrupt
  BY <1>18, <1>0 DEF Interrupt, Exit
<1>19. CASE CallEngine
  BY <1>19, <1>0 DEF CallEngine
<1>20. CASE ValidationRaises
  BY <1>20, <1>0 DEF ValidationRaises, RetryOrGiveUp, Count
<1> QED BY <1>1, <1>2, <1>3, <1>4, <1>5, <1>6, <1>7, <1>8, <1>9, <1>10, <1>11, <1>12,
           <1>13, <1>14, <1>15, <1>16, <1>17,
           <1>18, <1>19, <1>20 DEF Next, Process, Engine

LEMMA NextProcessTypes ==
  ASSUME TypeOK, [Next]_vars
  PROVE  ProcessTypes'
<1> USE StreamAssumption DEF ProcessTypes, TypeOK, consumer, cache, engine, outputs, offsets
<1>1. ASSUME NEW i \in Ids, Publish(i) PROVE ProcessTypes'
  BY <1>1 DEF Publish
<1>2. CASE Start
  <2>1. Len(log) \in Nat /\ (committed = Uncommitted \/ committed \in 0..Len(log))
    BY DEF TopicTypes
  <2>2. position' \in Nat
    BY <1>2, <2>1 DEF Start
  <2> QED BY <1>2, <2>2 DEF Start
<1>3. CASE Crash
  BY <1>3, ExitTypes DEF Crash
<1>4. CASE Stop
  BY <1>4 DEF Stop
<1>5. CASE AutoCommit
  BY <1>5 DEF AutoCommit
<1>6. CASE Deliver
  BY <1>6 DEF Deliver
<1>7. CASE DecodeRaises
  BY <1>7, ExitTypes DEF DecodeRaises
<1>8. CASE BreakOff
  BY <1>8, ExitTypes DEF BreakOff
<1>9. CASE LeaveLoop
  BY <1>9, ExitTypes DEF LeaveLoop
<1>10. CASE BeginMessage
  BY <1>10 DEF BeginMessage
<1>11. CASE SkipDuplicate
  BY <1>11, CountTypes DEF SkipDuplicate, FinishMessage
<1>12. CASE EngineReturns
  BY <1>12 DEF EngineReturns
<1>13. CASE EngineRaises
  BY <1>13, RetryTypes DEF EngineRaises
<1>14. CASE Remember
  <2>1. Id \in Ids
    BY <1>14, IdIsId DEF Remember
  <2> DEFINE longer == Append(order, Id)
  <2> DEFINE oldest == Head(longer)
  <2>2. longer \in Seq(Ids) /\ oldest \in Ids /\ Tail(longer) \in Seq(Ids)
    BY <2>1, EvictionTypes
  <2>3. \/ order' = longer /\ cached' = cached \cup {Id} /\ evicted' = evicted
        \/ /\ order' = Tail(longer) /\ cached' = (cached \cup {Id}) \ {oldest}
           /\ evicted' = [evicted EXCEPT ![oldest] = @ + 1]
    BY <1>14 DEF Remember
  <2> HIDE DEF longer, oldest
  <2> QED BY <1>14, <2>1, <2>2, <2>3 DEF Remember
<1>15. CASE PublishDecision
  BY <1>15, CountTypes DEF PublishDecision, FinishMessage
<1>16. CASE DeadLetter
  BY <1>16, CountTypes DEF DeadLetter, FinishMessage
<1>17. CASE UNCHANGED vars
  BY <1>17 DEF vars
<1>18. CASE Interrupt
  BY <1>18, ExitTypes DEF Interrupt
<1>19. CASE CallEngine
  BY <1>19 DEF CallEngine
<1>20. CASE ValidationRaises
  BY <1>20, RetryTypes DEF ValidationRaises
<1> QED BY <1>1, <1>2, <1>3, <1>4, <1>5, <1>6, <1>7, <1>8, <1>9, <1>10, <1>11, <1>12,
           <1>13, <1>14, <1>15, <1>16, <1>17,
           <1>18, <1>19, <1>20 DEF Next, Process, Engine

LEMMA NextEngineTypes ==
  ASSUME TypeOK, [Next]_vars
  PROVE  EngineTypes'
<1> USE StreamAssumption DEF EngineTypes, TypeOK, consumer, cache, engine, outputs, offsets
<1>1. ASSUME NEW i \in Ids, Publish(i) PROVE EngineTypes'
  BY <1>1 DEF Publish
<1>2. CASE Start
  BY <1>2 DEF Start
<1>3. CASE Crash
  BY <1>3 DEF Crash, Exit
<1>4. CASE Stop
  BY <1>4 DEF Stop
<1>5. CASE AutoCommit
  BY <1>5 DEF AutoCommit
<1>6. CASE Deliver
  BY <1>6 DEF Deliver
<1>7. CASE DecodeRaises
  BY <1>7 DEF DecodeRaises, Exit
<1>8. CASE BreakOff
  BY <1>8 DEF BreakOff, Exit
<1>9. CASE LeaveLoop
  BY <1>9 DEF LeaveLoop, Exit
<1>10. CASE BeginMessage
  BY <1>10 DEF BeginMessage
<1>11. CASE SkipDuplicate
  BY <1>11 DEF SkipDuplicate, FinishMessage, Count
<1>12. CASE EngineReturns
  BY <1>12, IdIsId DEF EngineReturns
<1>13. CASE EngineRaises
  BY <1>13, IdIsId DEF EngineRaises
<1>14. CASE Remember
  <2>1. Id \in Ids
    BY <1>14, IdIsId DEF Remember
  <2> DEFINE longer == Append(order, Id)
  <2> DEFINE oldest == Head(longer)
  <2>2. longer \in Seq(Ids) /\ oldest \in Ids /\ Tail(longer) \in Seq(Ids)
    BY <2>1, EvictionTypes DEF ProcessTypes
  <2>3. \/ order' = longer /\ cached' = cached \cup {Id} /\ evicted' = evicted
        \/ /\ order' = Tail(longer) /\ cached' = (cached \cup {Id}) \ {oldest}
           /\ evicted' = [evicted EXCEPT ![oldest] = @ + 1]
    BY <1>14 DEF Remember
  <2> HIDE DEF longer, oldest
  <2>4. evicted' \in [Ids -> Nat]
    <3>1. evicted \in [Ids -> Nat]
      OBVIOUS
    <3>2. [evicted EXCEPT ![oldest] = @ + 1] \in [Ids -> Nat]
      BY <2>2, <3>1, BumpTypes
    <3> QED BY <2>3, <3>1, <3>2
  <2>5. UNCHANGED <<applied, ambiguous, decisions>>
    BY <1>14 DEF Remember
  <2> QED BY <2>4, <2>5
<1>15. CASE PublishDecision
  BY <1>15, IdIsId DEF PublishDecision, FinishMessage, Count
<1>16. CASE DeadLetter
  BY <1>16 DEF DeadLetter, FinishMessage, Count
<1>17. CASE UNCHANGED vars
  BY <1>17 DEF vars
<1>18. CASE Interrupt
  BY <1>18 DEF Interrupt, Exit
<1>19. CASE CallEngine
  BY <1>19 DEF CallEngine
<1>20. CASE ValidationRaises
  BY <1>20 DEF ValidationRaises
<1> QED BY <1>1, <1>2, <1>3, <1>4, <1>5, <1>6, <1>7, <1>8, <1>9, <1>10, <1>11, <1>12,
           <1>13, <1>14, <1>15, <1>16, <1>17,
           <1>18, <1>19, <1>20 DEF Next, Process, Engine

LEMMA NextOffsetTypes ==
  ASSUME TypeOK, [Next]_vars
  PROVE  OffsetTypes'
<1> USE StreamAssumption DEF OffsetTypes, TopicTypes, TypeOK, consumer, cache, engine, outputs,
        offsets
<1>0. /\ Len(log) \in Nat /\ Len(log') \in Nat /\ Len(log) <= Len(log')
  BY LogGrows
<1>1. ASSUME NEW i \in Ids, Publish(i) PROVE OffsetTypes'
  BY <1>1, <1>0 DEF Publish
<1>2. CASE Start
  <2>1. position' \in 0..Len(log)
    BY <1>2, <1>0 DEF Start
  <2>2. skipped' = skipped \cup (1..position' \ (handled \cup abandoned \cup interrupted))
    BY <1>2 DEF Start
  <2>3. 1..position' \subseteq 1..Len(log)
    BY <2>1, <1>0
  <2> QED BY <1>2, <2>2, <2>3 DEF Start
<1>3. CASE Crash
  BY <1>3, <1>0 DEF Crash, Exit
<1>4. CASE Stop
  BY <1>4, <1>0 DEF Stop
<1>5. CASE AutoCommit
  BY <1>5, <1>0 DEF AutoCommit
<1>6. CASE Deliver
  BY <1>6, <1>0 DEF Deliver
<1>7. CASE DecodeRaises
  BY <1>7, <1>0 DEF DecodeRaises, Exit
<1>8. CASE BreakOff
  <2>1. position \in 1..Len(log) /\ log' = log
    BY <1>8, <1>0 DEF BreakOff
  <2>2. abandoned' \subseteq abandoned \cup {position}
    BY <1>8 DEF BreakOff
  <2>3. abandoned' \subseteq 1..Len(log')
    BY <2>1, <2>2
  <2> QED BY <1>8, <2>1, <2>3 DEF BreakOff
<1>9. CASE LeaveLoop
  BY <1>9, <1>0 DEF LeaveLoop, Exit
<1>10. CASE BeginMessage
  BY <1>10, <1>0 DEF BeginMessage
<1>11. CASE SkipDuplicate
  BY <1>11, <1>0 DEF SkipDuplicate, FinishMessage, Count
<1>12. CASE EngineReturns
  BY <1>12, <1>0 DEF EngineReturns
<1>13. CASE EngineRaises
  BY <1>13, <1>0 DEF EngineRaises
<1>14. CASE Remember
  BY <1>14, <1>0 DEF Remember
<1>15. CASE PublishDecision
  BY <1>15, <1>0 DEF PublishDecision, FinishMessage, Count
<1>16. CASE DeadLetter
  <2>1. position \in 1..Len(log) /\ log' = log
    BY <1>16, <1>0 DEF DeadLetter
  <2>2. /\ handled' = handled \cup {position}
        /\ deadLetters' \subseteq deadLetters \cup {position}
        /\ UNCHANGED <<abandoned, interrupted, skipped>>
    BY <1>16 DEF DeadLetter, FinishMessage
  <2>3. deadLetters' \subseteq 1..Len(log')
    BY <2>1, <2>2
  <2> QED BY <2>1, <2>2, <2>3
<1>17. CASE UNCHANGED vars
  BY <1>17 DEF vars
<1>18. CASE Interrupt
  <2>1. pc # "poll" => position \in 1..Len(log)
    BY <1>18, <1>0 DEF Interrupt
  <2>2. interrupted' \subseteq interrupted \cup (IF pc = "poll" THEN {} ELSE {position})
    BY <1>18 DEF Interrupt
  <2>3. interrupted' \subseteq 1..Len(log) /\ log' = log
    BY <1>18, <2>1, <2>2 DEF Interrupt
  <2> QED BY <1>18, <2>3 DEF Interrupt
<1>19. CASE CallEngine
  BY <1>19, <1>0 DEF CallEngine
<1>20. CASE ValidationRaises
  BY <1>20, <1>0 DEF ValidationRaises
<1> QED BY <1>1, <1>2, <1>3, <1>4, <1>5, <1>6, <1>7, <1>8, <1>9, <1>10, <1>11, <1>12,
           <1>13, <1>14, <1>15, <1>16, <1>17,
           <1>18, <1>19, <1>20 DEF Next, Process, Engine

LEMMA NextTypes ==
  ASSUME TypeOK, [Next]_vars
  PROVE  TypeOK'
BY NextTopicTypes, NextProcessTypes, NextEngineTypes, NextOffsetTypes DEF TypeOK

(* The message in hand is the same after a step that does not move on.     *)
LEMMA SameId ==
  ASSUME TypeOK, [Next]_vars, pc \notin {"down", "poll"}, position' = position
  PROVE  Id' = Id
<1>1. position \in 1..Len(log)
  BY DEF TypeOK, TopicTypes
<1> QED BY <1>1, LogGrows DEF Id

----------------------------------------------------------------------------
(* The idempotency cache: its list holds every cached ID once, because a    *)
(* message the engine has taken is of an ID the cache did not hold.         *)
Distinct(q) == \A m, n \in 1..Len(q) : q[m] = q[n] => m = n

CacheInv == /\ CacheInSync
            /\ IsFiniteSet(cached)
            /\ Distinct(order)
            /\ pc \in {"calling", "applied"} => Id \notin cached

LEMMA AppendDistinct ==
  ASSUME NEW q \in Seq(Ids), NEW x \in Ids, Distinct(q), x \notin Range(q)
  PROVE  /\ Distinct(Append(q, x))
         /\ Range(Append(q, x)) = Range(q) \cup {x}
<1>1. /\ Append(q, x) \in Seq(Ids) /\ Len(Append(q, x)) = Len(q) + 1 /\ Len(q) \in Nat
      /\ \A n \in 1..Len(q) : Append(q, x)[n] = q[n]
      /\ Append(q, x)[Len(q) + 1] = x
  BY AppendProperties
<1> DEFINE a == Append(q, x)
<1> HIDE DEF a
<1>2. /\ a \in Seq(Ids) /\ Len(a) = Len(q) + 1 /\ Len(q) \in Nat
      /\ \A n \in 1..Len(q) : a[n] = q[n]
      /\ a[Len(q) + 1] = x
  BY <1>1 DEF a
<1>3. DOMAIN a = 1..(Len(q) + 1) /\ DOMAIN q = 1..Len(q)
  BY <1>2
<1>4. \A n \in 1..Len(q) : q[n] # x
  BY <1>3 DEF Range
<1>5. Distinct(a)
  BY <1>2, <1>4 DEF Distinct
<1>6. Range(a) = Range(q) \cup {x}
  <2>1. ASSUME NEW v \in Range(a) PROVE v \in Range(q) \cup {x}
    <3>1. PICK n \in 1..(Len(q) + 1) : v = a[n]
      BY <1>3, <2>1 DEF Range
    <3>2. CASE n = Len(q) + 1
      BY <1>2, <3>1, <3>2
    <3>3. CASE n \in 1..Len(q)
      BY <1>2, <1>3, <3>1, <3>3 DEF Range
    <3> QED BY <1>2, <3>2, <3>3
  <2>2. ASSUME NEW v \in Range(q) PROVE v \in Range(a)
    <3>1. PICK n \in 1..Len(q) : v = q[n]
      BY <1>3, <2>2 DEF Range
    <3>2. n \in DOMAIN a /\ a[n] = v
      BY <1>2, <1>3, <3>1
    <3> QED BY <3>2 DEF Range
  <2>3. x \in Range(a)
    BY <1>2, <1>3 DEF Range
  <2> QED BY <2>1, <2>2, <2>3
<1> QED BY <1>5, <1>6 DEF a

LEMMA TailDistinct ==
  ASSUME NEW q \in Seq(Ids), q # <<>>, Distinct(q)
  PROVE  /\ Distinct(Tail(q))
         /\ Range(Tail(q)) = Range(q) \ {Head(q)}
         /\ Head(q) \in Range(q)
<1>1. /\ Tail(q) \in Seq(Ids) /\ Len(q) \in Nat \ {0} /\ Len(Tail(q)) = Len(q) - 1
      /\ \A n \in 1..Len(Tail(q)) : Tail(q)[n] = q[n + 1]
      /\ Head(q) = q[1]
  BY HeadTailProperties, EmptySeq, LenProperties
<1> DEFINE t == Tail(q)
<1> HIDE DEF t
<1>2. /\ t \in Seq(Ids) /\ Len(q) \in Nat \ {0} /\ Len(t) = Len(q) - 1
      /\ \A n \in 1..Len(t) : t[n] = q[n + 1]
  BY <1>1 DEF t
<1>3. DOMAIN t = 1..Len(t) /\ DOMAIN q = 1..Len(q)
  BY <1>2
<1>4. Distinct(t)
  <2> SUFFICES ASSUME NEW m \in 1..Len(t), NEW n \in 1..Len(t), t[m] = t[n]
               PROVE  m = n
    BY DEF Distinct
  <2>1. m + 1 \in 1..Len(q) /\ n + 1 \in 1..Len(q) /\ q[m + 1] = q[n + 1]
    BY <1>2
  <2>2. m + 1 = n + 1
    BY <2>1 DEF Distinct
  <2> QED BY <1>2, <2>2
<1>5. Range(t) = Range(q) \ {q[1]}
  <2>1. ASSUME NEW v \in Range(t) PROVE v \in Range(q) \ {q[1]}
    <3>1. PICK n \in 1..Len(t) : v = t[n]
      BY <1>3, <2>1 DEF Range
    <3>2. n + 1 \in 1..Len(q) /\ v = q[n + 1] /\ 1 \in 1..Len(q) /\ n + 1 # 1
      BY <1>2, <3>1
    <3>3. v \in Range(q)
      BY <1>3, <3>2 DEF Range
    <3>4. v # q[1]
      BY <3>2 DEF Distinct
    <3> QED BY <3>3, <3>4
  <2>2. ASSUME NEW v \in Range(q) \ {q[1]} PROVE v \in Range(t)
    <3>1. PICK n \in 1..Len(q) : v = q[n]
      BY <1>3, <2>2 DEF Range
    <3>2. n - 1 \in 1..Len(t)
      BY <1>2, <2>2, <3>1
    <3>3. t[n - 1] = v
      BY <1>2, <3>1, <3>2
    <3> QED BY <1>3, <3>2, <3>3 DEF Range
  <2> QED BY <2>1, <2>2
<1>6. q[1] \in Range(q)
  BY <1>2, <1>3 DEF Range
<1> QED BY <1>1, <1>4, <1>5, <1>6 DEF t

LEMMA EmptyCache ==
  Range(<<>>) = {} /\ Cardinality({}) = 0 /\ IsFiniteSet({}) /\ Distinct(<<>>)
BY FS_EmptySet DEF Range, Distinct

(* Leaving run() drops both structures.                                    *)
LEMMA ExitEmptiesCache ==
  ASSUME Exit
  PROVE  CacheInv'
<1>1. order' = <<>> /\ cached' = {} /\ pc' = "down"
  BY DEF Exit
<1>2. 0 <= CacheSize /\ Len(<<>>) = 0
  BY StreamAssumption
<1>3. CacheInSync'
  BY <1>1, <1>2, EmptyCache DEF CacheInSync
<1> QED BY <1>1, <1>3, EmptyCache DEF CacheInv

LEMMA RememberKeepsCache ==
  ASSUME TypeOK, CacheInv, Remember
  PROVE  CacheInv'
<1>1. /\ pc = "applied" /\ pc' = "remembered"
      /\ IF Len(Append(order, Id)) <= CacheSize
         THEN order' = Append(order, Id) /\ cached' = cached \cup {Id}
         ELSE /\ order' = Tail(Append(order, Id))
              /\ cached' = (cached \cup {Id}) \ {Head(Append(order, Id))}
  BY DEF Remember
<1>2. Id \in Ids /\ order \in Seq(Ids) /\ Id \notin Range(order) /\ Distinct(order)
  BY <1>1, IdIsId DEF CacheInv, CacheInSync, TypeOK, ProcessTypes
<1>3. /\ Distinct(Append(order, Id)) /\ Range(Append(order, Id)) = Range(order) \cup {Id}
  BY <1>2, AppendDistinct
<1>4. /\ Append(order, Id) \in Seq(Ids) /\ Append(order, Id) # <<>>
      /\ Len(Append(order, Id)) = Len(order) + 1 /\ Len(order) \in Nat
  BY <1>2, AppendProperties
<1> DEFINE longer == Append(order, Id)
           more == cached \cup {Id}
<1>5. IsFiniteSet(more) /\ Cardinality(more) = Len(longer) /\ more = Range(longer)
  <2>1. IsFiniteSet(cached) /\ Id \notin cached /\ Cardinality(cached) = Len(order)
    BY <1>1 DEF CacheInv, CacheInSync
  <2>2. IsFiniteSet(cached \cup {Id}) /\ Cardinality(cached \cup {Id}) = Cardinality(cached) + 1
    BY <2>1, FS_AddElement, Zenon
  <2>3. cached = Range(order)
    BY DEF CacheInv, CacheInSync
  <2> QED BY <1>3, <1>4, <2>1, <2>2, <2>3
<1>6. longer \in Seq(Ids) /\ longer # <<>> /\ Distinct(longer) /\ Len(longer) <= CacheSize + 1
  BY <1>3, <1>4, StreamAssumption DEF CacheInv, CacheInSync
<1>7. IF Len(longer) <= CacheSize
      THEN order' = longer /\ cached' = more
      ELSE order' = Tail(longer) /\ cached' = more \ {Head(longer)}
  BY <1>1
<1> HIDE DEF longer, more
<1>8. CASE order' = longer /\ cached' = more /\ Len(longer) <= CacheSize
  BY <1>1, <1>5, <1>6, <1>8 DEF CacheInv, CacheInSync
<1>9. CASE order' = Tail(longer) /\ cached' = more \ {Head(longer)}
  <2>1. /\ Distinct(Tail(longer)) /\ Range(Tail(longer)) = more \ {Head(longer)}
        /\ Head(longer) \in more
    BY <1>5, <1>6, TailDistinct
  <2>2. Len(Tail(longer)) = Len(longer) - 1 /\ Len(longer) \in Nat
    BY <1>6, HeadTailProperties, LenProperties
  <2>3. /\ IsFiniteSet(more \ {Head(longer)})
        /\ Cardinality(more \ {Head(longer)}) = Len(longer) - 1
    BY <1>5, <2>1, FS_RemoveElement
  <2>4. Len(longer) - 1 <= CacheSize
    BY <1>6, <2>2, StreamAssumption
  <2> QED BY <1>1, <1>9, <2>1, <2>2, <2>3, <2>4 DEF CacheInv, CacheInSync
<1> QED BY <1>7, <1>8, <1>9

LEMMA NextCache ==
  ASSUME TypeOK, CacheInv, [Next]_vars
  PROVE  CacheInv'
<1>a. ASSUME UNCHANGED <<order, cached>>, pc' \notin {"calling", "applied"}
      PROVE  CacheInv'
  BY <1>a DEF CacheInv, CacheInSync
<1>b. ASSUME UNCHANGED <<order, cached>>, pc' = pc, position' = position
      PROVE  CacheInv'
  <2>1. pc \in {"calling", "applied"} => Id' = Id
    BY <1>b, SameId
  <2> QED BY <1>b, <2>1 DEF CacheInv, CacheInSync
<1> USE DEF consumer, cache
<1>1. ASSUME NEW i \in Ids, Publish(i) PROVE CacheInv'
  BY <1>1, <1>b DEF Publish
<1>2. CASE Start
  BY <1>2, <1>a DEF Start
<1>3. CASE Crash
  BY <1>3, ExitEmptiesCache DEF Crash
<1>4. CASE Stop
  BY <1>4, <1>b DEF Stop
<1>5. CASE AutoCommit
  BY <1>5, <1>b DEF AutoCommit
<1>6. CASE Deliver
  BY <1>6, <1>a DEF Deliver
<1>7. CASE DecodeRaises
  BY <1>7, ExitEmptiesCache DEF DecodeRaises
<1>8. CASE BreakOff
  BY <1>8, ExitEmptiesCache DEF BreakOff
<1>9. CASE LeaveLoop
  BY <1>9, ExitEmptiesCache DEF LeaveLoop
<1>10. CASE BeginMessage
  BY <1>10, <1>a DEF BeginMessage
<1>11. CASE SkipDuplicate
  BY <1>11, <1>a DEF SkipDuplicate, FinishMessage
<1>12. CASE EngineReturns
  <2>1. Id' = Id
    BY <1>12, SameId DEF EngineReturns
  <2> QED BY <1>12, <2>1 DEF EngineReturns, CacheInv, CacheInSync
<1>13. CASE EngineRaises
  BY <1>13, <1>a, RetryTypes DEF EngineRaises, TypeOK
<1>14. CASE Remember
  BY <1>14, RememberKeepsCache
<1>15. CASE PublishDecision
  BY <1>15, <1>a DEF PublishDecision, FinishMessage
<1>16. CASE DeadLetter
  BY <1>16, <1>a DEF DeadLetter, FinishMessage
<1>17. CASE UNCHANGED vars
  BY <1>17, <1>b DEF vars
<1>18. CASE Interrupt
  BY <1>18, ExitEmptiesCache DEF Interrupt
<1>19. CASE CallEngine
  <2>1. Id' = Id
    BY <1>19, SameId DEF CallEngine
  <2> QED BY <1>19, <2>1 DEF CallEngine, CacheInv, CacheInSync
<1>20. CASE ValidationRaises
  BY <1>20, <1>a, RetryTypes DEF ValidationRaises, TypeOK
<1> QED BY <1>1, <1>2, <1>3, <1>4, <1>5, <1>6, <1>7, <1>8, <1>9, <1>10, <1>11, <1>12,
           <1>13, <1>14, <1>15, <1>16, <1>17,
           <1>18, <1>19, <1>20 DEF Next, Process, Engine

----------------------------------------------------------------------------
(* At most one application per process, eviction and ambiguous call.  The  *)
(* bound alone is not inductive: a live process that does not remember an  *)
(* ID may still apply it, so the bound must hold with one to spare.        *)
MayApply(i) == pc # "down" /\ i \notin cached /\ ~(pc = "applied" /\ Id = i)
Allowed(i) == lives + ambiguous[i] + evicted[i]
AppliedInv == \A i \in Ids : /\ applied[i] <= Allowed(i)
                             /\ MayApply(i) => applied[i] + 1 <= Allowed(i)

(* Numbers that only the listed variables change.                          *)
LEMMA EngineNumbers ==
  ASSUME TypeOK, NEW i \in Ids
  PROVE  /\ lives \in Nat /\ applied[i] \in Nat /\ ambiguous[i] \in Nat
         /\ evicted[i] \in Nat /\ decisions[i] \in Nat
BY DEF TypeOK, EngineTypes, ProcessTypes

LEMMA NextApplied ==
  ASSUME TypeOK, CacheInv, AppliedInv, [Next]_vars
  PROVE  AppliedInv'
<1> SUFFICES ASSUME NEW i \in Ids
             PROVE  /\ applied'[i] <= Allowed(i)'
                    /\ MayApply(i)' => applied'[i] + 1 <= Allowed(i)'
  BY DEF AppliedInv
<1> DEFINE Kept == UNCHANGED <<lives, applied, ambiguous, evicted>>
<1>a. /\ lives \in Nat /\ applied[i] \in Nat /\ ambiguous[i] \in Nat /\ evicted[i] \in Nat
      /\ applied[i] <= Allowed(i)
      /\ MayApply(i) => applied[i] + 1 <= Allowed(i)
  BY EngineNumbers DEF AppliedInv
<1>b. ASSUME Kept, MayApply(i)' => MayApply(i)
      PROVE  /\ applied'[i] <= Allowed(i)'
             /\ MayApply(i)' => applied'[i] + 1 <= Allowed(i)'
  BY <1>a, <1>b DEF Allowed
<1>c. pc \notin {"down", "poll"} /\ position' = position => Id' = Id
  BY SameId
<1> USE DEF consumer, cache, engine, outputs, offsets
<1>1. ASSUME NEW j \in Ids, Publish(j) PROVE Kept /\ (MayApply(i)' => MayApply(i))
  BY <1>1, <1>c DEF Publish, MayApply
<1>2. CASE Start
  BY <1>2, <1>a DEF Start, MayApply, Allowed
<1>3. CASE Crash
  BY <1>3, <1>b DEF Crash, Exit, MayApply
<1>4. CASE Stop
  BY <1>4, <1>b, <1>c DEF Stop, MayApply
<1>5. CASE AutoCommit
  BY <1>5, <1>b DEF AutoCommit, MayApply
<1>6. CASE Deliver
  BY <1>6, <1>b DEF Deliver, MayApply
<1>7. CASE DecodeRaises
  BY <1>7, <1>b DEF DecodeRaises, Exit, MayApply
<1>8. CASE BreakOff
  BY <1>8, <1>b DEF BreakOff, Exit, MayApply
<1>9. CASE LeaveLoop
  BY <1>9, <1>b DEF LeaveLoop, Exit, MayApply
<1>10. CASE BeginMessage
  BY <1>10, <1>b DEF BeginMessage, MayApply
<1>11. CASE SkipDuplicate
  BY <1>11, <1>b DEF SkipDuplicate, FinishMessage, MayApply
<1>12. CASE EngineReturns
  <2>1. CASE i = Id
    <3>1. MayApply(i) /\ applied'[i] = applied[i] + 1
      BY <1>12, <2>1 DEF EngineReturns, MayApply, CacheInv, TypeOK, EngineTypes
    <3>2. Allowed(i)' = Allowed(i)
      BY <1>12 DEF EngineReturns, Allowed
    <3>3. ~MayApply(i)'
      BY <1>12, <1>c, <2>1 DEF EngineReturns, MayApply
    <3> QED BY <1>a, <3>1, <3>2, <3>3
  <2>2. CASE i # Id
    <3>1. applied'[i] = applied[i] /\ Allowed(i)' = Allowed(i)
      BY <1>12, <2>2 DEF EngineReturns, Allowed, TypeOK, EngineTypes
    <3>2. MayApply(i)' => MayApply(i)
      BY <1>12 DEF EngineReturns, MayApply
    <3> QED BY <1>a, <3>1, <3>2
  <2> QED BY <2>1, <2>2
<1>13. CASE EngineRaises
  <2>1. MayApply(i)' => MayApply(i)
    BY <1>13 DEF EngineRaises, MayApply
  <2>2. CASE UNCHANGED engine
    BY <1>13, <1>b, <2>1, <2>2 DEF EngineRaises
  <2>3. CASE /\ applied' = [applied EXCEPT ![Id] = @ + 1]
             /\ ambiguous' = [ambiguous EXCEPT ![Id] = @ + 1]
    <3>1. UNCHANGED <<lives, evicted>>
      BY <1>13 DEF EngineRaises
    <3>2. CASE i = Id
      <4>1. applied'[i] = applied[i] + 1 /\ ambiguous'[i] = ambiguous[i] + 1
        BY <2>3, <3>2 DEF TypeOK, EngineTypes
      <4> QED BY <1>a, <2>1, <3>1, <4>1 DEF Allowed
    <3>3. CASE i # Id
      <4>1. applied'[i] = applied[i] /\ ambiguous'[i] = ambiguous[i]
        BY <2>3, <3>3 DEF TypeOK, EngineTypes
      <4> QED BY <1>a, <2>1, <3>1, <4>1 DEF Allowed
    <3> QED BY <3>2, <3>3
  <2> QED BY <1>13, <2>2, <2>3 DEF EngineRaises
<1>14. CASE Remember
  <2> DEFINE oldest == Head(Append(order, Id))
  <2>1. pc = "applied" /\ pc' = "remembered" /\ UNCHANGED <<lives, applied, ambiguous>>
    BY <1>14 DEF Remember
  <2>2. \/ cached' = cached \cup {Id} /\ evicted' = evicted
        \/ /\ cached' = (cached \cup {Id}) \ {oldest}
           /\ evicted' = [evicted EXCEPT ![oldest] = @ + 1]
    BY <1>14 DEF Remember
  <2> HIDE DEF oldest
  <2>3. CASE cached' = cached \cup {Id} /\ evicted' = evicted
    BY <1>b, <2>1, <2>3 DEF MayApply
  <2>4. CASE /\ cached' = (cached \cup {Id}) \ {oldest}
             /\ evicted' = [evicted EXCEPT ![oldest] = @ + 1]
    <3>1. CASE i = oldest
      <4>1. evicted'[i] = evicted[i] + 1
        BY <2>4, <3>1 DEF TypeOK, EngineTypes
      <4> QED BY <1>a, <2>1, <4>1 DEF Allowed
    <3>2. CASE i # oldest
      <4>1. evicted'[i] = evicted[i]
        BY <2>4, <3>2 DEF TypeOK, EngineTypes
      <4>2. MayApply(i)' => MayApply(i)
        BY <2>1, <2>4, <3>2 DEF MayApply
      <4> QED BY <1>a, <2>1, <4>1, <4>2 DEF Allowed
    <3> QED BY <3>1, <3>2
  <2> QED BY <2>2, <2>3, <2>4
<1>15. CASE PublishDecision
  BY <1>15, <1>b DEF PublishDecision, FinishMessage, MayApply
<1>16. CASE DeadLetter
  BY <1>16, <1>b DEF DeadLetter, FinishMessage, MayApply
<1>17. CASE UNCHANGED vars
  BY <1>17, <1>b DEF vars, MayApply, Id
<1>18. CASE Interrupt
  BY <1>18, <1>b DEF Interrupt, Exit, MayApply
<1>19. CASE CallEngine
  BY <1>19, <1>b DEF CallEngine, MayApply
<1>20. CASE ValidationRaises
  BY <1>20, <1>b DEF ValidationRaises, MayApply
<1> QED BY <1>1, <1>b, <1>2, <1>3, <1>4, <1>5, <1>6, <1>7, <1>8, <1>9, <1>10, <1>11, <1>12,
           <1>13, <1>14, <1>15, <1>16, <1>17,
           <1>18, <1>19, <1>20 DEF Next, Process, Engine

----------------------------------------------------------------------------
(* A decision is published at most once per application that returned: the *)
(* application whose decision is still unpublished is one to spare.        *)
Owed(i) == pc \in {"applied", "remembered"} /\ Id = i
DecisionsInv == \A i \in Ids : /\ decisions[i] + ambiguous[i] <= applied[i]
                               /\ Owed(i) => decisions[i] + ambiguous[i] + 1 <= applied[i]

LEMMA NextDecisions ==
  ASSUME TypeOK, DecisionsInv, [Next]_vars
  PROVE  DecisionsInv'
<1> SUFFICES ASSUME NEW i \in Ids
             PROVE  /\ decisions'[i] + ambiguous'[i] <= applied'[i]
                    /\ Owed(i)' => decisions'[i] + ambiguous'[i] + 1 <= applied'[i]
  BY DEF DecisionsInv
<1> DEFINE Kept == UNCHANGED <<applied, ambiguous, decisions>>
<1>a. /\ applied[i] \in Nat /\ ambiguous[i] \in Nat /\ decisions[i] \in Nat
      /\ decisions[i] + ambiguous[i] <= applied[i]
      /\ Owed(i) => decisions[i] + ambiguous[i] + 1 <= applied[i]
  BY EngineNumbers DEF DecisionsInv
<1>b. ASSUME Kept, Owed(i)' => Owed(i)
      PROVE  /\ decisions'[i] + ambiguous'[i] <= applied'[i]
             /\ Owed(i)' => decisions'[i] + ambiguous'[i] + 1 <= applied'[i]
  BY <1>a, <1>b
<1>c. pc \notin {"down", "poll"} /\ position' = position => Id' = Id
  BY SameId
<1> USE DEF consumer, cache, engine, outputs, offsets
<1>1. ASSUME NEW j \in Ids, Publish(j) PROVE Kept /\ (Owed(i)' => Owed(i))
  BY <1>1, <1>c DEF Publish, Owed
<1>2. CASE Start
  BY <1>2, <1>b DEF Start, Owed
<1>3. CASE Crash
  BY <1>3, <1>b DEF Crash, Exit, Owed
<1>4. CASE Stop
  BY <1>4, <1>b, <1>c DEF Stop, Owed
<1>5. CASE AutoCommit
  BY <1>5, <1>b DEF AutoCommit, Owed
<1>6. CASE Deliver
  BY <1>6, <1>b DEF Deliver, Owed
<1>7. CASE DecodeRaises
  BY <1>7, <1>b DEF DecodeRaises, Exit, Owed
<1>8. CASE BreakOff
  BY <1>8, <1>b DEF BreakOff, Exit, Owed
<1>9. CASE LeaveLoop
  BY <1>9, <1>b DEF LeaveLoop, Exit, Owed
<1>10. CASE BeginMessage
  BY <1>10, <1>b DEF BeginMessage, Owed
<1>11. CASE SkipDuplicate
  BY <1>11, <1>b DEF SkipDuplicate, FinishMessage, Owed
<1>12. CASE EngineReturns
  <2>1. UNCHANGED <<ambiguous, decisions>>
    BY <1>12 DEF EngineReturns
  <2>2. CASE i = Id
    <3>1. applied'[i] = applied[i] + 1
      BY <1>12, <2>2 DEF EngineReturns, TypeOK, EngineTypes
    <3> QED BY <1>a, <2>1, <3>1
  <2>3. CASE i # Id
    <3>1. applied'[i] = applied[i]
      BY <1>12, <2>3 DEF EngineReturns, TypeOK, EngineTypes
    <3>2. ~Owed(i)'
      BY <1>12, <1>c, <2>3 DEF EngineReturns, Owed
    <3> QED BY <1>a, <2>1, <3>1, <3>2
  <2> QED BY <2>2, <2>3
<1>13. CASE EngineRaises
  <2>1. ~Owed(i)' /\ decisions' = decisions
    BY <1>13, RetryTypes DEF EngineRaises, Owed, TypeOK
  <2>2. CASE UNCHANGED engine
    BY <1>b, <2>1, <2>2
  <2>3. CASE /\ applied' = [applied EXCEPT ![Id] = @ + 1]
             /\ ambiguous' = [ambiguous EXCEPT ![Id] = @ + 1]
    <3>1. CASE i = Id
      <4>1. applied'[i] = applied[i] + 1 /\ ambiguous'[i] = ambiguous[i] + 1
        BY <2>3, <3>1 DEF TypeOK, EngineTypes
      <4> QED BY <1>a, <2>1, <4>1
    <3>2. CASE i # Id
      <4>1. applied'[i] = applied[i] /\ ambiguous'[i] = ambiguous[i]
        BY <2>3, <3>2 DEF TypeOK, EngineTypes
      <4> QED BY <1>a, <2>1, <4>1
    <3> QED BY <3>1, <3>2
  <2> QED BY <1>13, <2>2, <2>3 DEF EngineRaises
<1>14. CASE Remember
  BY <1>14, <1>b, <1>c DEF Remember, Owed
<1>15. CASE PublishDecision
  <2>1. ~Owed(i)' /\ UNCHANGED <<applied, ambiguous>>
    BY <1>15 DEF PublishDecision, FinishMessage, Owed
  <2>2. CASE i = Id
    <3>1. Owed(i)
      BY <1>15, <2>2 DEF PublishDecision, Owed
    <3>2. decisions'[i] = decisions[i] \/ decisions'[i] = decisions[i] + 1
      BY <1>15, <2>2 DEF PublishDecision, TypeOK, EngineTypes
    <3> QED BY <1>a, <2>1, <3>1, <3>2
  <2>3. CASE i # Id
    <3>1. decisions'[i] = decisions[i]
      BY <1>15, <2>3 DEF PublishDecision, TypeOK, EngineTypes
    <3> QED BY <1>a, <2>1, <3>1
  <2> QED BY <2>2, <2>3
<1>16. CASE DeadLetter
  BY <1>16, <1>b DEF DeadLetter, FinishMessage, Owed
<1>17. CASE UNCHANGED vars
  BY <1>17, <1>b DEF vars, Owed, Id
<1>18. CASE Interrupt
  BY <1>18, <1>b DEF Interrupt, Exit, Owed
<1>19. CASE CallEngine
  BY <1>19, <1>b DEF CallEngine, Owed
<1>20. CASE ValidationRaises
  BY <1>20, <1>b, RetryTypes DEF ValidationRaises, Owed, TypeOK
<1> QED BY <1>1, <1>b, <1>2, <1>3, <1>4, <1>5, <1>6, <1>7, <1>8, <1>9, <1>10, <1>11, <1>12,
           <1>13, <1>14, <1>15, <1>16, <1>17,
           <1>18, <1>19, <1>20 DEF Next, Process, Engine

----------------------------------------------------------------------------
(* Everything before the position of a live process, and everything below  *)
(* the committed offset, has been dealt with.  A live process has cut no   *)
(* message short yet, which is why each process does so at most once.      *)
Done == IF pc = "poll" THEN position ELSE position - 1
CommittedInv == /\ committed # Uncommitted => 1..committed \subseteq DealtWith
                /\ pc # "down" => 1..Done \subseteq DealtWith
                /\ IsFiniteSet(CutShort)
                /\ Cardinality(CutShort) + (IF pc = "down" THEN 0 ELSE 1) <= lives

(* A process that ends and commits its position has at most cut short the  *)
(* message there.                                                          *)
LEMMA EndCutsShort ==
  ASSUME TypeOK, CommittedInv, pc # "down", pc' = "down", UNCHANGED lives,
         handled' = handled, skipped' = skipped,
         \/ UNCHANGED <<committed, CutShort>>
         \/ pc = "poll" /\ committed' = position /\ UNCHANGED CutShort
         \/ pc # "poll" /\ committed' = position /\ CutShort' = CutShort \cup ({position} \ handled)
  PROVE  CommittedInv'
<1>0. /\ position \in Nat /\ Len(log) \in Nat /\ lives \in Nat
      /\ Cardinality(CutShort) \in Nat
  BY FS_CardinalityType DEF TypeOK, TopicTypes, ProcessTypes, CommittedInv
<1>k. /\ committed # Uncommitted => 1..committed \subseteq DealtWith
      /\ 1..Done \subseteq DealtWith
      /\ IsFiniteSet(CutShort)
      /\ Cardinality(CutShort) + 1 <= lives
  BY DEF CommittedInv
<1>1. CASE UNCHANGED <<committed, CutShort>>
  BY <1>0, <1>k, <1>1 DEF CommittedInv, DealtWith
<1>2. CASE pc = "poll" /\ committed' = position /\ UNCHANGED CutShort
  BY <1>0, <1>k, <1>2 DEF CommittedInv, DealtWith, Done
<1>3. CASE /\ pc # "poll" /\ committed' = position
           /\ CutShort' = CutShort \cup ({position} \ handled)
  <2>1. 1..position \subseteq 1..(position - 1) \cup {position}
    BY <1>0
  <2>2. 1..(position - 1) \subseteq DealtWith
    BY <1>k, <1>3 DEF Done
  <2>3. 1..committed' \subseteq DealtWith'
    <3> HIDE DEF CutShort
    <3> QED BY <1>3, <2>1, <2>2 DEF DealtWith
  <2>4. IsFiniteSet(CutShort') /\ Cardinality(CutShort') <= Cardinality(CutShort) + 1
    <3> HIDE DEF CutShort
    <3>1. CASE position \in handled
      <4>1. CutShort' = CutShort
        BY <1>3, <3>1
      <4> QED BY <1>0, <1>k, <4>1
    <3>2. CASE position \notin handled
      <4> DEFINE more == CutShort \cup {position}
      <4>1. CutShort' = more
        BY <1>3, <3>2
      <4>2. IsFiniteSet(more)
            /\ Cardinality(more) = IF position \in CutShort THEN Cardinality(CutShort)
                                   ELSE Cardinality(CutShort) + 1
        BY <1>k, FS_AddElement
      <4> HIDE DEF more
      <4> QED BY <1>0, <4>1, <4>2
    <3> QED BY <3>1, <3>2
  <2>5. Cardinality(CutShort') \in Nat
    BY <2>4, FS_CardinalityType
  <2>6. Cardinality(CutShort') <= lives
    BY <1>0, <1>k, <2>4, <2>5
  <2> QED BY <2>3, <2>4, <2>5, <2>6 DEF CommittedInv
<1> QED BY <1>1, <1>2, <1>3

LEMMA NextCommitted ==
  ASSUME TypeOK, CommittedInv, [Next]_vars
  PROVE  CommittedInv'
<1>0. /\ position \in Nat /\ Len(log) \in Nat /\ lives \in Nat
      /\ committed = Uncommitted \/ committed \in Nat
      /\ Uncommitted \notin Nat
      /\ Cardinality(CutShort) \in Nat
  BY StreamAssumption, FS_CardinalityType DEF TypeOK, TopicTypes, ProcessTypes, CommittedInv
<1>k. /\ committed # Uncommitted => 1..committed \subseteq DealtWith
      /\ pc # "down" => 1..Done \subseteq DealtWith
      /\ IsFiniteSet(CutShort)
      /\ Cardinality(CutShort) + (IF pc = "down" THEN 0 ELSE 1) <= lives
  BY DEF CommittedInv
<1> USE DEF consumer, cache, engine, outputs, offsets, CutShort
<1>1. ASSUME NEW j \in Ids, Publish(j) PROVE CommittedInv'
  BY <1>1, <1>k DEF Publish, CommittedInv, DealtWith, Done
<1>2. CASE Start
  <2>1. /\ pc' = "poll" /\ lives' = lives + 1 /\ pc = "down"
        /\ UNCHANGED <<committed, handled, abandoned, interrupted>>
        /\ skipped' = skipped \cup (1..position' \ (handled \cup abandoned \cup interrupted))
    BY <1>2 DEF Start
  <2>2. 1..Done' \subseteq DealtWith'
    BY <2>1 DEF Done, DealtWith
  <2>3. committed' # Uncommitted => 1..committed' \subseteq DealtWith'
    BY <1>k, <2>1 DEF DealtWith
  <2> QED BY <1>0, <1>k, <2>1, <2>2, <2>3 DEF CommittedInv
<1>3. CASE Crash
  BY <1>3, <1>0, <1>k DEF Crash, Exit, CommittedInv, DealtWith
<1>4. CASE Stop
  BY <1>4, <1>k DEF Stop, CommittedInv, DealtWith, Done
<1>5. CASE AutoCommit
  BY <1>5, <1>k DEF AutoCommit, CommittedInv, DealtWith, Done
<1>6. CASE Deliver
  <2>1. /\ pc = "poll" /\ pc' = "yielded" /\ position' = position + 1
        /\ UNCHANGED <<committed, handled, abandoned, interrupted, skipped, lives>>
    BY <1>6 DEF Deliver
  <2>2. Done' = Done
    BY <1>0, <2>1 DEF Done
  <2> QED BY <1>k, <2>1, <2>2 DEF CommittedInv, DealtWith
<1>7. CASE DecodeRaises
  BY <1>7, EndCutsShort DEF DecodeRaises, Exit
<1>8. CASE BreakOff
  <2>1. /\ pc = "yielded" /\ pc' = "down" /\ UNCHANGED <<handled, interrupted, skipped, lives>>
    BY <1>8 DEF BreakOff, Exit
  <2>2. \/ UNCHANGED <<committed, CutShort>>
        \/ committed' = position /\ CutShort' = CutShort \cup ({position} \ handled)
    BY <1>8, <2>1 DEF BreakOff
  <2> QED BY <2>1, <2>2, EndCutsShort
<1>9. CASE LeaveLoop
  BY <1>9, EndCutsShort DEF LeaveLoop, Exit
<1>10. CASE BeginMessage
  BY <1>10, <1>k DEF BeginMessage, CommittedInv, DealtWith, Done
<1>f. ASSUME FinishMessage, pc \notin {"down", "poll"}, UNCHANGED <<committed, position, lives>>
      PROVE  CommittedInv'
  <2>1. /\ pc' = "poll" /\ handled' = handled \cup {position}
        /\ UNCHANGED <<abandoned, interrupted, skipped>>
    BY <1>f DEF FinishMessage
  <2>2. 1..(position - 1) \subseteq DealtWith
    BY <1>f, <1>k DEF Done
  <2>3. 1..position \subseteq 1..(position - 1) \cup {position}
    BY <1>0
  <2>4. 1..Done' \subseteq DealtWith'
    BY <1>f, <2>1, <2>2, <2>3 DEF Done, DealtWith
  <2> QED BY <1>f, <1>k, <2>1, <2>4 DEF CommittedInv, DealtWith
<1>11. CASE SkipDuplicate
  BY <1>11, <1>f DEF SkipDuplicate
<1>12. CASE EngineReturns
  BY <1>12, <1>k DEF EngineReturns, CommittedInv, DealtWith, Done
<1>13. CASE EngineRaises
  <2>1. pc \notin {"down", "poll"} /\ pc' \notin {"down", "poll"}
    BY <1>13, RetryTypes DEF EngineRaises, TypeOK
  <2> QED BY <1>13, <2>1, <1>k DEF EngineRaises, CommittedInv, DealtWith, Done
<1>14. CASE Remember
  BY <1>14, <1>k DEF Remember, CommittedInv, DealtWith, Done
<1>15. CASE PublishDecision
  BY <1>15, <1>f DEF PublishDecision
<1>16. CASE DeadLetter
  BY <1>16, <1>f DEF DeadLetter
<1>17. CASE UNCHANGED vars
  BY <1>17, <1>k DEF vars, CommittedInv, DealtWith, Done
<1>18. CASE Interrupt
  <2>1. /\ pc # "down" /\ pc' = "down" /\ UNCHANGED <<handled, abandoned, skipped, lives>>
    BY <1>18 DEF Interrupt, Exit
  <2>2. \/ UNCHANGED <<committed, CutShort>>
        \/ pc = "poll" /\ committed' = position /\ UNCHANGED CutShort
        \/ /\ pc # "poll" /\ committed' = position
           /\ CutShort' = CutShort \cup ({position} \ handled)
    BY <1>18, <2>1 DEF Interrupt
  <2> QED BY <2>1, <2>2, EndCutsShort
<1>19. CASE CallEngine
  BY <1>19, <1>k DEF CallEngine, CommittedInv, DealtWith, Done
<1>20. CASE ValidationRaises
  <2>1. pc \notin {"down", "poll"} /\ pc' \notin {"down", "poll"}
    BY <1>20, RetryTypes DEF ValidationRaises, TypeOK
  <2> QED BY <1>20, <2>1, <1>k DEF ValidationRaises, CommittedInv, DealtWith, Done
<1> QED BY <1>1, <1>2, <1>3, <1>4, <1>5, <1>6, <1>7, <1>8, <1>9, <1>10, <1>11, <1>12,
           <1>13, <1>14, <1>15, <1>16, <1>17,
           <1>18, <1>19, <1>20 DEF Next, Process, Engine

----------------------------------------------------------------------------
(* The counters.  A message that has failed for good is counted before it   *)
(* is dead-lettered, so a dead letter still owed leaves one to spare.       *)
CountedInv ==
  /\ AccountingExact
  /\ pc = "exhausted" => counters.deadLettered + 1 <= counters.failed
  /\ pc = "down" => counters = NoCounts

LEMMA NextCounted ==
  ASSUME TypeOK, CountedInv, [Next]_vars
  PROVE  CountedInv'
<1>a. /\ counters \in Counters /\ position \in Nat /\ base \in Nat
      /\ counters.processed \in Nat /\ counters.failed \in Nat /\ counters.deadLettered \in Nat
  BY DEF TypeOK, ProcessTypes, TopicTypes, Counters
<1>b. ASSUME UNCHANGED <<counters, position, base>>, InFlight' = InFlight,
             pc # "down", pc' \notin {"down", "exhausted"}
      PROVE  CountedInv'
  BY <1>b DEF CountedInv, AccountingExact
<1>c. ASSUME Exit PROVE CountedInv'
  BY <1>c DEF Exit, CountedInv, AccountingExact
<1>d. ASSUME UNCHANGED <<counters, position, base, pc>>
      PROVE  CountedInv'
  BY <1>d DEF CountedInv, AccountingExact, InFlight
<1> USE DEF consumer, cache
<1>1. ASSUME NEW i \in Ids, Publish(i) PROVE CountedInv'
  BY <1>1, <1>d DEF Publish
<1>2. CASE Start
  <2>1. counters = NoCounts
    BY <1>2 DEF Start, CountedInv
  <2>2. \E n \in Nat : position' = n /\ base' = n
    BY <1>2, NextTypes DEF Start, TypeOK, TopicTypes
  <2>3. pc' = "poll" /\ counters' = counters
    BY <1>2 DEF Start
  <2>4. /\ counters'.processed = 0 /\ counters'.failed = 0 /\ counters'.deadLettered = 0
    BY <2>1, <2>3 DEF NoCounts
  <2>5. PICK n \in Nat : position' = n /\ base' = n
    BY <2>2
  <2> QED BY <2>3, <2>4, <2>5 DEF CountedInv, AccountingExact, InFlight
<1>3. CASE Crash
  BY <1>3, <1>c DEF Crash
<1>4. CASE Stop
  BY <1>4, <1>d DEF Stop
<1>5. CASE AutoCommit
  BY <1>5, <1>d DEF AutoCommit
<1>6. CASE Deliver
  BY <1>6, <1>a DEF Deliver, CountedInv, AccountingExact, InFlight
<1>7. CASE DecodeRaises
  BY <1>7, <1>c DEF DecodeRaises
<1>8. CASE BreakOff
  BY <1>8, <1>c DEF BreakOff
<1>9. CASE LeaveLoop
  BY <1>9, <1>c DEF LeaveLoop
<1>10. CASE BeginMessage
  BY <1>10, <1>b DEF BeginMessage, InFlight
<1>11. CASE SkipDuplicate
  <2>1. /\ pc = "handler" /\ pc' = "poll" /\ UNCHANGED <<position, base>> /\ Count("processed")
    BY <1>11 DEF SkipDuplicate, FinishMessage
  <2> QED BY <1>a, <2>1, CountTypes DEF CountedInv, AccountingExact, InFlight
<1>12. CASE EngineReturns
  BY <1>12, <1>b DEF EngineReturns, InFlight
<1>e. ASSUME pc \in {"handler", "calling"}, UNCHANGED <<position, base>>, RetryOrGiveUp
      PROVE  CountedInv'
  <2>1. CASE pc' = "handler" /\ UNCHANGED counters
    BY <1>e, <2>1, <1>b DEF InFlight
  <2>2. CASE pc' = "exhausted" /\ Count("failed")
    BY <1>a, <1>e, <2>2, CountTypes DEF CountedInv, AccountingExact, InFlight
  <2> QED BY <1>e, <2>1, <2>2 DEF RetryOrGiveUp
<1>13. CASE EngineRaises
  BY <1>13, <1>e DEF EngineRaises
<1>14. CASE Remember
  BY <1>14, <1>b DEF Remember, InFlight
<1>15. CASE PublishDecision
  <2>1. /\ pc = "remembered" /\ pc' = "poll" /\ UNCHANGED <<position, base>>
        /\ Count("processed")
    BY <1>15 DEF PublishDecision, FinishMessage
  <2> QED BY <1>a, <2>1, CountTypes DEF CountedInv, AccountingExact, InFlight
<1>16. CASE DeadLetter
  <2>1. pc = "exhausted" /\ pc' = "poll" /\ UNCHANGED <<position, base>>
    BY <1>16 DEF DeadLetter, FinishMessage
  <2>2. CASE UNCHANGED counters
    BY <1>a, <2>1, <2>2 DEF CountedInv, AccountingExact, InFlight
  <2>3. CASE Count("deadLettered")
    BY <1>a, <2>1, <2>3, CountTypes DEF CountedInv, AccountingExact, InFlight
  <2> QED BY <1>16, <2>2, <2>3 DEF DeadLetter
<1>17. CASE UNCHANGED vars
  BY <1>17, <1>d DEF vars
<1>18. CASE Interrupt
  BY <1>18, <1>c DEF Interrupt
<1>19. CASE CallEngine
  BY <1>19, <1>b DEF CallEngine, InFlight
<1>20. CASE ValidationRaises
  BY <1>20, <1>e DEF ValidationRaises
<1> QED BY <1>1, <1>2, <1>3, <1>4, <1>5, <1>6, <1>7, <1>8, <1>9, <1>10, <1>11, <1>12,
           <1>13, <1>14, <1>15, <1>16, <1>17,
           <1>18, <1>19, <1>20 DEF Next, Process, Engine

----------------------------------------------------------------------------
(* Every reachable state has the right types.                              *)
THEOREM TypeCorrect == Spec => []TypeOK
<1>1. Init => TypeOK
  BY InitTypes
<1>2. TypeOK /\ [Next]_vars => TypeOK'
  BY NextTypes
<1> QED BY <1>1, <1>2, PTL DEF Spec

(* The strengthened form of CacheInSync, which two theorems need.           *)
LEMMA CacheInvariant == Spec => []CacheInv
<1>1. Init => CacheInv
  <2> SUFFICES ASSUME Init PROVE CacheInv
    OBVIOUS
  <2>1. order = <<>> /\ cached = {} /\ pc = "down" /\ 0 <= CacheSize /\ Len(<<>>) = 0
    BY StreamAssumption DEF Init
  <2> QED BY <2>1, EmptyCache DEF CacheInv, CacheInSync
<1>2. TypeOK /\ CacheInv /\ [Next]_vars => CacheInv'
  BY NextCache
<1> QED BY <1>1, <1>2, TypeCorrect, PTL DEF Spec

(* The limits of the idempotency cache, for every cache size and failure:  *)
(* a transaction is applied at most once per process, eviction of its ID   *)
(* and engine call that raised after applying it.                          *)
THEOREM AtMostOncePerCause == Spec => []AppliedBound
<1>1. Init => AppliedInv
  BY DEF Init, AppliedInv, MayApply, Allowed, Zero
<1>2. TypeOK /\ CacheInv /\ AppliedInv /\ [Next]_vars => AppliedInv'
  BY NextApplied
<1>3. AppliedInv => AppliedBound
  BY DEF AppliedInv, AppliedBound, Allowed
<1> QED BY <1>1, <1>2, <1>3, TypeCorrect, CacheInvariant, PTL DEF Spec

(* No decision without an application of its own.                          *)
THEOREM DecisionsAreBacked == Spec => []DecisionsBacked
<1>1. Init => DecisionsInv
  BY DEF Init, DecisionsInv, Owed, Zero
<1>2. TypeOK /\ DecisionsInv /\ [Next]_vars => DecisionsInv'
  BY NextDecisions
<1>3. DecisionsInv => DecisionsBacked
  BY DEF DecisionsInv, DecisionsBacked
<1> QED BY <1>1, <1>2, <1>3, TypeCorrect, PTL DEF Spec

(* At-least-once with its exceptions: whatever crashes, stops or raises, the *)
(* committed offset passes only what was handled, skipped by a start        *)
(* without a committed offset, or cut short by a stop or by an exception    *)
(* that left run(), once per process (kafka_client.py:199, 207-208).        *)
THEOREM CommittedOffsetsAreDealtWith == Spec => []CommittedIsHandled
<1>1. Init => CommittedInv
  <2> SUFFICES ASSUME Init PROVE CommittedInv
    OBVIOUS
  <2>1. CutShort = {} /\ pc = "down" /\ committed = Uncommitted /\ lives = 0
    BY DEF Init, CutShort
  <2> HIDE DEF CutShort
  <2> QED BY <2>1, FS_EmptySet DEF CommittedInv
<1>2. TypeOK /\ CommittedInv /\ [Next]_vars => CommittedInv'
  BY NextCommitted
<1>3. TypeOK /\ CommittedInv => CommittedIsHandled
  <2> SUFFICES ASSUME TypeOK, CommittedInv PROVE CommittedIsHandled
    OBVIOUS
  <2>1. Cardinality(CutShort) \in Nat /\ lives \in Nat
    BY FS_CardinalityType DEF CommittedInv, TypeOK, ProcessTypes
  <2> QED BY <2>1 DEF CommittedInv, CommittedIsHandled
<1> QED BY <1>1, <1>2, <1>3, TypeCorrect, PTL DEF Spec

(* The list and the dictionary of the idempotency cache never part, for    *)
(* every cache size, whatever is retried, evicted or crashes               *)
(* (fraud_processing_consumer.py, _remember).                              *)
THEOREM CacheStaysInSync == Spec => []CacheInSync
<1>1. CacheInv => CacheInSync
  BY DEF CacheInv
<1> QED BY <1>1, CacheInvariant, PTL

(* Every message a process has taken is counted once, as processed, failed  *)
(* or in hand, for every number of retries (kafka_client.py, _process_one). *)
THEOREM AccountingIsExact == Spec => []AccountingExact
<1>1. Init => CountedInv
  BY DEF Init, CountedInv, AccountingExact
<1>2. TypeOK /\ CountedInv /\ [Next]_vars => CountedInv'
  BY NextCounted
<1>3. CountedInv => AccountingExact
  BY DEF CountedInv
<1> QED BY <1>1, <1>2, <1>3, TypeCorrect, PTL DEF Spec
=============================================================================
