------------------------ MODULE KernelTelemetryProofs ------------------------
(***************************************************************************)
(* Theorems about KernelTelemetry: the agent's queue is bounded, what the  *)
(* agent takes for acknowledged is durable, no event is recorded twice,    *)
(* and all of it together implements EventLog.                             *)
(***************************************************************************)
EXTENDS KernelTelemetry, TLAPS

\* Removing an element of a sequence makes it one shorter.
LEMMA RemoveAtType ==
    ASSUME NEW S, NEW s \in Seq(S), NEW i \in 1..Len(s)
    PROVE  RemoveAt(s, i) \in Seq(S) /\ Len(RemoveAt(s, i)) = Len(s) - 1
<1>1. SubSeq(s, 1, i - 1) \in Seq(S) /\ Len(SubSeq(s, 1, i - 1)) = i - 1
  OBVIOUS
<1>2. SubSeq(s, i + 1, Len(s)) \in Seq(S) /\ Len(SubSeq(s, i + 1, Len(s))) = Len(s) - i
  OBVIOUS
<1>3. ASSUME NEW a \in Seq(S), NEW b \in Seq(S)
      PROVE  a \o b \in Seq(S) /\ Len(a \o b) = Len(a) + Len(b)
  OBVIOUS
<1>4. RemoveAt(s, i) \in Seq(S)
      /\ Len(RemoveAt(s, i)) = Len(SubSeq(s, 1, i - 1)) + Len(SubSeq(s, i + 1, Len(s)))
  BY <1>1, <1>2, <1>3 DEF RemoveAt
<1>5. Len(s) \in Nat /\ i \in Int
  OBVIOUS
<1>6. \A l, k \in Int : (k - 1) + (l - k) = l - 1
  OBVIOUS
<1>7. Len(RemoveAt(s, i)) = (i - 1) + (Len(s) - i)
  BY <1>1, <1>2, <1>4
<1>8. (i - 1) + (Len(s) - i) = Len(s) - 1
  BY <1>5, <1>6
<1> QED BY <1>4, <1>7, <1>8

\* A queue is cut into the events of a batch and the rest.
LEMMA CutType ==
    ASSUME NEW S, NEW s \in Seq(S), NEW k \in 0..Len(s)
    PROVE  /\ SubSeq(s, 1, k) \in Seq(S) /\ Len(SubSeq(s, 1, k)) = k
           /\ SubSeq(s, k + 1, Len(s)) \in Seq(S)
           /\ Len(SubSeq(s, k + 1, Len(s))) = Len(s) - k
OBVIOUS

\* "No batch in flight" is a batch without events.
LEMMA NoBatchType == NoBatch \in Batch /\ Len(NoBatch.events) = 0
<1>1. <<>> \in Seq(Event) /\ Len(<<>>) = 0
  OBVIOUS
<1> QED BY <1>1 DEF NoBatch, Batch

\* The part of TypeOK about the agent and the requests it sends.
AgentType ==
    /\ queue \in Seq(Event) /\ drops \in Nat /\ sequence \in Nat
    /\ flight \in Batch /\ requests \subseteq Batch
    /\ produced \in Nat /\ attempts \in Nat

\* The length of the batch that Flush takes.
LEMMA FlushStep ==
    ASSUME AgentType, Flush
    PROVE  /\ queue' \in Seq(Event) /\ drops' \in Nat
           /\ flight' \in Batch /\ requests' \subseteq Batch /\ attempts' \in Nat
           /\ Len(flight'.events) <= BatchMax
           /\ Len(queue') + Len(flight'.events) = Len(queue)
<1> DEFINE count == IF Len(queue) > BatchMax THEN BatchMax ELSE Len(queue)
           batch == [attempt |-> attempts + 1, seq |-> sequence + 1,
                     events |-> SubSeq(queue, 1, count), drops |-> drops]
<1>1. count \in 0..Len(queue) /\ count <= BatchMax
  BY TelemetryAssumption DEF AgentType
<1>2. /\ SubSeq(queue, 1, count) \in Seq(Event)
      /\ Len(SubSeq(queue, 1, count)) = count
      /\ SubSeq(queue, count + 1, Len(queue)) \in Seq(Event)
      /\ Len(SubSeq(queue, count + 1, Len(queue))) = Len(queue) - count
  <2> HIDE DEF count
  <2> QED BY <1>1, CutType DEF AgentType
<1>3. /\ queue' = SubSeq(queue, count + 1, Len(queue))
      /\ flight' = batch /\ requests' = requests \cup {batch}
      /\ drops' = 0 /\ attempts' = attempts + 1
  BY DEF Flush
<1> HIDE DEF count
<1>4. batch \in Batch
  BY <1>2 DEF Batch, AgentType
<1>5. batch.events = SubSeq(queue, 1, count)
  OBVIOUS
<1> HIDE DEF batch
<1>6. Len(flight'.events) = count /\ Len(queue') = Len(queue) - count
  BY <1>2, <1>3, <1>5
<1>7. Len(queue) \in Nat /\ count \in Nat
  BY <1>1 DEF AgentType
<1>8. Len(queue') + Len(flight'.events) = Len(queue)
  BY <1>6, <1>7
<1>9. Len(flight'.events) <= BatchMax
  BY <1>1, <1>6
<1>10. drops' \in Nat /\ attempts' \in Nat
  BY <1>3 DEF AgentType
<1>11. flight' \in Batch /\ requests' \subseteq Batch /\ queue' \in Seq(Event)
  BY <1>2, <1>3, <1>4 DEF AgentType
<1> QED BY <1>8, <1>9, <1>10, <1>11

\* Enqueue makes a queue longer only while it has room.
LEMMA EnqueueStep ==
    ASSUME AgentType, NEW priority \in BOOLEAN, Enqueue(priority)
    PROVE  /\ queue' \in Seq(Event) /\ drops' \in Nat /\ produced' \in Nat
           /\ \/ Len(queue) < Capacity /\ Len(queue') = Len(queue) + 1
              \/ Len(queue') = Len(queue)
<1> DEFINE event == [n |-> produced + 1, priority |-> priority]
<1>1. event \in Event /\ produced' = produced + 1 /\ produced' \in Nat
  BY DEF AgentType, Event, Enqueue
<1> HIDE DEF event
<1>2. AddDrop \in Nat
  BY TelemetryAssumption DEF AddDrop, AgentType
<1>3. CASE Len(queue) < Capacity /\ queue' = Append(queue, event) /\ UNCHANGED drops
  BY <1>1, <1>3 DEF AgentType
<1>4. CASE drops' = AddDrop /\ UNCHANGED queue
  BY <1>1, <1>2, <1>4 DEF AgentType
<1>5. ASSUME NEW i \in 1..Len(queue),
             drops' = AddDrop, queue' = Append(RemoveAt(queue, i), event)
      PROVE  /\ queue' \in Seq(Event) /\ drops' \in Nat /\ produced' \in Nat
             /\ Len(queue') = Len(queue)
  <2>1. RemoveAt(queue, i) \in Seq(Event) /\ Len(RemoveAt(queue, i)) = Len(queue) - 1
    BY RemoveAtType DEF AgentType
  <2>2. Append(RemoveAt(queue, i), event) \in Seq(Event)
        /\ Len(Append(RemoveAt(queue, i), event)) = (Len(queue) - 1) + 1
    BY <1>1, <2>1
  <2> QED BY <1>1, <1>2, <1>5, <2>2 DEF AgentType
<1> QED BY <1>3, <1>4, <1>5 DEF Enqueue, event

-----------------------------------------------------------------------------
(* Type correctness.                                                       *)

DrainType == [pc : {"off", "flush", "sent", "post", "done"}, seq : Nat]
HandlerType == [batch : Batch, next : Nat]
DiskType == [stream : Seq(Entry), cursor : Nat]

ServerType == /\ handler \in HandlerType /\ (handler # Idle => handler.next > 0)
              /\ stream \in Seq(Entry)
              /\ cursor \in Nat /\ disk \in DiskType

\* The type invariant by the side that each part belongs to.
LEMMA TypeParts ==
    TypeOK <=> AgentType /\ ServerType /\ drain \in DrainType /\ restarts \in Nat
BY DEF TypeOK, AgentType, ServerType, DrainType, HandlerType, DiskType

\* A handler that is idle is a handler.
LEMMA IdleType == Idle \in HandlerType
BY NoBatchType DEF Idle, HandlerType

\* What an acknowledgement changes.
LEMMA AcknowledgeStep ==
    ASSUME AgentType, drain \in DrainType, NEW b \in Batch, Acknowledge(b)
    PROVE  /\ sequence' \in Nat /\ sequence' \in {sequence, b.seq}
           /\ flight' \in Batch /\ flight' \in {flight, NoBatch}
           /\ drain' \in DrainType
<1>1. b.seq \in Nat
  BY DEF Batch
<1>2. CASE UNCHANGED <<sequence, flight, drain>>
  BY <1>2 DEF AgentType
<1>3. CASE UNCHANGED drain /\ sequence' = b.seq /\ flight' = NoBatch
  BY <1>1, <1>3, NoBatchType DEF AgentType
<1>4. CASE /\ drain' = [drain EXCEPT !.pc = "post", !.seq = b.seq]
           /\ sequence' = b.seq /\ flight' = NoBatch
  BY <1>1, <1>4, NoBatchType DEF AgentType, DrainType
<1> QED BY <1>2, <1>3, <1>4 DEF Acknowledge

\* RecordEvent appends one entry of the batch at hand, or nothing.
LEMMA RecordStep ==
    ASSUME AgentType, ServerType, NEW index \in Nat, NEW n \in Nat,
           RecordEvent(index, n)
    PROVE  /\ stream' \in Seq(Entry) /\ disk' \in DiskType
           /\ \/ UNCHANGED <<stream, disk>>
              \/ \E entry \in Entry :
                    /\ entry.batch = handler.batch.seq
                    /\ stream' = Append(stream, entry)
                    /\ disk' \in {disk, [stream |-> stream', cursor |-> cursor]}
<1> DEFINE entry == [batch |-> handler.batch.seq, index |-> index, n |-> n,
                     drops |-> IF index <= 1 THEN handler.batch.drops ELSE 0]
<1>1. entry \in Entry /\ entry.batch = handler.batch.seq
  BY DEF Entry, ServerType, HandlerType, Batch
<1>2. CASE UNCHANGED <<stream, disk>>
  BY <1>2 DEF ServerType
<1>3. CASE stream' = Append(stream, entry) /\ Persist(stream', cursor)
  <2> HIDE DEF entry
  <2>1. stream' \in Seq(Entry)
    BY <1>1, <1>3 DEF ServerType
  <2>2. disk' \in {disk, [stream |-> stream', cursor |-> cursor]}
    BY <1>3 DEF Persist
  <2>3. disk' \in DiskType
    BY <2>1, <2>2 DEF ServerType, DiskType
  <2> QED BY <1>1, <1>3, <2>1, <2>2, <2>3
<1> QED BY <1>2, <1>3 DEF RecordEvent

\* Both ingest steps are a RecordEvent.
LEMMA IngestRecords ==
    ASSUME ServerType, IngestEvent \/ IngestDrops
    PROVE  \E index, n \in Nat : RecordEvent(index, n)
<1>1. CASE IngestEvent
  <2>1. /\ handler.next \in Nat /\ handler.next > 0
        /\ handler.batch.events \in Seq(Event)
        /\ handler.next <= Len(handler.batch.events)
    BY <1>1 DEF IngestEvent, ServerType, HandlerType, Batch
  <2>2. handler.next \in 1..Len(handler.batch.events)
    BY <2>1
  <2>3. handler.batch.events[handler.next] \in Event
    BY <2>1, <2>2
  <2>4. handler.batch.events[handler.next].n \in Nat
    BY <2>3 DEF Event
  <2> QED BY <1>1, <2>1, <2>4 DEF IngestEvent
<1>2. CASE IngestDrops
  BY <1>2 DEF IngestDrops
<1> QED BY <1>1, <1>2

\* The three ways to take up a request.
LEMMA AcceptStep ==
    ASSUME AgentType, ServerType, drain \in DrainType, NEW b \in requests,
           AcceptBatch(b)
    PROVE  /\ sequence' \in Nat /\ flight' \in Batch /\ drain' \in DrainType
           /\ handler' \in HandlerType /\ requests' \subseteq Batch
           /\ flight' \in {flight, NoBatch}
           /\ \/ handler' = handler /\ (sequence' = sequence \/ sequence' = cursor)
              \/ /\ handler' = [batch |-> b, next |-> 1] /\ b.seq > cursor
                 /\ sequence' = sequence
<1>1. b \in Batch
  BY DEF AgentType
<1>2. CASE b.seq > cursor
  <2>1. [batch |-> b, next |-> 1] \in HandlerType
    BY <1>1 DEF HandlerType
  <2> QED BY <1>2, <2>1 DEF AcceptBatch, AgentType
<1>3. CASE ~(b.seq > cursor) /\ b.seq = cursor
  BY <1>1, <1>3, AcknowledgeStep DEF AcceptBatch, AgentType, ServerType
<1>4. CASE ~(b.seq > cursor) /\ b.seq # cursor
  BY <1>4 DEF AcceptBatch, AgentType, ServerType
<1> QED BY <1>2, <1>3, <1>4

\* FlushFails puts the batch back in front of the queue.
LEMMA FailStep ==
    ASSUME AgentType, drain \in DrainType, FlushFails
    PROVE  /\ queue' \in Seq(Event) /\ drops' \in Nat /\ flight' = NoBatch
           /\ drain' \in DrainType
           /\ Len(queue') = Len(queue) + Len(flight.events)
<1>1. flight.events \in Seq(Event) /\ flight.drops \in Nat
  BY DEF AgentType, Batch
<1>2. queue' \in Seq(Event) /\ Len(queue') = Len(flight.events) + Len(queue)
  BY <1>1 DEF FlushFails, AgentType
<1>3. Len(flight.events) \in Nat /\ Len(queue) \in Nat
  BY <1>1 DEF AgentType
<1>4. drops' \in Nat
  <2>1. drops \in Nat /\ MaxDrops \in Nat
    BY TelemetryAssumption DEF AgentType
  <2>2. PICK one \in Nat :
          drops' = IF drops + flight.drops + one > MaxDrops THEN MaxDrops
                   ELSE drops + flight.drops + one
    BY DEF FlushFails
  <2> QED BY <1>1, <2>1, <2>2
<1>5. drain' \in DrainType /\ flight' = NoBatch
  BY DEF FlushFails, DrainType
<1> QED BY <1>2, <1>3, <1>4, <1>5

\* Every step keeps the types.
LEMMA TypeStep == TypeOK /\ [Next]_vars => TypeOK'
<1> SUFFICES ASSUME TypeOK, [Next]_vars
             PROVE  AgentType' /\ ServerType' /\ drain' \in DrainType /\ restarts' \in Nat
  BY DEF TypeOK, AgentType, ServerType, DrainType, HandlerType, DiskType
<1>0. AgentType /\ ServerType /\ drain \in DrainType /\ restarts \in Nat
  BY TypeParts
<1>1. ASSUME NEW priority \in BOOLEAN, Enqueue(priority)
      PROVE  AgentType' /\ ServerType' /\ drain' \in DrainType /\ restarts' \in Nat
  <2>1. queue' \in Seq(Event) /\ drops' \in Nat /\ produced' \in Nat
    BY <1>0, <1>1, EnqueueStep
  <2>2. UNCHANGED <<sequence, flight, requests, serverVars, drain, attempts, restarts>>
    BY <1>1 DEF Enqueue
  <2> QED BY <1>0, <2>1, <2>2 DEF AgentType, ServerType, serverVars
<1>2. CASE RunFlush
  <2>1. Flush /\ UNCHANGED drain
    BY <1>2 DEF RunFlush
  <2>2. UNCHANGED <<sequence, serverVars, produced, restarts>>
    BY <2>1 DEF Flush
  <2> QED BY <1>0, <2>1, <2>2, FlushStep DEF AgentType, ServerType, serverVars
<1>3. CASE DrainFlush
  <2>1. Flush /\ drain' \in DrainType
    BY <1>0, <1>3 DEF DrainFlush, DrainType
  <2>2. UNCHANGED <<sequence, serverVars, produced, restarts>>
    BY <2>1 DEF Flush
  <2> QED BY <1>0, <2>1, <2>2, FlushStep DEF AgentType, ServerType, serverVars
<1>4. CASE FlushFails
  <2>1. UNCHANGED <<sequence, requests, serverVars, produced, attempts, restarts>>
    BY <1>4 DEF FlushFails
  <2> QED BY <1>0, <1>4, <2>1, FailStep, NoBatchType DEF AgentType, ServerType, serverVars
<1>5. CASE Disarm \/ DrainFlushNothing \/ PostDisarmed
  <2>1. UNCHANGED <<agentVars, requests, serverVars, produced, attempts, restarts>>
    BY <1>5 DEF Disarm, DrainFlushNothing, PostDisarmed
  <2>2. drain' \in DrainType
    BY <1>0, <1>5 DEF Disarm, DrainFlushNothing, PostDisarmed, DrainType, AgentType
  <2> QED BY <1>0, <2>1, <2>2 DEF AgentType, ServerType, agentVars, serverVars
<1>6. ASSUME NEW b \in requests, LoseRequest(b)
      PROVE  AgentType' /\ ServerType' /\ drain' \in DrainType /\ restarts' \in Nat
  BY <1>0, <1>6 DEF LoseRequest, AgentType, ServerType, agentVars, serverVars
<1>7. ASSUME NEW b \in requests, AcceptBatch(b)
      PROVE  AgentType' /\ ServerType' /\ drain' \in DrainType /\ restarts' \in Nat
  <2>1. UNCHANGED <<queue, drops, stream, cursor, disk, produced, attempts, restarts>>
    BY <1>7 DEF AcceptBatch
  <2>2. /\ sequence' \in Nat /\ flight' \in Batch /\ drain' \in DrainType
        /\ handler' \in HandlerType /\ requests' \subseteq Batch
        /\ handler' # Idle => handler'.next > 0
    BY <1>0, <1>7, AcceptStep DEF ServerType
  <2> QED BY <1>0, <2>1, <2>2 DEF AgentType, ServerType
<1>8. CASE IngestEvent \/ IngestDrops
  <2>1. UNCHANGED <<agentVars, requests, cursor, drain, produced, attempts, restarts>>
    BY <1>8 DEF IngestEvent, IngestDrops
  <2>2. handler' \in HandlerType /\ handler'.next > 0
    BY <1>0, <1>8 DEF IngestEvent, IngestDrops, ServerType, HandlerType
  <2>3. \E index, n \in Nat : RecordEvent(index, n)
    BY <1>0, <1>8, IngestRecords
  <2>4. stream' \in Seq(Entry) /\ disk' \in DiskType
    BY <1>0, <2>3, RecordStep
  <2> QED BY <1>0, <2>1, <2>2, <2>4 DEF AgentType, ServerType, agentVars
<1>9. CASE CommitKernelBatch
  <2>1. /\ handler' = Idle /\ cursor' = handler.batch.seq
        /\ disk' = [stream |-> stream, cursor |-> cursor']
        /\ Acknowledge(handler.batch)
        /\ UNCHANGED <<queue, drops, requests, stream, produced, attempts, restarts>>
    BY <1>9 DEF CommitKernelBatch
  <2>2. handler.batch \in Batch /\ cursor' \in Nat
    BY <1>0, <2>1 DEF ServerType, HandlerType, Batch
  <2>3. disk' \in DiskType /\ handler' \in HandlerType
    BY <1>0, <2>1, <2>2, IdleType DEF ServerType, DiskType
  <2>4. sequence' \in Nat /\ flight' \in Batch /\ drain' \in DrainType
    BY <1>0, <2>1, <2>2, AcknowledgeStep
  <2> QED BY <1>0, <2>1, <2>2, <2>3, <2>4 DEF AgentType, ServerType
<1>10. CASE CommitFails
  BY <1>0, <1>10, IdleType DEF CommitFails, AgentType, ServerType, agentVars
<1>11. CASE ControlRestart
  <2>1. disk.stream \in Seq(Entry) /\ disk.cursor \in Nat
    BY <1>0 DEF ServerType, DiskType
  <2> QED BY <1>0, <1>11, <2>1, IdleType
        DEF ControlRestart, AgentType, ServerType, agentVars
<1>12. CASE AgentRestart
  <2>1. drain' \in DrainType /\ <<>> \in Seq(Event)
    BY <1>12 DEF AgentRestart, TelemetryCursor, DrainType
  <2> QED BY <1>0, <1>12, <2>1, NoBatchType
        DEF AgentRestart, TelemetryCursor, AgentType, ServerType, serverVars
<1>13. CASE UNCHANGED vars
  BY <1>0, <1>13 DEF vars, AgentType, ServerType, agentVars, serverVars
<1>14. CASE AddKernelDrops
  BY <1>0, <1>14 DEF AddKernelDrops, AddDrop, AgentType, ServerType, serverVars
<1> QED BY <1>1, <1>2, <1>3, <1>4, <1>5, <1>6, <1>7, <1>8, <1>9, <1>10, <1>11,
          <1>12, <1>13, <1>14 DEF Next

\* Every variable keeps its type.
THEOREM TypeCorrect == Spec => []TypeOK
<1>1. Init => TypeOK
  <2>1. <<>> \in Seq(Event) /\ <<>> \in Seq(Entry)
    OBVIOUS
  <2> QED BY <2>1, NoBatchType, IdleType
        DEF Init, TypeOK, HandlerType
<1> QED BY <1>1, TypeStep, PTL DEF Spec

-----------------------------------------------------------------------------
(* The queue of the agent is bounded.                                      *)

\* Inductive with the bound on the batch in flight.
QueueInv == QueueBounded /\ Len(flight.events) <= BatchMax

\* Every step keeps the bound: a batch that goes back is counted already.
LEMMA QueueStep == TypeOK /\ QueueInv /\ [Next]_vars => QueueInv'
<1> SUFFICES ASSUME TypeOK, QueueInv, [Next]_vars
             PROVE  QueueInv'
  OBVIOUS
<1> USE DEF QueueInv, QueueBounded
<1>0. /\ AgentType /\ ServerType /\ drain \in DrainType
      /\ Len(queue) \in Nat /\ Len(flight.events) \in Nat
      /\ Capacity \in Nat /\ BatchMax \in Nat
  BY TypeParts, TelemetryAssumption DEF AgentType, Batch
<1>1. ASSUME NEW priority \in BOOLEAN, Enqueue(priority)
      PROVE  QueueInv'
  <2>1. \/ Len(queue) < Capacity /\ Len(queue') = Len(queue) + 1
        \/ Len(queue') = Len(queue)
    BY <1>0, <1>1, EnqueueStep
  <2>2. UNCHANGED flight
    BY <1>1 DEF Enqueue
  <2> QED BY <1>0, <2>1, <2>2
<1>2. CASE RunFlush \/ DrainFlush
  <2>1. Flush /\ flight = NoBatch
    BY <1>2 DEF RunFlush, DrainFlush, Flush
  <2>2. /\ Len(queue') + Len(flight'.events) = Len(queue)
        /\ Len(flight'.events) <= BatchMax
    BY <1>0, <2>1, FlushStep
  <2> QED BY <1>0, <2>2
<1>3. CASE FlushFails
  <2>1. flight' = NoBatch /\ Len(queue') = Len(queue) + Len(flight.events)
    BY <1>0, <1>3, FailStep
  <2> QED BY <1>0, <2>1, NoBatchType
<1>4. ASSUME UNCHANGED queue, flight' \in {flight, NoBatch}
      PROVE  QueueInv'
  BY <1>0, <1>4, NoBatchType
<1>5. CASE Disarm \/ DrainFlushNothing \/ PostDisarmed \/ IngestEvent \/ IngestDrops
           \/ CommitFails \/ ControlRestart \/ UNCHANGED vars
  <2>1. UNCHANGED agentVars
    BY <1>5 DEF Disarm, DrainFlushNothing, PostDisarmed, IngestEvent, IngestDrops,
                CommitFails, ControlRestart, vars
  <2> QED BY <1>4, <2>1 DEF agentVars
<1>6. ASSUME NEW b \in requests, LoseRequest(b) \/ AcceptBatch(b)
      PROVE  QueueInv'
  <2>1. CASE LoseRequest(b)
    BY <1>4, <2>1 DEF LoseRequest, agentVars
  <2>2. CASE AcceptBatch(b)
    <3>1. UNCHANGED queue
      BY <2>2 DEF AcceptBatch
    <3> QED BY <1>0, <1>4, <2>2, <3>1, AcceptStep
  <2> QED BY <1>6, <2>1, <2>2
<1>7. CASE CommitKernelBatch
  <2>1. Acknowledge(handler.batch) /\ UNCHANGED queue /\ handler.batch \in Batch
    BY <1>0, <1>7 DEF CommitKernelBatch, ServerType, HandlerType
  <2> QED BY <1>0, <1>4, <2>1, AcknowledgeStep
<1>8. CASE AgentRestart
  <2>1. queue' = <<>> /\ flight' = NoBatch
    BY <1>8 DEF AgentRestart, TelemetryCursor
  <2>2. Len(queue') = 0
    BY <2>1
  <2> QED BY <1>0, <2>1, <2>2, NoBatchType
<1>9. CASE AddKernelDrops
  BY <1>4, <1>9 DEF AddKernelDrops
<1> QED BY <1>1, <1>2, <1>3, <1>5, <1>6, <1>7, <1>8, <1>9 DEF Next

\* The agent never holds more than its capacity and one batch, however often
\* batches fail and come back (QueueBounded).
THEOREM QueueIsBounded == Spec => []QueueBounded
<1>1. Init => QueueInv
  BY NoBatchType, TelemetryAssumption DEF Init, QueueInv, QueueBounded
<1>2. QueueInv => QueueBounded
  BY DEF QueueInv
<1> QED BY <1>1, <1>2, TypeCorrect, QueueStep, PTL DEF Spec

-----------------------------------------------------------------------------
(* What the agent takes for acknowledged is durable.                       *)

\* The cursor in memory is the durable one, and the batch at hand is newer.
CursorInv == /\ cursor = disk.cursor
             /\ handler # Idle => handler.batch.seq > cursor

DurableInv == CursorInv /\ AcknowledgedIsDurable

\* Every step keeps the cursor durable and ahead of the agent.
LEMMA DurableStep == TypeOK /\ DurableInv /\ [Next]_vars => DurableInv'
<1> SUFFICES ASSUME TypeOK, DurableInv, [Next]_vars
             PROVE  DurableInv'
  OBVIOUS
<1> USE DEF DurableInv, CursorInv, AcknowledgedIsDurable
<1>0. AgentType /\ ServerType /\ drain \in DrainType
  BY TypeParts
<1>1. ASSUME UNCHANGED serverVars, UNCHANGED sequence
      PROVE  DurableInv'
  BY <1>1 DEF serverVars
<1>2. CASE (\E priority \in BOOLEAN : Enqueue(priority)) \/ UNCHANGED vars
           \/ AddKernelDrops \/ RunFlush \/ DrainFlush \/ FlushFails
           \/ Disarm \/ DrainFlushNothing \/ PostDisarmed
           \/ (\E b \in requests : LoseRequest(b))
  BY <1>1, <1>2 DEF Enqueue, AddKernelDrops, RunFlush, DrainFlush, Flush, FlushFails, Disarm,
       DrainFlushNothing, PostDisarmed, LoseRequest, vars, agentVars
<1>3. ASSUME NEW b \in requests, AcceptBatch(b)
      PROVE  DurableInv'
  <2>1. UNCHANGED <<stream, cursor, disk>>
    BY <1>3 DEF AcceptBatch
  <2>2. sequence' \in {sequence, cursor}
    BY <1>0, <1>3, AcceptStep
  <2>3. handler' # Idle => handler'.batch.seq > cursor
    BY <1>0, <1>3, AcceptStep
  <2> QED BY <1>0, <2>1, <2>2, <2>3 DEF AgentType, ServerType
<1>4. CASE IngestEvent \/ IngestDrops
  <2>1. UNCHANGED <<sequence, cursor>> /\ handler # Idle
    BY <1>4 DEF IngestEvent, IngestDrops, agentVars
  <2>2. handler'.batch = handler.batch
    BY <1>0, <1>4 DEF IngestEvent, IngestDrops, ServerType, HandlerType
  <2>3. \E index, n \in Nat : RecordEvent(index, n)
    BY <1>0, <1>4, IngestRecords
  <2>4. CASE UNCHANGED <<stream, disk>>
    BY <2>1, <2>2, <2>4
  <2>5. ASSUME NEW entry \in Entry, entry.batch = handler.batch.seq,
               stream' = Append(stream, entry),
               disk' \in {disk, [stream |-> stream', cursor |-> cursor]}
        PROVE  DurableInv'
    <3>1. disk'.cursor = cursor
      BY <2>5
    <3>2. handler.batch.seq > cursor /\ handler.batch.seq \in Nat /\ cursor \in Nat
      BY <1>0, <2>1 DEF ServerType, HandlerType, Batch
    <3>3. CASE disk' = [stream |-> stream', cursor |-> cursor]
      BY <2>1, <2>2, <3>1, <3>2, <3>3
    <3>4. CASE disk' = disk
      <4>1. ASSUME NEW i \in DOMAIN stream', stream'[i].batch <= cursor
            PROVE  i \in DOMAIN stream /\ stream'[i] = stream[i]
        <5>1. i # Len(stream) + 1
          BY <1>0, <2>5, <3>2, <4>1 DEF ServerType
        <5> QED BY <1>0, <2>5, <4>1, <5>1 DEF ServerType
      <4> QED BY <2>1, <2>2, <3>1, <3>2, <3>4, <4>1
    <3> QED BY <2>5, <3>3, <3>4
  <2> QED BY <1>0, <2>3, <2>4, <2>5, RecordStep
<1>5. CASE CommitKernelBatch
  <2>1. /\ handler # Idle /\ handler' = Idle /\ cursor' = handler.batch.seq
        /\ disk' = [stream |-> stream, cursor |-> cursor']
        /\ Acknowledge(handler.batch) /\ UNCHANGED stream
    BY <1>5 DEF CommitKernelBatch, Ingested
  <2>2. handler.batch \in Batch /\ handler.batch.seq \in Nat /\ cursor \in Nat
    BY <1>0 DEF ServerType, HandlerType, Batch
  <2>3. sequence' \in {sequence, handler.batch.seq} /\ sequence \in Nat
    BY <1>0, <2>1, <2>2, AcknowledgeStep DEF AgentType
  <2> QED BY <2>1, <2>2, <2>3
<1>6. CASE CommitFails
  BY <1>6 DEF CommitFails, agentVars
<1>7. CASE ControlRestart
  BY <1>7 DEF ControlRestart, agentVars
<1>8. CASE AgentRestart
  BY <1>0, <1>8 DEF AgentRestart, TelemetryCursor, serverVars, ServerType
<1> QED BY <1>2, <1>3, <1>4, <1>5, <1>6, <1>7, <1>8 DEF Next

\* It holds in every reachable state.
LEMMA DurableAlways == Spec => []DurableInv
<1>1. Init => DurableInv
  BY DEF Init, DurableInv, CursorInv, AcknowledgedIsDurable
<1> QED BY <1>1, TypeCorrect, DurableStep, PTL DEF Spec

\* The agent's sequence number never runs ahead of the durable cursor, and
\* the checkpoint holds every event of the batches up to it, whichever
\* checkpoint, answer or process fails (AcknowledgedIsDurable).
THEOREM AcknowledgedDurable == Spec => []AcknowledgedIsDurable
<1>1. DurableInv => AcknowledgedIsDurable
  BY DEF DurableInv
<1> QED BY <1>1, DurableAlways, PTL

-----------------------------------------------------------------------------
(* No event is recorded twice.                                             *)

\* Position j of batch k has been recorded in st; event n is in st.
Filled(st, k, j) == \E i \in DOMAIN st : st[i].batch = k /\ st[i].index = j
Has(st, n) == n > 0 /\ \E i \in DOMAIN st : st[i].n = n
Unique(st) == \A i, j \in DOMAIN st : st[i].n = st[j].n /\ st[i].n > 0 => i = j
Known(st, last) == \A i \in DOMAIN st : st[i].n <= last

\* The events of h are different ones of those the kernel reported.
Numbered(h, last) ==
    /\ \A p \in DOMAIN h : h[p].n \in 1..last
    /\ \A p, q \in DOMAIN h : h[p].n = h[q].n => p = q

\* What the agent would send next if the batch in flight failed now, how much
\* of it may have been sent before, and the batches that may be ingested.
Held == flight.events \o queue
Bound == IF flight = NoBatch THEN BatchMax ELSE Len(flight.events)
Pending == (requests \cup {handler.batch}) \ {NoBatch}

\* An event the agent still holds and that is in st came there from an earlier
\* attempt of the next batch: every position up to its own is taken.
HeldIn(st, h, k, m) ==
    \A p \in DOMAIN h : Has(st, h[p].n) =>
        p <= m /\ \A j \in 1..p : Filled(st, k + 1, j)

\* A pending batch that has an event the agent still holds is such an attempt.
\* Evictions move events forward, so it had the event at a later position.
Attempts(P, h, k, m) ==
    \A b \in P : \A j \in DOMAIN b.events : \A p \in DOMAIN h :
        b.events[j].n = h[p].n =>
            /\ b.seq = k + 1 /\ p <= j
            /\ Len(b.events) <= Len(h) /\ Len(b.events) <= m

\* Two pending batches that share an event are attempts of the same batch.
Overlaps(P) ==
    \A b1, b2 \in P : \A i \in DOMAIN b1.events : \A j \in DOMAIN b2.events :
        b1.events[i].n = b2.events[j].n =>
            b1.seq = b2.seq /\ j <= Len(b1.events)

Sendable(P, last) ==
    \A b \in P : Len(b.events) <= BatchMax /\ Numbered(b.events, last)

\* Each position of the batch at hand is recorded, or still to come with an
\* event that is not in the stream.
Taken(st, hd) ==
    hd # Idle => \A j \in DOMAIN hd.batch.events :
                     \/ Filled(st, hd.batch.seq, j)
                     \/ j >= hd.next /\ ~Has(st, hd.batch.events[j].n)

\* A request with a recorded event will find its position taken.
Waiting(R, st, hd) ==
    \A b \in R : \A j \in DOMAIN b.events : Has(st, b.events[j].n) =>
        \/ Filled(st, b.seq, j)
        \/ hd # Idle /\ hd.batch.seq = b.seq /\ j <= Len(hd.batch.events)

Stored(st, h, k, m, last) == Known(st, last) /\ Unique(st) /\ HeldIn(st, h, k, m)

HeldInv == Numbered(Held, produced)
StoredInv == /\ Stored(stream, Held, sequence, Bound, produced)
             /\ Stored(disk.stream, Held, sequence, Bound, produced)
PendingInv == /\ NoBatch \notin requests
              /\ Sendable(Pending, produced) /\ Overlaps(Pending)
              /\ Attempts(Pending, Held, sequence, Bound)
IngestInv == Taken(stream, handler) /\ Waiting(requests, stream, handler)

OnceInv == HeldInv /\ StoredInv /\ PendingInv /\ IngestInv

-----------------------------------------------------------------------------
\* Where the elements of a concatenation, of a part and of a sequence without
\* one of its elements come from.
LEMMA ConcatAt ==
    ASSUME NEW S, NEW a \in Seq(S), NEW b \in Seq(S)
    PROVE  /\ a \o b \in Seq(S) /\ Len(a \o b) = Len(a) + Len(b)
           /\ \A p \in 1..(Len(a) + Len(b)) :
                 (a \o b)[p] = IF p <= Len(a) THEN a[p] ELSE b[p - Len(a)]
OBVIOUS

\* The elements of the two parts of a sequence.
LEMMA CutAt ==
    ASSUME NEW S, NEW s \in Seq(S), NEW k \in 0..Len(s)
    PROVE  /\ \A p \in 1..k : SubSeq(s, 1, k)[p] = s[p]
           /\ \A p \in 1..(Len(s) - k) : SubSeq(s, k + 1, Len(s))[p] = s[p + k]
OBVIOUS

\* The elements of a sequence without its i-th.
LEMMA RemoveAtAt ==
    ASSUME NEW S, NEW s \in Seq(S), NEW i \in 1..Len(s)
    PROVE  \A p \in 1..(Len(s) - 1) :
              RemoveAt(s, i)[p] = IF p < i THEN s[p] ELSE s[p + 1]
<1> DEFINE a == SubSeq(s, 1, i - 1)
           b == SubSeq(s, i + 1, Len(s))
<1>1. a \in Seq(S) /\ Len(a) = i - 1 /\ \A p \in 1..(i - 1) : a[p] = s[p]
  OBVIOUS
<1>2. b \in Seq(S) /\ Len(b) = Len(s) - i /\ \A p \in 1..(Len(s) - i) : b[p] = s[p + i]
  OBVIOUS
<1>3. RemoveAt(s, i) = a \o b
  BY DEF RemoveAt
<1> HIDE DEF a, b
<1>4. \A p \in 1..(Len(a) + Len(b)) :
          (a \o b)[p] = IF p <= Len(a) THEN a[p] ELSE b[p - Len(a)]
  BY <1>1, <1>2, ConcatAt
<1> SUFFICES ASSUME NEW p \in 1..(Len(s) - 1)
             PROVE  RemoveAt(s, i)[p] = IF p < i THEN s[p] ELSE s[p + 1]
  OBVIOUS
<1>5. Len(s) \in Nat /\ i \in 1..Len(s)
  OBVIOUS
<1>6. CASE p < i
  BY <1>1, <1>2, <1>3, <1>4, <1>5, <1>6
<1>7. CASE p >= i
  <2>1. p - (i - 1) \in 1..(Len(s) - i) /\ (p - (i - 1)) + i = p + 1
    BY <1>5, <1>7
  <2>2. (a \o b)[p] = b[p - (i - 1)]
    BY <1>1, <1>2, <1>4, <1>5, <1>7
  <2>3. b[p - (i - 1)] = s[(p - (i - 1)) + i]
    BY <1>2, <2>1
  <2>4. RemoveAt(s, i)[p] = s[p + 1]
    BY <1>3, <2>1, <2>2, <2>3, Zenon
  <2>5. ~(p < i)
    BY <1>5, <1>7
  <2> QED BY <2>4, <2>5, Zenon
<1> QED BY <1>5, <1>6, <1>7

-----------------------------------------------------------------------------
(* The agent's side.                                                       *)

\* Each element of h2 is new or was in h, where it was not further ahead.
Forward(h, h2, last) ==
    /\ Len(h) <= Len(h2)
    /\ \A p \in 1..Len(h2) :
          \/ h2[p].n = last + 1
          \/ \E q \in 1..Len(h) : p <= q /\ h2[p].n = h[q].n

\* What the agent holds is the batch in flight with the queue behind it.
LEMMA HeldType ==
    ASSUME AgentType
    PROVE  /\ Held \in Seq(Event) /\ Len(Held) = Len(flight.events) + Len(queue)
           /\ flight.events \in Seq(Event) /\ queue \in Seq(Event)
           /\ Bound \in Nat
           /\ \A p \in 1..Len(Held) :
                 Held[p] = IF p <= Len(flight.events) THEN flight.events[p]
                           ELSE queue[p - Len(flight.events)]
<1>1. flight.events \in Seq(Event) /\ queue \in Seq(Event)
  BY DEF AgentType, Batch
<1>2. Bound \in Nat
  BY <1>1, TelemetryAssumption DEF Bound
<1> QED BY <1>1, <1>2, ConcatAt DEF Held

\* The elements of the stream are entries.
LEMMA EntryAt ==
    ASSUME NEW st \in Seq(Entry), NEW i \in DOMAIN st
    PROVE  st[i] \in Entry /\ st[i].n \in Nat /\ st[i].batch \in Nat
<1>1. st[i] \in Entry
  OBVIOUS
<1> QED BY <1>1 DEF Entry

\* What the agent holds may move forward and grow without harm.
LEMMA ForwardStored ==
    ASSUME NEW h \in Seq(Event), NEW h2 \in Seq(Event), NEW last \in Nat,
           NEW last2 \in Nat, last <= last2, NEW st \in Seq(Entry),
           NEW k \in Nat, NEW m \in Nat, NEW m2 \in Nat,
           Forward(h, h2, last), m <= m2 \/ Len(h) <= m2,
           Stored(st, h, k, m, last)
    PROVE  Stored(st, h2, k, m2, last2)
<1>0. \A i \in DOMAIN st : st[i].n \in Nat /\ st[i].n <= last
  BY EntryAt DEF Stored, Known
<1>1. Known(st, last2) /\ Unique(st)
  BY <1>0 DEF Known, Stored
<1>2. ASSUME NEW p \in DOMAIN h2, Has(st, h2[p].n)
      PROVE  p <= m2 /\ \A j \in 1..p : Filled(st, k + 1, j)
  <2>1. h2[p].n # last + 1
    BY <1>0, <1>2 DEF Has
  <2>2. PICK q \in 1..Len(h) : p <= q /\ h2[p].n = h[q].n
    BY <2>1 DEF Forward
  <2>3. q <= m /\ \A j \in 1..q : Filled(st, k + 1, j)
    BY <1>2, <2>2 DEF Stored, HeldIn
  <2>4. p <= m2
    BY <2>2, <2>3
  <2> QED BY <2>2, <2>3, <2>4
<1> QED BY <1>1, <1>2 DEF Stored, HeldIn

\* The same for what is said of the pending batches.
LEMMA ForwardAttempts ==
    ASSUME NEW h \in Seq(Event), NEW h2 \in Seq(Event), NEW last \in Nat,
           NEW P \in SUBSET Batch, NEW k \in Nat, NEW m \in Nat, NEW m2 \in Nat,
           Forward(h, h2, last), m <= m2 \/ Len(h) <= m2,
           Sendable(P, last), Attempts(P, h, k, m)
    PROVE  Attempts(P, h2, k, m2)
<1> SUFFICES ASSUME NEW b \in P, NEW j \in DOMAIN b.events, NEW p \in DOMAIN h2,
                    b.events[j].n = h2[p].n
             PROVE  /\ b.seq = k + 1 /\ p <= j
                    /\ Len(b.events) <= Len(h2) /\ Len(b.events) <= m2
  BY DEF Attempts
<1>0. b.events \in Seq(Event)
  BY DEF Batch
<1>1. b.events[j].n \in 1..last
  BY DEF Sendable, Numbered
<1>2. PICK q \in 1..Len(h) : p <= q /\ h2[p].n = h[q].n
  BY <1>1 DEF Forward
<1>3. /\ b.seq = k + 1 /\ q <= j
      /\ Len(b.events) <= Len(h) /\ Len(b.events) <= m
  BY <1>2 DEF Attempts
<1>4. Len(h) <= Len(h2)
  BY DEF Forward
<1>5. j \in Nat /\ p \in Nat /\ Len(b.events) \in Nat
  BY <1>0
<1> QED BY <1>2, <1>3, <1>4, <1>5

\* A new event changes nothing of the batches already sent.
LEMMA SendableGrows ==
    ASSUME NEW P, NEW last \in Nat, NEW last2 \in Nat, last <= last2,
           Sendable(P, last)
    PROVE  Sendable(P, last2)
BY DEF Sendable, Numbered

\* It is enough to say where each element comes from.
LEMMA ComesFrom ==
    ASSUME NEW h \in Seq(Event), NEW h2 \in Seq(Event), NEW last \in Nat,
           Numbered(h, last), Len(h) <= Len(h2),
           \A p \in 1..Len(h2) : p # Len(h2) => 
               \E q \in 1..Len(h) : q \in {p, p + 1} /\ h2[p] = h[q],
           \A p, r \in 1..Len(h2) :
               p # Len(h2) /\ r # Len(h2) /\ h2[p].n = h2[r].n => p = r,
           h2[Len(h2)].n = last + 1
    PROVE  Numbered(h2, last + 1) /\ Forward(h, h2, last)
<1>1. \A q \in 1..Len(h) : h[q].n \in 1..last
  BY DEF Numbered
<1>2. \A p \in 1..Len(h2) : p # Len(h2) => h2[p].n \in 1..last
  BY <1>1
<1>3. \A p \in 1..Len(h2) : h2[p].n \in 1..(last + 1)
  BY <1>2
<1>4. ASSUME NEW p \in 1..Len(h2), NEW r \in 1..Len(h2), h2[p].n = h2[r].n
      PROVE  p = r
  BY <1>2, <1>4
<1>5. DOMAIN h2 = 1..Len(h2)
  OBVIOUS
<1>6. Numbered(h2, last + 1)
  BY <1>3, <1>4, <1>5 DEF Numbered
<1>7. ASSUME NEW p \in 1..Len(h2)
      PROVE  \/ h2[p].n = last + 1
             \/ \E q \in 1..Len(h) : p <= q /\ h2[p].n = h[q].n
  <2>1. CASE p = Len(h2)
    BY <2>1
  <2>2. CASE p # Len(h2)
    <3>1. PICK q \in 1..Len(h) : q \in {p, p + 1} /\ h2[p] = h[q]
      BY <2>2
    <3>2. p <= q /\ h2[p].n = h[q].n
      BY <3>1
    <3> QED BY <3>2
  <2> QED BY <2>1, <2>2
<1>8. Forward(h, h2, last)
  BY <1>7 DEF Forward
<1> QED BY <1>6, <1>8

\* A new event comes at the end.
LEMMA AppendForward ==
    ASSUME NEW h \in Seq(Event), NEW h2 \in Seq(Event), NEW last \in Nat,
           Numbered(h, last),
           Len(h2) = Len(h) + 1, h2[Len(h2)].n = last + 1,
           \A p \in 1..Len(h) : h2[p] = h[p]
    PROVE  Numbered(h2, last + 1) /\ Forward(h, h2, last)
<1>1. Len(h) \in Nat /\ DOMAIN h = 1..Len(h)
  OBVIOUS
<1>2. \A p \in 1..Len(h2) : p # Len(h2) => p \in 1..Len(h)
  BY <1>1
<1>3. ASSUME NEW p \in 1..Len(h2), NEW r \in 1..Len(h2),
             p # Len(h2), r # Len(h2), h2[p].n = h2[r].n
      PROVE  p = r
  BY <1>1, <1>2, <1>3 DEF Numbered
<1>4. \A p \in 1..Len(h2) : p # Len(h2) =>
          \E r \in 1..Len(h) : r \in {p, p + 1} /\ h2[p] = h[r]
  BY <1>2
<1>5. Len(h) <= Len(h2)
  BY <1>1
<1> QED BY <1>3, <1>4, <1>5, ComesFrom

\* The same if an event of the queue goes: what is behind it moves forward.
LEMMA EvictForward ==
    ASSUME NEW h \in Seq(Event), NEW h2 \in Seq(Event), NEW last \in Nat,
           Numbered(h, last), NEW t \in 1..Len(h),
           Len(h2) = Len(h), h2[Len(h2)].n = last + 1,
           \A p \in 1..(Len(h) - 1) : h2[p] = IF p < t THEN h[p] ELSE h[p + 1]
    PROVE  Numbered(h2, last + 1) /\ Forward(h, h2, last)
<1>1. Len(h) \in Nat /\ DOMAIN h = 1..Len(h) /\ t \in Int
  OBVIOUS
<1> DEFINE From(p) == IF p < t THEN p ELSE p + 1
<1>2. \A p \in 1..Len(h2) : p # Len(h2) => p \in 1..(Len(h) - 1)
  BY <1>1
<1>3. \A p \in 1..(Len(h) - 1) : h2[p] = h[From(p)]
  OBVIOUS
<1>4. \A p \in 1..(Len(h) - 1) : From(p) \in 1..Len(h) /\ From(p) \in {p, p + 1}
  BY <1>1
<1>5. \A p, r \in 1..(Len(h) - 1) : From(p) = From(r) => p = r
  BY <1>1
<1> HIDE DEF From
<1>6. ASSUME NEW p \in 1..Len(h2), NEW r \in 1..Len(h2),
             p # Len(h2), r # Len(h2), h2[p].n = h2[r].n
      PROVE  p = r
  <2>1. p \in 1..(Len(h) - 1) /\ r \in 1..(Len(h) - 1)
    BY <1>2, <1>6
  <2>2. From(p) = From(r)
    BY <1>1, <1>3, <1>4, <1>6, <2>1 DEF Numbered
  <2> QED BY <1>5, <2>1, <2>2
<1>7. \A p \in 1..Len(h2) : p # Len(h2) =>
          \E r \in 1..Len(h) : r \in {p, p + 1} /\ h2[p] = h[r]
  BY <1>2, <1>3, <1>4
<1>8. Len(h) <= Len(h2)
  BY <1>1
<1> QED BY <1>6, <1>7, <1>8, ComesFrom

\* Holding the same and counting a new event is a move forward.
LEMMA ForwardSame ==
    ASSUME NEW h \in Seq(Event), NEW last \in Nat, Numbered(h, last)
    PROVE  Numbered(h, last + 1) /\ Forward(h, h, last)
<1>1. Numbered(h, last + 1)
  BY DEF Numbered
<1>2. Forward(h, h, last)
  BY DEF Forward
<1> QED BY <1>1, <1>2

\* How appending to, and evicting from, the second part of a \o q looks.
LEMMA AppendBehind ==
    ASSUME NEW S, NEW a \in Seq(S), NEW q \in Seq(S), NEW e \in S
    PROVE  /\ Len(a \o Append(q, e)) = Len(a \o q) + 1
           /\ (a \o Append(q, e))[Len(a \o q) + 1] = e
           /\ \A p \in 1..Len(a \o q) : (a \o Append(q, e))[p] = (a \o q)[p]
<1>1. a \o Append(q, e) = Append(a \o q, e)
  OBVIOUS
<1>2. a \o q \in Seq(S)
  OBVIOUS
<1>3. ASSUME NEW h \in Seq(S)
      PROVE  /\ Len(Append(h, e)) = Len(h) + 1 /\ Append(h, e)[Len(h) + 1] = e
             /\ \A p \in 1..Len(h) : Append(h, e)[p] = h[p]
  OBVIOUS
<1> QED BY <1>1, <1>2, <1>3

\* Evicting element i of the queue: what was behind it moves one forward.
LEMMA EvictBehind ==
    ASSUME NEW S, NEW a \in Seq(S), NEW q \in Seq(S), NEW e \in S,
           NEW i \in 1..Len(q)
    PROVE  LET h == a \o q
               h2 == a \o Append(RemoveAt(q, i), e)
               t == Len(a) + i
           IN  /\ Len(h2) = Len(h) /\ h2[Len(h)] = e /\ t \in 1..Len(h)
               /\ \A p \in 1..(Len(h) - 1) : h2[p] = IF p < t THEN h[p] ELSE h[p + 1]
<1>h. PICK h : h = a \o q
  OBVIOUS
<1>g. PICK h2 : h2 = a \o Append(RemoveAt(q, i), e)
  OBVIOUS
<1>r. PICK rest \in Seq(S) : rest = RemoveAt(q, i)
  BY RemoveAtType
<1>3. Len(rest) = Len(q) - 1
      /\ \A p \in 1..(Len(q) - 1) : rest[p] = IF p < i THEN q[p] ELSE q[p + 1]
  BY <1>r, RemoveAtType, RemoveAtAt
<1>f. PICK f \in Nat : f = Len(a)
  OBVIOUS
<1>l. PICK l \in Nat : l = Len(q)
  OBVIOUS
<1>i. i \in 1..l
  BY <1>l
<1>4. PICK q2 \in Seq(S) : q2 = Append(rest, e)
  <2>1. Append(rest, e) \in Seq(S)
    OBVIOUS
  <2> QED BY <2>1
<1>5. Len(q2) = l /\ q2[l] = e
      /\ \A p \in 1..(l - 1) : q2[p] = IF p < i THEN q[p] ELSE q[p + 1]
  <2>1. Len(rest) = l - 1 /\ l \in Nat
    BY <1>3, <1>l
  <2>2. Len(q2) = Len(rest) + 1 /\ q2[Len(rest) + 1] = e
        /\ \A p \in 1..Len(rest) : q2[p] = rest[p]
    BY <1>4
  <2>3. Len(rest) + 1 = l
    BY <2>1
  <2> QED BY <1>3, <1>l, <2>1, <2>2, <2>3
<1>7. Len(h) = f + l /\ \A p \in 1..(f + l) : h[p] = IF p <= f THEN a[p] ELSE q[p - f]
  <2>1. /\ Len(a \o q) = Len(a) + Len(q)
        /\ \A p \in 1..(Len(a) + Len(q)) :
              (a \o q)[p] = IF p <= Len(a) THEN a[p] ELSE q[p - Len(a)]
    BY ConcatAt
  <2> QED BY <1>h, <1>f, <1>l, <2>1
<1>8. h2 \in Seq(S) /\ Len(h2) = f + l
      /\ \A p \in 1..(f + l) : h2[p] = IF p <= f THEN a[p] ELSE q2[p - f]
  <2>1. h2 = a \o q2
    BY <1>g, <1>4, <1>r
  <2>2. /\ a \o q2 \in Seq(S) /\ Len(a \o q2) = Len(a) + Len(q2)
        /\ \A p \in 1..(Len(a) + Len(q2)) :
              (a \o q2)[p] = IF p <= Len(a) THEN a[p] ELSE q2[p - Len(a)]
    BY ConcatAt
  <2> QED BY <1>5, <1>f, <2>1, <2>2
<1>10. ASSUME NEW p \in 1..(f + l - 1)
       PROVE  h2[p] = IF p < f + i THEN h[p] ELSE h[p + 1]
  <2>0. p \in 1..(f + l)
    OBVIOUS
  <2>1. CASE p <= f
    <3>1. p < f + i
      BY <1>i, <2>1
    <3> QED BY <1>7, <1>8, <2>0, <2>1, <3>1
  <2>2. CASE ~(p <= f) /\ p < f + i
    <3>1. p - f \in 1..(l - 1) /\ p - f < i
      BY <1>i, <2>2
    <3>2. h2[p] = q2[p - f] /\ h[p] = q[p - f]
      BY <1>7, <1>8, <2>0, <2>2
    <3> QED BY <1>5, <2>2, <3>1, <3>2
  <2>3. CASE ~(p < f + i)
    <3>1. /\ p - f \in 1..(l - 1) /\ ~(p - f < i)
          /\ ~(p <= f) /\ ~(p + 1 <= f) /\ (p + 1) - f = (p - f) + 1
          /\ p + 1 \in 1..(f + l)
      BY <1>i, <2>3
    <3>2. h2[p] = q2[p - f] /\ h[p + 1] = q[(p - f) + 1]
      BY <1>7, <1>8, <2>0, <3>1
    <3> QED BY <1>5, <2>3, <3>1, <3>2
  <2> QED BY <1>i, <2>1, <2>2, <2>3
<1>11. f + l \in 1..(f + l) /\ ~(f + l <= f) /\ (f + l) - f = l /\ f + i \in 1..(f + l)
  BY <1>i
<1>12. h2[f + l] = e
  BY <1>5, <1>8, <1>11
<1>13. /\ Len(h2) = Len(h) /\ h2[Len(h)] = e /\ Len(a) + i \in 1..Len(h)
       /\ \A p \in 1..(Len(h) - 1) : h2[p] = IF p < Len(a) + i THEN h[p] ELSE h[p + 1]
  BY <1>7, <1>8, <1>10, <1>11, <1>12, <1>f
<1> QED BY <1>g, <1>h, <1>13, Zenon

\* The two facts about appending and evicting, for every argument.
LEMMA AppendAt ==
    \A a, q \in Seq(Event), e \in Event :
        LET h == a \o q
            h2 == a \o Append(q, e)
        IN  /\ Len(h2) = Len(h) + 1 /\ h2[Len(h) + 1] = e
            /\ \A p \in 1..Len(h) : h2[p] = h[p]
BY AppendBehind

\* See AppendAt.
LEMMA EvictAt ==
    \A a, q \in Seq(Event), e \in Event : \A i \in 1..Len(q) :
        LET h == a \o q
            h2 == a \o Append(RemoveAt(q, i), e)
            t == Len(a) + i
        IN  /\ Len(h2) = Len(h) /\ h2[Len(h)] = e /\ t \in 1..Len(h)
            /\ \A p \in 1..(Len(h) - 1) : h2[p] = IF p < t THEN h[p] ELSE h[p + 1]
<1> TAKE a, q \in Seq(Event), e \in Event
<1> TAKE i \in 1..Len(q)
<1> QED BY EvictBehind, SMTT(60)

\* Enqueue keeps the numbering and moves what the agent holds only forward.
LEMMA EnqueueHeld ==
    ASSUME AgentType, HeldInv, NEW priority \in BOOLEAN, Enqueue(priority)
    PROVE  HeldInv' /\ Held' \in Seq(Event) /\ Forward(Held, Held', produced)
<1>1. produced' = produced + 1 /\ flight' = flight
  BY DEF Enqueue
<1>2. PICK e \in Event : e = [n |-> produced + 1, priority |-> priority]
  <2>1. [n |-> produced + 1, priority |-> priority] \in Event
    BY DEF AgentType, Event
  <2> QED BY <2>1
<1>3. e.n = produced + 1
  BY <1>2
<1>4. /\ flight.events \in Seq(Event) /\ queue \in Seq(Event) /\ produced \in Nat
      /\ Held \in Seq(Event) /\ Numbered(Held, produced)
  BY HeldType DEF AgentType, HeldInv
<1>5. Held = flight.events \o queue /\ Held' = flight.events \o queue'
  BY <1>1 DEF Held
<1>6. Held' \in Seq(Event)
  <2>1. queue' \in Seq(Event)
    BY EnqueueStep
  <2> QED BY <1>4, <1>5, <2>1
<1>7. CASE queue' = queue
  <2>1. Held' = Held
    BY <1>5, <1>7
  <2> QED BY <1>1, <1>4, <2>1, ForwardSame DEF HeldInv
<1>8. CASE queue' = Append(queue, e)
  <2>0. LET h == flight.events \o queue
            h2 == flight.events \o Append(queue, e)
        IN  /\ Len(h2) = Len(h) + 1 /\ h2[Len(h) + 1] = e
            /\ \A p \in 1..Len(h) : h2[p] = h[p]
    BY <1>2, <1>4, AppendAt
  <2>1. /\ Len(Held') = Len(Held) + 1 /\ Held'[Len(Held) + 1] = e
        /\ \A p \in 1..Len(Held) : Held'[p] = Held[p]
    BY <1>5, <1>8, <2>0, Zenon
  <2> QED BY <1>1, <1>3, <1>4, <1>6, <2>1, AppendForward DEF HeldInv
<1>9. ASSUME NEW i \in 1..Len(queue), queue' = Append(RemoveAt(queue, i), e)
      PROVE  HeldInv' /\ Forward(Held, Held', produced)
  <2>0. LET h == flight.events \o queue
            h2 == flight.events \o Append(RemoveAt(queue, i), e)
            t == Len(flight.events) + i
        IN  /\ Len(h2) = Len(h) /\ h2[Len(h)] = e /\ t \in 1..Len(h)
            /\ \A p \in 1..(Len(h) - 1) : h2[p] = IF p < t THEN h[p] ELSE h[p + 1]
    BY <1>2, <1>4, <1>9, EvictAt
  <2>1. /\ Len(Held') = Len(Held) /\ Held'[Len(Held)] = e
        /\ Len(flight.events) + i \in 1..Len(Held)
        /\ \A p \in 1..(Len(Held) - 1) :
              Held'[p] = IF p < Len(flight.events) + i THEN Held[p] ELSE Held[p + 1]
    BY <1>5, <1>9, <2>0, Zenon
  <2>2. Numbered(Held', produced + 1) /\ Forward(Held, Held', produced)
    BY <1>3, <1>4, <1>6, <2>1, EvictForward
  <2> QED BY <1>1, <2>2 DEF HeldInv
<1>10. HeldInv' /\ Forward(Held, Held', produced)
  BY <1>2, <1>7, <1>8, <1>9 DEF Enqueue
<1> QED BY <1>6, <1>10

\* Two sequences with the same elements.
Same(h, h2) == Len(h2) = Len(h) /\ \A p \in 1..Len(h) : h2[p] = h[p]

\* Holding the same events in the same order is a move forward.
LEMMA SameForward ==
    ASSUME NEW h \in Seq(Event), NEW h2 \in Seq(Event), NEW last \in Nat,
           Same(h, h2), Numbered(h, last)
    PROVE  Numbered(h2, last) /\ Forward(h, h2, last)
<1>1. Len(h) \in Nat /\ DOMAIN h = 1..Len(h) /\ DOMAIN h2 = 1..Len(h)
  BY DEF Same
<1> QED BY <1>1 DEF Same, Numbered, Forward

\* Flush moves the first events from the queue into the batch in flight.
LEMMA FlushHeld ==
    ASSUME AgentType, Flush
    PROVE  /\ Same(Held, Held') /\ Held' \in Seq(Event)
           /\ flight' # NoBatch /\ flight'.seq = sequence + 1
           /\ Len(flight'.events) <= BatchMax /\ Len(flight'.events) <= Len(Held)
           /\ Bound <= Bound' \/ Len(Held) <= Bound'
           /\ requests' = requests \cup {flight'}
           /\ \A p \in 1..Len(flight'.events) : flight'.events[p] = Held[p]
<1> DEFINE count == IF Len(queue) > BatchMax THEN BatchMax ELSE Len(queue)
           batch == [attempt |-> attempts + 1, seq |-> sequence + 1,
                     events |-> SubSeq(queue, 1, count), drops |-> drops]
<1>0. queue \in Seq(Event) /\ Len(queue) \in Nat /\ sequence \in Nat /\ BatchMax \in Nat
  BY TelemetryAssumption DEF AgentType
<1>1. count \in 0..Len(queue) /\ count <= BatchMax
      /\ (count = BatchMax \/ count = Len(queue))
  BY <1>0
<1>2. /\ queue' = SubSeq(queue, count + 1, Len(queue))
      /\ flight = NoBatch /\ flight' = batch /\ requests' = requests \cup {batch}
  BY DEF Flush
<1> HIDE DEF count
<1>3. /\ SubSeq(queue, 1, count) \in Seq(Event) /\ Len(SubSeq(queue, 1, count)) = count
      /\ queue' \in Seq(Event) /\ Len(queue') = Len(queue) - count
      /\ \A p \in 1..count : SubSeq(queue, 1, count)[p] = queue[p]
      /\ \A p \in 1..(Len(queue) - count) : queue'[p] = queue[p + count]
  BY <1>0, <1>1, <1>2, CutType, CutAt
<1>4. batch.events = SubSeq(queue, 1, count) /\ batch.seq = sequence + 1
  OBVIOUS
<1>5. batch # NoBatch
  BY <1>0, <1>4 DEF NoBatch
<1> HIDE DEF batch
<1>6. Len(Held) = Len(queue) /\ \A p \in 1..Len(queue) : Held[p] = queue[p]
  <2>1. flight.events = <<>> /\ Len(<<>>) = 0 /\ <<>> \in Seq(Event)
    BY <1>2 DEF NoBatch
  <2>2. Held = <<>> \o queue
    BY <2>1 DEF Held
  <2> QED BY <1>0, <2>2
<1>7. flight'.events = SubSeq(queue, 1, count) /\ flight'.seq = sequence + 1 /\ flight' # NoBatch
  BY <1>2, <1>4, <1>5
<1>8. /\ Held' \in Seq(Event) /\ Len(Held') = count + (Len(queue) - count)
      /\ \A p \in 1..(count + (Len(queue) - count)) :
            Held'[p] = IF p <= count THEN SubSeq(queue, 1, count)[p] ELSE queue'[p - count]
  <2>1. Held' = SubSeq(queue, 1, count) \o queue'
    BY <1>7 DEF Held
  <2>2. ASSUME NEW a \in Seq(Event), NEW b \in Seq(Event), NEW la, NEW lb, Len(a) = la, Len(b) = lb
        PROVE  /\ a \o b \in Seq(Event) /\ Len(a \o b) = la + lb
               /\ \A p \in 1..(la + lb) : (a \o b)[p] = IF p <= la THEN a[p] ELSE b[p - la]
    BY <2>2, ConcatAt
  <2>3. /\ SubSeq(queue, 1, count) \o queue' \in Seq(Event)
        /\ Len(SubSeq(queue, 1, count) \o queue') = count + (Len(queue) - count)
        /\ \A p \in 1..(count + (Len(queue) - count)) :
              (SubSeq(queue, 1, count) \o queue')[p]
                  = IF p <= count THEN SubSeq(queue, 1, count)[p] ELSE queue'[p - count]
    BY <1>3, <2>2
  <2> QED BY <2>1, <2>3
<1>9. ASSUME NEW p \in 1..Len(queue)
      PROVE  Held'[p] = queue[p]
  <2>1. count + (Len(queue) - count) = Len(queue) /\ count \in Nat
    BY <1>0, <1>1
  <2>2. CASE p <= count
    BY <1>0, <1>3, <1>8, <2>1, <2>2
  <2>3. CASE ~(p <= count)
    <3>1. p - count \in 1..(Len(queue) - count) /\ (p - count) + count = p
      BY <1>0, <2>1, <2>3
    <3> QED BY <1>3, <1>8, <2>1, <2>3, <3>1
  <2> QED BY <2>2, <2>3
<1>10. Same(Held, Held')
  <2>1. count + (Len(queue) - count) = Len(queue)
    BY <1>0, <1>1
  <2> QED BY <1>6, <1>8, <1>9, <2>1 DEF Same
<1>11. Bound = BatchMax /\ Bound' = count /\ Len(flight'.events) = count
  BY <1>2, <1>3, <1>7 DEF Bound
<1>12. \A p \in 1..Len(flight'.events) : flight'.events[p] = Held[p]
  BY <1>0, <1>1, <1>3, <1>6, <1>7, <1>11
<1>13. Bound <= Bound' \/ Len(Held) <= Bound'
  BY <1>0, <1>1, <1>6, <1>11
<1>14. Len(flight'.events) <= BatchMax /\ Len(flight'.events) <= Len(Held)
  BY <1>0, <1>1, <1>6, <1>11
<1> QED BY <1>2, <1>7, <1>8, <1>10, <1>12, <1>13, <1>14

\* FlushFails puts the batch back where it was.
LEMMA FailHeld ==
    ASSUME AgentType, QueueInv, FlushFails
    PROVE  Same(Held, Held') /\ Held' \in Seq(Event) /\ Bound <= Bound'
<1>1. queue' = flight.events \o queue /\ flight' = NoBatch /\ flight # NoBatch
  BY DEF FlushFails
<1>2. Held \in Seq(Event) /\ Len(flight.events) \in Nat /\ BatchMax \in Nat
  BY HeldType, TelemetryAssumption
<1>3. queue' = Held
  BY <1>1 DEF Held
<1>4. Held' = <<>> \o Held
  BY <1>1, <1>3 DEF Held, NoBatch
<1>5. Held' = Held
  BY <1>2, <1>4
<1>6. Bound = Len(flight.events) /\ Bound' = BatchMax
  BY <1>1 DEF Bound
<1> QED BY <1>2, <1>5, <1>6 DEF Same, QueueInv

\* An answered batch leaves: what was behind it was never sent.
LEMMA AnsweredHeld ==
    ASSUME NEW h \in Seq(Event), NEW q \in Seq(Event), NEW f \in Nat,
           NEW k \in Nat, NEW k2 \in Nat, NEW m2 \in Nat, NEW last \in Nat,
           Len(h) = f + Len(q), \A p \in 1..Len(q) : h[p + f] = q[p],
           Numbered(h, last)
    PROVE  /\ Numbered(q, last)
           /\ \A st \in Seq(Entry) :
                 Stored(st, h, k, f, last) => Stored(st, q, k2, m2, last)
           /\ \A P \in SUBSET Batch :
                 Attempts(P, h, k, f) => Attempts(P, q, k2, m2)
<1>0. /\ Len(q) \in Nat /\ DOMAIN q = 1..Len(q) /\ DOMAIN h = 1..Len(h)
      /\ \A p \in DOMAIN q : p + f \in DOMAIN h /\ q[p] = h[p + f] /\ ~(p + f <= f)
  OBVIOUS
<1>1. Numbered(q, last)
  <2>1. \A p \in DOMAIN q : q[p].n \in 1..last
    BY <1>0 DEF Numbered
  <2>2. ASSUME NEW p \in DOMAIN q, NEW r \in DOMAIN q, q[p].n = q[r].n
        PROVE  p = r
    <3>1. p + f = r + f
      BY <1>0, <2>2 DEF Numbered
    <3> QED BY <1>0, <3>1
  <2> QED BY <2>1, <2>2 DEF Numbered
<1>2. ASSUME NEW st \in Seq(Entry), Stored(st, h, k, f, last)
      PROVE  Stored(st, q, k2, m2, last)
  <2>1. \A p \in DOMAIN q : ~Has(st, q[p].n)
    BY <1>0, <1>2 DEF Stored, HeldIn
  <2> QED BY <1>2, <2>1 DEF Stored, HeldIn
<1>3. ASSUME NEW P \in SUBSET Batch, Attempts(P, h, k, f)
      PROVE  Attempts(P, q, k2, m2)
  <2>1. ASSUME NEW b \in P, NEW j \in DOMAIN b.events, NEW p \in DOMAIN q
        PROVE  b.events[j].n # q[p].n
    <3>1. b.events \in Seq(Event)
      BY DEF Batch
    <3>2. j \in Nat /\ j <= Len(b.events) /\ Len(b.events) \in Nat
      BY <3>1
    <3>3. SUFFICES ASSUME b.events[j].n = q[p].n PROVE FALSE
      OBVIOUS
    <3>4. p + f <= j /\ Len(b.events) <= f
      BY <1>0, <1>3, <3>3 DEF Attempts
    <3> QED BY <1>0, <3>2, <3>4
  <2> QED BY <2>1 DEF Attempts
<1> QED BY <1>1, <1>2, <1>3

\* What a step of the agent's queue keeps, whatever is stored and pending.
KeepsHeld ==
    /\ HeldInv'
    /\ \A st \in Seq(Entry) :
          Stored(st, Held, sequence, Bound, produced)
              => Stored(st, Held', sequence', Bound', produced')
    /\ \A P \in SUBSET Batch :
          Sendable(P, produced) /\ Attempts(P, Held, sequence, Bound)
              => Attempts(P, Held', sequence', Bound')

\* A step of the agent that sends nothing and acknowledges nothing.
LEMMA MoveKeeps ==
    ASSUME AgentType, AgentType', HeldInv', Forward(Held, Held', produced),
           produced <= produced', sequence' = sequence,
           Bound <= Bound' \/ Len(Held) <= Bound'
    PROVE  KeepsHeld
<1>1. /\ Held \in Seq(Event) /\ Bound \in Nat /\ sequence \in Nat /\ produced \in Nat
  BY HeldType DEF AgentType
<1>2. flight'.events \in Seq(Event) /\ queue' \in Seq(Event) /\ produced' \in Nat
  BY DEF AgentType, Batch
<1>3. Held' \in Seq(Event) /\ Bound' \in Nat
  BY <1>2, ConcatAt, TelemetryAssumption DEF Held, Bound
<1>4. ASSUME NEW st \in Seq(Entry), Stored(st, Held, sequence, Bound, produced)
      PROVE  Stored(st, Held', sequence', Bound', produced')
  BY <1>1, <1>2, <1>3, <1>4, ForwardStored
<1>5. ASSUME NEW P \in SUBSET Batch, Sendable(P, produced),
             Attempts(P, Held, sequence, Bound)
      PROVE  Attempts(P, Held', sequence', Bound')
  BY <1>1, <1>3, <1>5, ForwardAttempts
<1> QED BY <1>4, <1>5 DEF KeepsHeld

\* A step that leaves what the agent holds alone.
LEMMA StayKeeps ==
    ASSUME AgentType, HeldInv, UNCHANGED <<queue, sequence, flight, produced>>
    PROVE  KeepsHeld
<1>1. Held' = Held /\ Bound' = Bound
  BY DEF Held, Bound
<1> QED BY <1>1 DEF KeepsHeld, HeldInv

\* An acknowledgement of a batch.
LEMMA AcknowledgeKeeps ==
    ASSUME AgentType, HeldInv, NEW b \in Batch, b # NoBatch, Acknowledge(b),
           UNCHANGED <<queue, produced>>
    PROVE  KeepsHeld
<1>1. CASE UNCHANGED <<sequence, flight>>
  BY <1>1, StayKeeps
<1>2. CASE flight = b /\ sequence' = b.seq /\ flight' = NoBatch
  <2>1. /\ Held \in Seq(Event) /\ queue \in Seq(Event) /\ Len(flight.events) \in Nat
        /\ Len(Held) = Len(flight.events) + Len(queue)
        /\ \A p \in 1..Len(Held) :
              Held[p] = IF p <= Len(flight.events) THEN flight.events[p]
                        ELSE queue[p - Len(flight.events)]
    BY HeldType
  <2>2. ASSUME NEW p \in 1..Len(queue)
        PROVE  Held[p + Len(flight.events)] = queue[p]
    <3>1. /\ p + Len(flight.events) \in 1..Len(Held)
          /\ ~(p + Len(flight.events) <= Len(flight.events))
          /\ (p + Len(flight.events)) - Len(flight.events) = p
      BY <2>1
    <3> QED BY <2>1, <3>1
  <2>3. Held' = queue
    <3>1. Held' = <<>> \o queue
      BY <1>2 DEF Held, NoBatch
    <3> QED BY <2>1, <3>1
  <2>4. Bound = Len(flight.events) /\ Bound' \in Nat
    BY <1>2, TelemetryAssumption DEF Bound
  <2>5. sequence \in Nat /\ sequence' \in Nat /\ produced \in Nat
    BY <1>2 DEF AgentType, Batch
  <2>6. /\ Numbered(queue, produced)
        /\ \A st \in Seq(Entry) :
              Stored(st, Held, sequence, Len(flight.events), produced)
                  => Stored(st, queue, sequence', Bound', produced)
        /\ \A P \in SUBSET Batch :
              Attempts(P, Held, sequence, Len(flight.events))
                  => Attempts(P, queue, sequence', Bound')
    BY <2>1, <2>2, <2>4, <2>5, AnsweredHeld DEF HeldInv
  <2> QED BY <2>3, <2>4, <2>6 DEF KeepsHeld, HeldInv
<1> QED BY <1>1, <1>2 DEF Acknowledge

\* A new agent holds nothing.
LEMMA RestartKeeps ==
    ASSUME AgentType, HeldInv, AgentRestart
    PROVE  KeepsHeld
<1>1. Held' = <<>>
  BY DEF AgentRestart, Held, NoBatch
<1>2. DOMAIN <<>> = {}
  OBVIOUS
<1>3. produced' = produced
  BY DEF AgentRestart
<1> QED BY <1>1, <1>2, <1>3
      DEF KeepsHeld, HeldInv, Numbered, Stored, HeldIn, Attempts

-----------------------------------------------------------------------------
(* The control plane's side.                                               *)

\* The types of what the ingest reads.
LEMMA PendingType ==
    ASSUME TypeOK
    PROVE  /\ Pending \in SUBSET Batch /\ requests \in SUBSET Batch
           /\ handler.batch \in Batch /\ handler.next \in Nat
           /\ stream \in Seq(Entry) /\ disk.stream \in Seq(Entry)
           /\ produced \in Nat /\ AgentType /\ ServerType
<1>1. AgentType /\ ServerType
  BY TypeParts
<1>2. handler.batch \in Batch /\ handler.next \in Nat /\ disk.stream \in Seq(Entry)
  BY <1>1 DEF ServerType, HandlerType, DiskType
<1> QED BY <1>1, <1>2 DEF AgentType, ServerType, Pending

\* Steps that send nothing new keep what pending batches promise.
LEMMA FewerPending ==
    ASSUME TypeOK, PendingInv, KeepsHeld, produced' \in Nat, produced <= produced',
           Pending' \subseteq Pending, requests' \subseteq requests
    PROVE  PendingInv'
<1>1. Pending \in SUBSET Batch /\ produced \in Nat
  BY PendingType
<1>2. Attempts(Pending, Held', sequence', Bound')
  BY <1>1 DEF KeepsHeld, PendingInv
<1>3. Sendable(Pending, produced')
  BY <1>1, SendableGrows DEF PendingInv
<1>4. Attempts(Pending', Held', sequence', Bound')
  BY <1>2 DEF Attempts
<1>5. Sendable(Pending', produced')
  BY <1>3 DEF Sendable
<1>6. Overlaps(Pending')
  BY DEF Overlaps, PendingInv
<1> QED BY <1>4, <1>5, <1>6 DEF PendingInv

\* Steps that record nothing new keep what the stream and the disk promise.
LEMMA SameStreams ==
    ASSUME TypeOK, StoredInv, KeepsHeld,
           stream' \in {stream, disk.stream}, disk'.stream \in {stream, disk.stream}
    PROVE  StoredInv'
<1>1. stream \in Seq(Entry) /\ disk.stream \in Seq(Entry)
  BY PendingType
<1>2. /\ Stored(stream, Held', sequence', Bound', produced')
      /\ Stored(disk.stream, Held', sequence', Bound', produced')
  BY <1>1 DEF StoredInv, KeepsHeld
<1> QED BY <1>2 DEF StoredInv

\* Steps of the agent that leave requests and control plane alone, or lose a
\* request.
LEMMA AgentMoves ==
    ASSUME TypeOK, OnceInv, KeepsHeld, produced' \in Nat, produced <= produced',
           UNCHANGED serverVars, requests' \subseteq requests
    PROVE  OnceInv'
<1>1. UNCHANGED <<handler, stream, disk>>
  BY DEF serverVars
<1>2. Pending' \subseteq Pending
  BY <1>1 DEF Pending
<1>3. PendingInv'
  BY <1>2, FewerPending DEF OnceInv
<1>4. StoredInv'
  BY <1>1, SameStreams DEF OnceInv
<1>5. IngestInv'
  BY <1>1 DEF OnceInv, IngestInv, Waiting
<1> QED BY <1>3, <1>4, <1>5 DEF OnceInv, KeepsHeld

\* The new request repeats what the agent held: whatever of it is recorded
\* stands in its position, whatever of it is pending is an attempt of it.
LEMMA FlushOnce ==
    ASSUME TypeOK, TypeOK', OnceInv, Flush
    PROVE  OnceInv'
<1>0. UNCHANGED <<sequence, serverVars, produced>>
  BY DEF Flush
<1>1. /\ UNCHANGED <<handler, stream, disk>>
      /\ AgentType /\ AgentType' /\ produced \in Nat /\ produced' = produced
      /\ sequence' = sequence
  <2>1. AgentType'
    BY DEF TypeOK, AgentType
  <2> QED BY <1>0, <2>1, PendingType DEF serverVars
<1>2. /\ Same(Held, Held') /\ Held' \in Seq(Event) /\ Held \in Seq(Event)
      /\ Forward(Held, Held', produced) /\ HeldInv'
      /\ Bound <= Bound' \/ Len(Held) <= Bound'
  <2>1. /\ Same(Held, Held') /\ Held' \in Seq(Event) /\ Held \in Seq(Event)
        /\ Bound <= Bound' \/ Len(Held) <= Bound'
    BY <1>1, FlushHeld, HeldType
  <2>2. Numbered(Held', produced) /\ Forward(Held, Held', produced)
    BY <1>1, <2>1, SameForward DEF OnceInv, HeldInv
  <2> QED BY <1>1, <2>1, <2>2 DEF HeldInv
<1>3. KeepsHeld
  BY <1>1, <1>2, MoveKeeps
<1>4. StoredInv'
  BY <1>1, <1>3, SameStreams DEF OnceInv
<1>5. PICK b \in Batch : b = flight'
  BY <1>1 DEF AgentType
<1>6. /\ b # NoBatch /\ b.seq = sequence + 1
      /\ Len(b.events) <= BatchMax /\ Len(b.events) <= Len(Held)
      /\ requests' = requests \cup {b} /\ Bound' = Len(b.events)
      /\ \A p \in 1..Len(b.events) : b.events[p] = Held[p]
  BY <1>1, <1>5, FlushHeld DEF Bound
<1>7. /\ b.events \in Seq(Event) /\ Len(b.events) \in Nat /\ Len(Held) \in Nat
      /\ DOMAIN b.events = 1..Len(b.events) /\ DOMAIN Held = 1..Len(Held)
      /\ DOMAIN b.events \subseteq DOMAIN Held
      /\ \A p \in DOMAIN b.events : b.events[p] = Held[p]
  <2>1. b.events \in Seq(Event)
    BY DEF Batch
  <2> QED BY <1>2, <1>6, <2>1
<1>8. Pending' = Pending \cup {b} /\ Pending \in SUBSET Batch
  BY <1>1, <1>6, PendingType DEF Pending
<1>9. Numbered(b.events, produced)
  <2>1. \A p \in DOMAIN b.events : b.events[p].n \in 1..produced
    BY <1>7 DEF OnceInv, HeldInv, Numbered
  <2>2. \A p, q \in DOMAIN b.events : b.events[p].n = b.events[q].n => p = q
    BY <1>7 DEF OnceInv, HeldInv, Numbered
  <2> QED BY <2>1, <2>2 DEF Numbered
<1>10. Attempts(Pending, Held', sequence, Bound')
  BY <1>1, <1>3, <1>8 DEF KeepsHeld, OnceInv, PendingInv
<1>11. Len(Held') = Len(Held) /\ \A p \in DOMAIN Held : Held'[p] = Held[p]
  BY <1>2, <1>7 DEF Same
<1>12. Attempts({b}, Held', sequence, Bound')
  <2>1. DOMAIN Held' = DOMAIN Held
    BY <1>2, <1>11
  <2>2. ASSUME NEW j \in DOMAIN b.events, NEW p \in DOMAIN Held,
               b.events[j].n = Held[p].n
        PROVE  p = j
    BY <1>7, <2>2 DEF OnceInv, HeldInv, Numbered
  <2> QED BY <1>6, <1>7, <1>11, <2>1, <2>2 DEF Attempts
<1>13. Attempts(Pending', Held', sequence', Bound')
  BY <1>1, <1>8, <1>10, <1>12 DEF Attempts
<1>14. Sendable(Pending', produced')
  BY <1>1, <1>6, <1>8, <1>9 DEF Sendable, OnceInv, PendingInv
<1>15. ASSUME NEW a \in Pending, NEW i \in DOMAIN a.events, NEW j \in DOMAIN b.events,
              a.events[i].n = b.events[j].n
       PROVE  /\ a.seq = b.seq /\ j <= Len(a.events)
              /\ i <= Len(b.events)
  <2>1. a.events \in Seq(Event)
    BY <1>8 DEF Batch
  <2>2. i \in Nat /\ i <= Len(a.events) /\ Len(a.events) \in Nat
    BY <2>1
  <2>3. a.seq = sequence + 1 /\ j <= i
    BY <1>7, <1>15 DEF OnceInv, PendingInv, Attempts
  <2>4. DOMAIN Held' = DOMAIN Held
    BY <1>2, <1>11
  <2>5. a.events[i].n = Held'[j].n
    BY <1>7, <1>11, <1>15
  <2>6. Len(a.events) <= Bound'
    BY <1>7, <1>10, <2>4, <2>5 DEF Attempts
  <2>7. j \in Nat
    BY <1>7
  <2> QED BY <1>6, <1>7, <2>2, <2>3, <2>6, <2>7
<1>16. Overlaps(Pending')
  <2> SUFFICES ASSUME NEW b1 \in Pending \cup {b}, NEW b2 \in Pending \cup {b},
                      NEW i \in DOMAIN b1.events, NEW j \in DOMAIN b2.events,
                      b1.events[i].n = b2.events[j].n
               PROVE  b1.seq = b2.seq /\ j <= Len(b1.events)
    BY <1>8 DEF Overlaps
  <2>1. CASE b1 \in Pending /\ b2 \in Pending
    BY <2>1 DEF OnceInv, PendingInv, Overlaps
  <2>2. CASE b1 \in Pending /\ b2 = b
    BY <1>15, <2>2
  <2>3. CASE b1 = b /\ b2 \in Pending
    BY <1>15, <2>3
  <2>4. CASE b1 = b /\ b2 = b
    BY <1>7, <2>4
  <2> QED BY <2>1, <2>2, <2>3, <2>4
<1>17. PendingInv'
  BY <1>6, <1>13, <1>14, <1>16 DEF PendingInv, OnceInv
<1>18. Waiting({b}, stream, handler)
  <2>1. \A j \in DOMAIN b.events : Has(stream, b.events[j].n) =>
            Filled(stream, b.seq, j)
    BY <1>6, <1>7 DEF OnceInv, StoredInv, Stored, HeldIn
  <2> QED BY <2>1 DEF Waiting
<1>19. IngestInv'
  BY <1>1, <1>6, <1>18 DEF IngestInv, OnceInv, Waiting
<1> QED BY <1>2, <1>4, <1>17, <1>19 DEF OnceInv

\* Recording an entry fills its position and adds its event.
LEMMA AppendEntry ==
    ASSUME NEW st \in Seq(Entry), NEW e \in Entry
    PROVE  LET st2 == Append(st, e) IN
           /\ \A k, j : Filled(st2, k, j) <=> Filled(st, k, j) \/ (k = e.batch /\ j = e.index)
           /\ \A n : Has(st2, n) <=> Has(st, n) \/ (n = e.n /\ n > 0)
           /\ ~Has(st, e.n) /\ Unique(st) => Unique(st2)
           /\ \A last : Known(st, last) /\ e.n <= last => Known(st2, last)
<1> PICK st2 : st2 = Append(st, e)
  OBVIOUS
<1>1. /\ DOMAIN st = 1..Len(st) /\ Len(st) \in Nat
      /\ DOMAIN st2 = 1..(Len(st) + 1)
      /\ \A i \in 1..Len(st) : st2[i] = st[i]
      /\ st2[Len(st) + 1] = e
  OBVIOUS
<1>2. /\ \A i \in DOMAIN st : i \in DOMAIN st2 /\ st2[i] = st[i]
      /\ Len(st) + 1 \in DOMAIN st2
      /\ \A i \in DOMAIN st2 : i = Len(st) + 1 \/ i \in DOMAIN st
  BY <1>1
<1>3. \A k, j : Filled(st2, k, j) <=> Filled(st, k, j) \/ (k = e.batch /\ j = e.index)
  BY <1>1, <1>2 DEF Filled
<1>4. \A n : Has(st2, n) <=> Has(st, n) \/ (n = e.n /\ n > 0)
  BY <1>1, <1>2 DEF Has
<1>5. ASSUME ~Has(st, e.n), Unique(st)
      PROVE  Unique(st2)
  BY <1>1, <1>2, <1>5 DEF Unique, Has
<1>6. \A last : Known(st, last) /\ e.n <= last => Known(st2, last)
  BY <1>1, <1>2 DEF Known
<1> QED BY <1>3, <1>4, <1>5, <1>6

\* Recording an event that is not in the stream yet.
LEMMA AppendStored ==
    ASSUME NEW st \in Seq(Entry), NEW e \in Entry, NEW h, NEW k, NEW m, NEW last,
           Stored(st, h, k, m, last), ~Has(st, e.n), e.n <= last,
           \A p \in DOMAIN h : e.n = h[p].n /\ e.n > 0 =>
               p <= m /\ \A j \in 1..p : Filled(Append(st, e), k + 1, j)
    PROVE  Stored(Append(st, e), h, k, m, last)
<1>1. /\ \A kk, j : Filled(st, kk, j) => Filled(Append(st, e), kk, j)
      /\ \A n : Has(Append(st, e), n) => Has(st, n) \/ (n = e.n /\ n > 0)
      /\ Unique(Append(st, e)) /\ Known(Append(st, e), last)
  BY AppendEntry DEF Stored
<1>2. HeldIn(Append(st, e), h, k, m)
  BY <1>1 DEF Stored, HeldIn
<1> QED BY <1>1, <1>2 DEF Stored

\* One step of the ingest: position index of the batch at hand, event n.
Ingest(index, n) ==
    /\ handler # Idle
    /\ handler' = [handler EXCEPT !.next = @ + 1]
    /\ RecordEvent(index, n)
    /\ UNCHANGED <<agentVars, requests, cursor, produced>>

\* An event that is recorded now was not recorded before: it is the batch's
\* own position that would have been taken.
LEMMA IngestOnce ==
    ASSUME TypeOK, OnceInv, NEW index \in Nat, NEW n \in Nat, Ingest(index, n),
           \/ /\ index = handler.next /\ index \in DOMAIN handler.batch.events
              /\ n = handler.batch.events[index].n
           \/ index = 0 /\ n = 0 /\ handler.batch.events = <<>>
    PROVE  OnceInv'
<1> DEFINE b == handler.batch
           e == [batch |-> b.seq, index |-> index, n |-> n,
                 drops |-> IF index <= 1 THEN b.drops ELSE 0]
<1>1. /\ handler # Idle /\ b \in Batch /\ b.seq \in Nat /\ b.events \in Seq(Event)
      /\ DOMAIN b.events = 1..Len(b.events) /\ Len(b.events) \in Nat
      /\ handler.next \in Nat /\ handler.next > 0
      /\ stream \in Seq(Entry) /\ disk.stream \in Seq(Entry)
      /\ Pending \in SUBSET Batch /\ produced \in Nat /\ AgentType
  <2>1. b \in Batch /\ b.seq \in Nat /\ b.events \in Seq(Event)
    BY PendingType DEF Batch
  <2>2. handler # Idle /\ handler.next > 0
    BY DEF Ingest, TypeOK
  <2> HIDE DEF b
  <2>3. DOMAIN b.events = 1..Len(b.events) /\ Len(b.events) \in Nat
    BY <2>1
  <2> QED BY <2>1, <2>2, <2>3, PendingType
<1>2. /\ handler'.batch = b /\ handler'.next = handler.next + 1 /\ handler' # Idle
      /\ requests' = requests /\ Pending' = Pending
      /\ UNCHANGED <<queue, sequence, flight, produced>>
  <2>1. handler'.batch = b /\ handler'.next = handler.next + 1
    BY PendingType DEF Ingest, TypeOK
  <2>2. handler' # Idle
    BY <1>1, <2>1 DEF Idle
  <2> QED BY <2>1, <2>2 DEF Ingest, Pending, agentVars
<1>3. e \in Entry /\ e.batch = b.seq /\ e.index = index /\ e.n = n
  BY <1>1 DEF Entry, Batch
<1>4. KeepsHeld /\ Held' = Held /\ Bound' = Bound
  BY <1>1, <1>2, StayKeeps DEF OnceInv, Held, Bound
<1>5. PendingInv'
  BY <1>1, <1>2, <1>4, FewerPending DEF OnceInv
<1> HIDE DEF b, e
<1>6. \A j \in DOMAIN b.events :
          Filled(stream, b.seq, j) \/ (j >= handler.next /\ ~Has(stream, b.events[j].n))
  BY <1>1 DEF OnceInv, IngestInv, Taken, b
<1>i. \/ /\ index = handler.next /\ index \in DOMAIN b.events /\ n = b.events[index].n
      \/ index = 0 /\ n = 0 /\ b.events = <<>>
  BY DEF b
<1>7. CASE Filled(stream, b.seq, index)
  <2>1. stream' = stream /\ disk' = disk
    <3>1. <<b.seq, index>> \in Ids
      BY <1>7 DEF Filled, Ids
    <3> QED BY <3>1, <1>3 DEF Ingest, RecordEvent, b
  <2>2. StoredInv'
    BY <1>4, <2>1, SameStreams DEF OnceInv
  <2>3. Taken(stream', handler')
    <3> SUFFICES ASSUME NEW j \in DOMAIN b.events
                 PROVE  \/ Filled(stream, b.seq, j)
                        \/ j >= handler.next + 1 /\ ~Has(stream, b.events[j].n)
      BY <1>2, <2>1 DEF Taken
    <3>1. DOMAIN b.events # {} => index = handler.next
      BY <1>1, <1>i
    <3> QED BY <1>1, <1>6, <1>7, <3>1
  <2>4. Waiting(requests', stream', handler')
    BY <1>1, <1>2, <2>1 DEF OnceInv, IngestInv, Waiting, b
  <2> QED BY <1>4, <1>5, <2>2, <2>3, <2>4 DEF OnceInv, IngestInv, KeepsHeld
<1>8. CASE ~Filled(stream, b.seq, index)
  <2>1. stream' = Append(stream, e) /\ (disk'.stream = stream' \/ disk' = disk)
    <3>1. <<b.seq, index>> \notin Ids
      BY <1>8 DEF Filled, Ids
    <3> QED BY <3>1 DEF Ingest, RecordEvent, Persist, b, e
  <2>2. ~Has(stream, n)
    BY <1>1, <1>6, <1>8, <1>i DEF Has
  <2>3. /\ \A k, j : Filled(stream', k, j) <=>
                        Filled(stream, k, j) \/ (k = b.seq /\ j = index)
        /\ \A x : Has(stream', x) <=> Has(stream, x) \/ (x = n /\ x > 0)
    BY <1>1, <1>3, <2>1, AppendEntry
  <2>4. ASSUME NEW j \in DOMAIN b.events, j <= index
        PROVE  Filled(stream', b.seq, j)
    <3>1. j # index => ~(j >= handler.next)
      BY <1>1, <1>i, <2>4
    <3> QED BY <1>6, <2>3, <3>1
  <2>5. n <= produced
    BY <1>1, <1>i, <1>2 DEF OnceInv, PendingInv, Sendable, Numbered, Pending, NoBatch, b
  <2>6. ASSUME NEW p \in DOMAIN Held, n = Held[p].n, n > 0
        PROVE  p <= Bound /\ \A j \in 1..p : Filled(stream', sequence + 1, j)
    <3>1. index = handler.next /\ index \in DOMAIN b.events /\ n = b.events[index].n
      BY <1>i, <2>6
    <3>2. b \in Pending
      <4>1. b.events # <<>>
        BY <1>1, <3>1
      <4> QED BY <4>1 DEF Pending, NoBatch, b
    <3>3. /\ b.seq = sequence + 1 /\ p <= index /\ Len(b.events) <= Bound
      BY <2>6, <3>1, <3>2 DEF OnceInv, PendingInv, Attempts
    <3>4. Bound \in Nat /\ Held \in Seq(Event) /\ p \in Nat
      BY <1>1, HeldType
    <3>5. p <= Bound
      BY <1>1, <3>1, <3>3, <3>4
    <3>6. \A j \in 1..p : j \in DOMAIN b.events /\ j <= index
      BY <1>1, <3>1, <3>3, <3>4
    <3> QED BY <2>4, <3>3, <3>5, <3>6
  <2>7. Stored(stream', Held, sequence, Bound, produced)
    <3>1. Stored(stream, Held, sequence, Bound, produced)
      BY DEF OnceInv, StoredInv
    <3> QED BY <1>1, <1>3, <2>1, <2>2, <2>5, <2>6, <3>1, AppendStored
  <2>8. StoredInv'
    <3>1. Stored(disk'.stream, Held, sequence, Bound, produced)
      BY <2>1, <2>7 DEF OnceInv, StoredInv
    <3> QED BY <1>2, <1>4, <2>7, <3>1 DEF StoredInv
  <2>9. Taken(stream', handler')
    <3> SUFFICES ASSUME NEW j \in DOMAIN b.events
                 PROVE  \/ Filled(stream', b.seq, j)
                        \/ j >= handler.next + 1 /\ ~Has(stream', b.events[j].n)
      BY <1>2 DEF Taken
    <3>1. index = handler.next /\ index \in DOMAIN b.events /\ n = b.events[index].n
      BY <1>1, <1>i
    <3>2. CASE j <= index
      BY <2>4, <3>2
    <3>3. CASE ~(j <= index)
      <4>1. b \in Pending
        <5>1. b.events # <<>>
          BY <1>1, <3>1
        <5> QED BY <5>1 DEF Pending, NoBatch, b
      <4>2. b.events[j].n # n
        <5>1. Numbered(b.events, produced)
          BY <4>1 DEF OnceInv, PendingInv, Sendable
        <5>2. b.events[j].n = b.events[index].n => j = index
          BY <3>1, <5>1 DEF Numbered
        <5>3. j # index
          BY <1>1, <3>3
        <5> QED BY <3>1, <5>2, <5>3
      <4> QED BY <1>1, <1>6, <2>3, <3>1, <3>3, <4>2
    <3> QED BY <3>2, <3>3
  <2>10. Waiting(requests', stream', handler')
    <3> SUFFICES ASSUME NEW a \in requests, NEW j \in DOMAIN a.events,
                        Has(stream', a.events[j].n)
                 PROVE  \/ Filled(stream', a.seq, j)
                        \/ b.seq = a.seq /\ j <= Len(b.events)
      BY <1>2 DEF Waiting
    <3>1. CASE Has(stream, a.events[j].n)
      BY <2>3, <3>1 DEF OnceInv, IngestInv, Waiting, b
    <3>2. CASE a.events[j].n = n /\ n > 0
      <4>1. index \in DOMAIN b.events /\ n = b.events[index].n
        BY <1>i, <3>2
      <4>2. a \in Pending /\ b \in Pending
        <5>1. b.events # <<>>
          BY <1>1, <4>1
        <5> QED BY <5>1 DEF Pending, NoBatch, OnceInv, PendingInv, b
      <4> QED BY <3>2, <4>1, <4>2 DEF OnceInv, PendingInv, Overlaps
    <3> QED BY <2>3, <3>1, <3>2
  <2> QED BY <1>4, <1>5, <2>8, <2>9, <2>10 DEF OnceInv, IngestInv, KeepsHeld
<1> QED BY <1>7, <1>8

\* The handler takes up a request: what is recorded of it is in its position.
LEMMA AcceptOnce ==
    ASSUME TypeOK, OnceInv, NEW b \in requests, AcceptBatch(b)
    PROVE  OnceInv'
<1>1. /\ b \in Batch /\ b # NoBatch /\ handler = Idle /\ requests' \subseteq requests
      /\ UNCHANGED <<queue, stream, disk, produced>> /\ AgentType
      /\ produced \in Nat /\ b.events \in Seq(Event)
  <2>1. b \in Batch /\ b # NoBatch
    BY PendingType DEF OnceInv, PendingInv
  <2> QED BY <2>1, PendingType DEF AcceptBatch, Batch
<1>2. b.seq \in Nat /\ cursor \in Nat
  BY <1>1 DEF Batch, TypeOK
<1>3. CASE b.seq > cursor
  <2>1. handler' = [batch |-> b, next |-> 1] /\ UNCHANGED <<sequence, flight>>
    BY <1>3 DEF AcceptBatch
  <2>2. KeepsHeld
    BY <1>1, <2>1, StayKeeps DEF OnceInv
  <2>3. Pending' \subseteq Pending
    BY <1>1, <2>1 DEF Pending
  <2>4. PendingInv'
    BY <1>1, <2>2, <2>3, FewerPending DEF OnceInv
  <2>5. StoredInv'
    BY <1>1, <2>2, SameStreams DEF OnceInv
  <2>6. \A a \in requests : \A j \in DOMAIN a.events :
            Has(stream, a.events[j].n) => Filled(stream, a.seq, j)
    BY <1>1 DEF OnceInv, IngestInv, Waiting
  <2>7. Waiting(requests', stream', handler')
    BY <1>1, <2>6 DEF Waiting
  <2>8. Taken(stream', handler')
    <3>1. handler'.batch = b /\ handler'.next = 1
      BY <2>1
    <3>2. \A j \in DOMAIN b.events : j >= 1
      BY <1>1
    <3> QED BY <1>1, <2>6, <3>1, <3>2 DEF Taken
  <2> QED BY <2>2, <2>4, <2>5, <2>7, <2>8 DEF OnceInv, IngestInv, KeepsHeld
<1>4. CASE ~(b.seq > cursor)
  <2>1. handler' = handler /\ (Acknowledge(b) \/ UNCHANGED <<sequence, flight, drain>>)
    BY <1>4 DEF AcceptBatch
  <2>2. KeepsHeld
    BY <1>1, <2>1, AcknowledgeKeeps, StayKeeps DEF OnceInv
  <2>3. Pending' \subseteq Pending
    BY <1>1, <2>1 DEF Pending
  <2>4. PendingInv'
    BY <1>1, <2>2, <2>3, FewerPending DEF OnceInv
  <2>5. StoredInv'
    BY <1>1, <2>2, SameStreams DEF OnceInv
  <2>6. IngestInv'
    BY <1>1, <2>1 DEF OnceInv, IngestInv, Waiting
  <2> QED BY <2>2, <2>4, <2>5, <2>6 DEF OnceInv, KeepsHeld
<1> QED BY <1>3, <1>4

\* An ingested batch has all of its positions taken.
LEMMA CommitOnce ==
    ASSUME TypeOK, CursorInv, OnceInv, CommitKernelBatch \/ CommitFails
    PROVE  OnceInv'
<1>1. /\ handler # Idle /\ handler.next > Len(handler.batch.events) /\ handler' = Idle
      /\ requests' = requests
      /\ UNCHANGED <<queue, stream, produced>> /\ disk'.stream \in {stream, disk.stream}
  BY DEF CommitKernelBatch, CommitFails, Ingested, agentVars
<1>2. /\ handler.batch \in Batch /\ handler.batch.events \in Seq(Event)
      /\ handler.next \in Nat /\ AgentType /\ produced \in Nat
  BY PendingType DEF Batch
<1>3. handler.batch # NoBatch
  BY <1>1 DEF CursorInv, NoBatch, TypeOK
<1>4. KeepsHeld
  <2>1. CASE CommitKernelBatch
    BY <1>1, <1>2, <1>3, <2>1, AcknowledgeKeeps DEF OnceInv, CommitKernelBatch
  <2>2. CASE CommitFails
    BY <1>1, <1>2, <2>2, StayKeeps DEF OnceInv, CommitFails, agentVars
  <2> QED BY <2>1, <2>2
<1>5. Pending' \subseteq Pending
  BY <1>1 DEF Pending, Idle
<1>6. PendingInv'
  BY <1>1, <1>2, <1>4, <1>5, FewerPending DEF OnceInv
<1>7. StoredInv'
  BY <1>1, <1>4, SameStreams DEF OnceInv
<1>8. \A j \in DOMAIN handler.batch.events : Filled(stream, handler.batch.seq, j)
  <2>1. \A j \in DOMAIN handler.batch.events : ~(j >= handler.next)
    BY <1>1, <1>2
  <2> QED BY <1>1, <2>1 DEF OnceInv, IngestInv, Taken
<1>9. Waiting(requests', stream', handler')
  <2> SUFFICES ASSUME NEW b \in requests, NEW j \in DOMAIN b.events,
                      Has(stream, b.events[j].n)
               PROVE  Filled(stream, b.seq, j)
    BY <1>1 DEF Waiting
  <2>1. CASE handler.batch.seq = b.seq /\ j <= Len(handler.batch.events)
    <3>1. b.events \in Seq(Event)
      BY PendingType DEF Batch
    <3>2. j \in DOMAIN handler.batch.events
      BY <1>2, <2>1, <3>1
    <3> QED BY <1>8, <2>1, <3>2
  <2> QED BY <2>1 DEF OnceInv, IngestInv, Waiting
<1>10. Taken(stream', handler')
  BY <1>1 DEF Taken
<1> QED BY <1>4, <1>6, <1>7, <1>9, <1>10 DEF OnceInv, IngestInv, KeepsHeld

\* A new control plane only hears of the batch in flight.
LEMMA ControlRestartOnce ==
    ASSUME TypeOK, OnceInv, ControlRestart
    PROVE  OnceInv'
<1>1. /\ handler' = Idle /\ stream' = disk.stream /\ disk' = disk
      /\ requests' = requests \cap {flight}
      /\ UNCHANGED <<queue, sequence, flight, produced>>
  BY DEF ControlRestart, agentVars
<1>2. AgentType /\ produced \in Nat
  BY PendingType
<1>3. KeepsHeld
  BY <1>1, <1>2, StayKeeps DEF OnceInv
<1>4. Pending' \subseteq Pending
  BY <1>1 DEF Pending, Idle
<1>5. PendingInv'
  BY <1>1, <1>2, <1>3, <1>4, FewerPending DEF OnceInv
<1>6. StoredInv'
  BY <1>1, <1>3, SameStreams DEF OnceInv
<1>7. Waiting(requests', stream', handler')
  <2> SUFFICES ASSUME flight \in requests, NEW j \in DOMAIN flight.events,
                      Has(disk.stream, flight.events[j].n)
               PROVE  Filled(disk.stream, flight.seq, j)
    BY <1>1 DEF Waiting
  <2>1. j \in DOMAIN Held /\ Held[j] = flight.events[j] /\ j \in 1..j
    <3>1. /\ flight.events \in Seq(Event) /\ queue \in Seq(Event) /\ Held \in Seq(Event)
          /\ Len(Held) = Len(flight.events) + Len(queue)
          /\ \A p \in 1..Len(Held) :
                Held[p] = IF p <= Len(flight.events) THEN flight.events[p]
                          ELSE queue[p - Len(flight.events)]
      BY <1>2, HeldType
    <3>2. j \in 1..Len(flight.events) /\ Len(flight.events) \in Nat /\ Len(queue) \in Nat
      BY <3>1
    <3>3. j \in 1..Len(Held) /\ DOMAIN Held = 1..Len(Held)
      BY <3>1, <3>2
    <3> QED BY <3>1, <3>2, <3>3
  <2>2. Filled(disk.stream, sequence + 1, j)
    BY <2>1 DEF OnceInv, StoredInv, Stored, HeldIn
  <2>3. flight \in Pending
    BY DEF Pending, OnceInv, PendingInv
  <2>4. flight.seq = sequence + 1
    BY <2>1, <2>3 DEF OnceInv, PendingInv, Attempts
  <2> QED BY <2>2, <2>4
<1>8. Taken(stream', handler')
  BY <1>1 DEF Taken
<1> QED BY <1>3, <1>5, <1>6, <1>7, <1>8 DEF OnceInv, IngestInv, KeepsHeld

\* Every step keeps OnceInv.
LEMMA OnceStep ==
    ASSUME TypeOK, TypeOK', QueueInv, CursorInv, OnceInv, [Next]_vars
    PROVE  OnceInv'
<1>0. AgentType /\ produced \in Nat /\ HeldInv
  BY PendingType DEF OnceInv
<1>0a. AgentType'
  BY DEF TypeOK, AgentType
<1>1. ASSUME NEW priority \in BOOLEAN, Enqueue(priority)
      PROVE  OnceInv'
  <2>1. /\ UNCHANGED <<sequence, flight, requests, serverVars>>
        /\ produced' = produced + 1
    BY <1>1 DEF Enqueue
  <2>2. HeldInv' /\ Forward(Held, Held', produced)
    BY <1>0, <1>1, EnqueueHeld
  <2>3. Bound' = Bound /\ Bound \in Nat
    BY <1>0, <2>1, HeldType DEF Bound
  <2>4. KeepsHeld
    BY <1>0, <1>0a, <2>1, <2>2, <2>3, MoveKeeps
  <2> QED BY <1>0, <2>1, <2>4, AgentMoves
<1>2. CASE RunFlush \/ DrainFlush
  BY <1>2, FlushOnce DEF RunFlush, DrainFlush
<1>3. CASE FlushFails
  <2>1. UNCHANGED <<sequence, requests, serverVars, produced>>
    BY <1>3 DEF FlushFails
  <2>2. Same(Held, Held') /\ Held' \in Seq(Event) /\ Held \in Seq(Event) /\ Bound <= Bound'
    BY <1>0, <1>3, FailHeld, HeldType
  <2>3. HeldInv' /\ Forward(Held, Held', produced)
    BY <1>0, <2>1, <2>2, SameForward DEF HeldInv
  <2>4. KeepsHeld
    BY <1>0, <1>0a, <2>1, <2>2, <2>3, MoveKeeps
  <2> QED BY <1>0, <2>1, <2>4, AgentMoves
<1>4. ASSUME UNCHANGED <<queue, sequence, flight, produced, serverVars>>,
             requests' \subseteq requests
      PROVE  OnceInv'
  <2>1. KeepsHeld
    BY <1>0, <1>4, StayKeeps
  <2> QED BY <1>0, <1>4, <2>1, AgentMoves
<1>5. CASE AddKernelDrops \/ Disarm \/ DrainFlushNothing \/ PostDisarmed
           \/ (\E b \in requests : LoseRequest(b)) \/ UNCHANGED vars
  BY <1>4, <1>5 DEF AddKernelDrops, Disarm, DrainFlushNothing, PostDisarmed, LoseRequest,
       vars, agentVars
<1>6. ASSUME NEW b \in requests, AcceptBatch(b)
      PROVE  OnceInv'
  BY <1>6, AcceptOnce
<1>7. CASE IngestEvent
  <2>1. /\ handler.next \in Nat /\ handler.next > 0
        /\ handler.batch.events \in Seq(Event)
        /\ handler.next <= Len(handler.batch.events)
    BY <1>7, PendingType DEF IngestEvent, Batch, TypeOK
  <2>2. handler.next \in DOMAIN handler.batch.events
    BY <2>1
  <2>3. handler.batch.events[handler.next] \in Event
    BY <2>1, <2>2
  <2>4. PICK n \in Nat : n = handler.batch.events[handler.next].n
    BY <2>3 DEF Event
  <2>5. PICK index \in Nat : index = handler.next
    BY <2>1
  <2>6. Ingest(index, n)
    BY <1>7, <2>4, <2>5 DEF IngestEvent, Ingest
  <2> QED BY <2>2, <2>4, <2>5, <2>6, IngestOnce
<1>8. CASE IngestDrops
  <2>1. Ingest(0, 0) /\ handler.batch.events = <<>>
    BY <1>8 DEF IngestDrops, Ingest
  <2> QED BY <2>1, IngestOnce
<1>9. CASE CommitKernelBatch \/ CommitFails
  BY <1>9, CommitOnce
<1>10. CASE ControlRestart
  BY <1>10, ControlRestartOnce
<1>11. CASE AgentRestart
  <2>1. KeepsHeld
    BY <1>0, <1>11, RestartKeeps
  <2>2. UNCHANGED <<requests, serverVars, produced>>
    BY <1>11 DEF AgentRestart
  <2> QED BY <1>0, <2>1, <2>2, AgentMoves
<1> QED BY <1>1, <1>2, <1>3, <1>5, <1>6, <1>7, <1>8, <1>9, <1>10, <1>11 DEF Next

\* No kernel event is recorded twice, neither in memory nor in the checkpoint,
\* whatever is retried, late, evicted or restarted (RecordedOnce).
THEOREM EventsRecordedOnce == Spec => []RecordedOnce
<1>1. Init => OnceInv
  <2> SUFFICES ASSUME Init PROVE OnceInv
    OBVIOUS
  <2>1. Held = <<>> /\ DOMAIN <<>> = {}
    <3>1. <<>> \o <<>> = <<>>
      OBVIOUS
    <3> QED BY <3>1 DEF Init, Held, NoBatch
  <2>2. Pending = {} /\ handler = Idle /\ requests = {}
    BY DEF Init, Pending, Idle
  <2>3. stream = <<>> /\ disk.stream = <<>>
    BY DEF Init
  <2> QED BY <2>1, <2>2, <2>3
        DEF OnceInv, HeldInv, StoredInv, PendingInv, IngestInv, Numbered, Stored, Known,
            Unique, HeldIn, Sendable, Overlaps, Attempts, Taken, Waiting
<1>2. Init => QueueInv /\ DurableInv
  BY NoBatchType, TelemetryAssumption
     DEF Init, QueueInv, QueueBounded, DurableInv, CursorInv, AcknowledgedIsDurable
<1>3. OnceInv => RecordedOnce
  BY DEF OnceInv, StoredInv, Stored, Unique, RecordedOnce
<1>4. DurableInv => CursorInv
  BY DEF DurableInv
<1> QED BY <1>1, <1>2, <1>3, <1>4, TypeCorrect, QueueStep, DurableStep, OnceStep, PTL DEF Spec

-----------------------------------------------------------------------------
(* The stream, its checkpoint and the cursor are an event log.              *)

\* The number that a drain receipt is about to report has been acknowledged.
DrainInv == drain.pc = "post" => drain.seq <= sequence

\* An acknowledgement of a batch that is not older than the last one.
LEMMA AcknowledgeDrain ==
    ASSUME TypeOK, DrainInv, NEW b \in Batch, sequence <= b.seq, Acknowledge(b)
    PROVE  DrainInv'
<1>0. drain \in DrainType /\ sequence \in Nat /\ b.seq \in Nat /\ drain.seq \in Nat
  BY DEF TypeOK, DrainType, Batch
<1>1. CASE UNCHANGED <<sequence, flight, drain>>
  BY <1>1 DEF DrainInv
<1>2. CASE /\ sequence' = b.seq
           /\ drain' = IF drain.pc = "sent"
                        THEN [drain EXCEPT !.pc = "post", !.seq = b.seq] ELSE drain
  <2>1. CASE drain.pc = "sent"
    BY <1>0, <1>2, <2>1 DEF DrainInv, DrainType
  <2>2. CASE drain.pc # "sent"
    BY <1>0, <1>2, <2>2 DEF DrainInv
  <2> QED BY <2>1, <2>2
<1> QED BY <1>1, <1>2 DEF Acknowledge

\* Every step keeps the number of the drain receipt acknowledged.
LEMMA DrainStep == TypeOK /\ DurableInv /\ DrainInv /\ [Next]_vars => DrainInv'
<1> SUFFICES ASSUME TypeOK, DurableInv, DrainInv, [Next]_vars PROVE DrainInv'
  OBVIOUS
<1>0. drain \in DrainType /\ sequence \in Nat /\ cursor \in Nat /\ requests \subseteq Batch
      /\ sequence <= cursor
  BY DEF TypeOK, DrainType, DurableInv, CursorInv, AcknowledgedIsDurable
<1>1. CASE UNCHANGED <<sequence, drain>>
  BY <1>1 DEF DrainInv
<1>2. CASE FlushFails
  <2>1. sequence' = sequence /\ (drain' = drain \/ drain' = [drain EXCEPT !.pc = "flush"])
    BY <1>2 DEF FlushFails
  <2> QED BY <1>0, <2>1 DEF DrainInv, DrainType
<1>3. CASE Disarm \/ DrainFlush \/ PostDisarmed
  <2>1. drain'.pc \in {"flush", "sent", "done"}
    BY <1>0, <1>3 DEF Disarm, DrainFlush, PostDisarmed, DrainType
  <2> QED BY <2>1 DEF DrainInv
<1>4. CASE DrainFlushNothing
  <2>1. drain'.seq = sequence /\ sequence' = sequence
    BY <1>0, <1>4 DEF DrainFlushNothing, DrainType, agentVars
  <2> QED BY <1>0, <2>1 DEF DrainInv
<1>5. ASSUME NEW b \in requests, AcceptBatch(b) PROVE DrainInv'
  <2>1. \/ UNCHANGED <<sequence, flight, drain>>
        \/ b.seq = cursor /\ Acknowledge(b)
    BY <1>5 DEF AcceptBatch
  <2> QED BY <1>0, <1>1, <2>1, AcknowledgeDrain
<1>6. CASE CommitKernelBatch
  <2>1. handler # Idle /\ Acknowledge(handler.batch)
    BY <1>6 DEF CommitKernelBatch, Ingested
  <2>2. handler.batch \in Batch /\ handler.batch.seq \in Nat /\ handler.batch.seq > cursor
    BY <2>1 DEF TypeOK, Batch, DurableInv, CursorInv
  <2> QED BY <1>0, <2>1, <2>2, AcknowledgeDrain
<1>7. CASE AgentRestart
  BY <1>7 DEF AgentRestart, DrainInv
<1>8. ASSUME \/ \E priority \in BOOLEAN : Enqueue(priority)
             \/ AddKernelDrops \/ RunFlush \/ (\E b \in requests : LoseRequest(b))
             \/ IngestEvent \/ IngestDrops \/ CommitFails \/ ControlRestart
             \/ UNCHANGED vars
      PROVE  UNCHANGED <<sequence, drain>>
  BY <1>8 DEF Enqueue, AddKernelDrops, RunFlush, Flush, LoseRequest, IngestEvent, IngestDrops,
     CommitFails, ControlRestart, vars, agentVars
<1> QED BY <1>1, <1>2, <1>3, <1>4, <1>5, <1>6, <1>7, <1>8 DEF Next

\* The variables of EventLog, as the control plane has them.
logged == <<stream, disk.stream, cursor, sequence, drain.pc = "done">>

\* RecordEvent writes a new record of the batch at hand, or changes nothing.
LEMMA RecordWrites ==
    ASSUME TypeOK, CursorInv, RecordedOnce', handler # Idle,
           NEW index \in Nat, NEW n \in Nat, RecordEvent(index, n),
           UNCHANGED <<cursor, sequence, drain>>
    PROVE  Log!Write \/ UNCHANGED logged
<1> DEFINE new == [batch |-> handler.batch.seq, index |-> index, n |-> n,
                   drops |-> IF index <= 1 THEN handler.batch.drops ELSE 0]
<1>1. CASE UNCHANGED <<stream, disk>>
  BY <1>1 DEF logged
<1>2. CASE /\ <<new.batch, new.index>> \notin Ids
           /\ stream' = Append(stream, new) /\ Persist(stream', cursor)
  <2>1. /\ stream \in Seq(Entry) /\ Len(stream) \in Nat
        /\ handler.batch.seq > cursor
    BY DEF TypeOK, CursorInv
  <2>2. /\ new \in Entry
        /\ new.batch = handler.batch.seq /\ new.index = index /\ new.n = n
    BY DEF TypeOK, Entry, Batch
  <2> HIDE DEF new
  <2>3. /\ Len(stream') = Len(stream) + 1 /\ stream'[Len(stream')] = new
        /\ DOMAIN stream = 1..Len(stream) /\ DOMAIN stream' = 1..Len(stream')
        /\ \A i \in DOMAIN stream : stream'[i] = stream[i]
    BY <1>2, <2>1, <2>2
  <2>4. ASSUME NEW i \in DOMAIN stream, stream[i].batch = new.batch
        PROVE  stream[i].index # new.index
    BY <1>2, <2>4 DEF Ids
  <2>5. ASSUME NEW i \in DOMAIN stream, stream[i].n = new.n
        PROVE  new.n = 0
    <3>1. i \in DOMAIN stream' /\ Len(stream') \in DOMAIN stream' /\ i # Len(stream')
      BY <2>1, <2>3
    <3>2. stream'[i].n = stream'[Len(stream')].n
      BY <2>3, <2>5
    <3>3. ~(stream'[i].n > 0)
      BY <3>1, <3>2 DEF RecordedOnce
    <3> QED BY <2>2, <2>3, <2>5, <3>2, <3>3
  <2>6. disk'.stream \in {disk.stream, stream'}
    BY <1>2 DEF Persist
  <2> QED BY <1>2, <2>1, <2>2, <2>3, <2>4, <2>5, <2>6 DEF Log!Write
<1> QED BY <1>1, <1>2 DEF RecordEvent

\* Each step of agent and control plane is one step of the log or none.
LEMMA LogStep ==
    ASSUME TypeOK, DurableInv, DrainInv, RecordedOnce', [Next]_vars
    PROVE  Log!Next \/ UNCHANGED logged
<1> USE DEF logged
<1>0. /\ drain \in DrainType /\ sequence \in Nat /\ cursor \in Nat
      /\ requests \subseteq Batch /\ sequence <= cursor /\ cursor = disk.cursor
      /\ CursorInv
  BY DEF TypeOK, DrainType, DurableInv, CursorInv, AcknowledgedIsDurable
<1>1. CASE IngestEvent \/ IngestDrops
  <2>1. handler # Idle /\ UNCHANGED <<cursor, sequence, drain>>
    BY <1>1 DEF IngestEvent, IngestDrops, agentVars
  <2>2. PICK index \in Nat, n \in Nat : RecordEvent(index, n)
    BY <1>1, TypeParts, IngestRecords
  <2>3. Log!Write \/ UNCHANGED logged
    BY <1>0, <2>1, <2>2, RecordWrites
  <2> QED BY <2>3 DEF Log!Next
<1>2. ASSUME NEW b \in Batch, Acknowledge(b)
      PROVE  /\ sequence' \in {sequence, b.seq}
             /\ (drain'.pc = "done") = (drain.pc = "done")
  <2>1. sequence' \in {sequence, b.seq}
    BY <1>2 DEF Acknowledge
  <2>2. \/ drain' = drain
        \/ drain.pc = "sent" /\ drain' = [drain EXCEPT !.pc = "post", !.seq = b.seq]
    BY <1>2 DEF Acknowledge
  <2>3. drain'.pc = drain.pc \/ (drain.pc = "sent" /\ drain'.pc = "post")
    BY <1>0, <2>2 DEF DrainType
  <2> QED BY <2>1, <2>3
<1>3. ASSUME NEW b \in requests, AcceptBatch(b)
      PROVE  Log!Next \/ UNCHANGED logged
  <2>1. UNCHANGED <<stream, cursor, disk>>
    BY <1>3 DEF AcceptBatch
  <2>2. \/ UNCHANGED <<sequence, flight, drain>>
        \/ b.seq = cursor /\ Acknowledge(b)
    BY <1>3 DEF AcceptBatch
  <2>3. CASE UNCHANGED <<sequence, flight, drain>>
    BY <2>1, <2>3
  <2>4. CASE b.seq = cursor /\ Acknowledge(b)
    <3>1. /\ sequence' \in {sequence, cursor}
          /\ (drain'.pc = "done") = (drain.pc = "done")
      BY <1>0, <1>2, <2>4
    <3>2. CASE sequence' = sequence
      BY <2>1, <3>1, <3>2
    <3>3. CASE sequence' = cursor
      <4>1. Log!Tell
        BY <2>1, <3>1, <3>3 DEF Log!Tell
      <4> QED BY <4>1 DEF Log!Next
    <3> QED BY <3>1, <3>2, <3>3
  <2> QED BY <2>2, <2>3, <2>4
<1>4. CASE CommitKernelBatch
  <2>1. /\ handler # Idle /\ Acknowledge(handler.batch) /\ cursor' = handler.batch.seq
        /\ disk' = [stream |-> stream, cursor |-> cursor'] /\ stream' = stream
    BY <1>4 DEF CommitKernelBatch, Ingested
  <2>2. handler.batch \in Batch /\ cursor' > cursor
    BY <1>0, <2>1 DEF TypeOK, CursorInv
  <2>3. /\ sequence' \in {sequence, cursor'}
        /\ (drain'.pc = "done") = (drain.pc = "done")
    BY <1>2, <2>1, <2>2
  <2>4. Log!Close
    BY <2>1, <2>2, <2>3 DEF Log!Close
  <2> QED BY <2>4 DEF Log!Next
<1>5. CASE ControlRestart
  <2>1. /\ stream' = disk.stream /\ cursor' = cursor
        /\ UNCHANGED <<sequence, drain, disk>>
    BY <1>0, <1>5 DEF ControlRestart, agentVars
  <2>2. Log!RestartLog
    BY <2>1 DEF Log!RestartLog
  <2> QED BY <2>2 DEF Log!Next
<1>6. CASE AgentRestart
  <2>1. /\ sequence' = cursor /\ UNCHANGED <<stream, cursor, disk>>
        /\ drain'.pc = "off"
    BY <1>6 DEF AgentRestart, TelemetryCursor, serverVars
  <2>2. Log!RestartNode
    BY <2>1 DEF Log!RestartNode
  <2> QED BY <2>2 DEF Log!Next
<1>7. CASE PostDisarmed
  <2>1. /\ drain.pc = "post" /\ UNCHANGED <<sequence, stream, cursor, disk>>
        /\ drain'.pc = IF cursor = drain.seq THEN "done" ELSE "flush"
    BY <1>0, <1>7 DEF PostDisarmed, DrainType, agentVars, serverVars
  <2>2. CASE cursor = drain.seq
    <3>1. sequence = cursor
      BY <1>0, <2>1, <2>2 DEF DrainInv
    <3>2. Log!Drain
      BY <2>1, <2>2, <3>1 DEF Log!Drain
    <3> QED BY <3>2 DEF Log!Next
  <2>3. CASE cursor # drain.seq
    BY <2>1, <2>3
  <2> QED BY <2>2, <2>3
<1>8. CASE FlushFails \/ Disarm \/ DrainFlush \/ DrainFlushNothing
  <2>1. UNCHANGED <<sequence, stream, cursor, disk>>
    BY <1>8 DEF FlushFails, Disarm, DrainFlush, DrainFlushNothing, Flush, agentVars, serverVars
  <2>2. drain' = drain \/ (drain.pc # "done" /\ drain'.pc # "done")
    BY <1>0, <1>8 DEF FlushFails, Disarm, DrainFlush, DrainFlushNothing, DrainType
  <2> QED BY <2>1, <2>2
<1>9. CASE \/ \E priority \in BOOLEAN : Enqueue(priority)
           \/ AddKernelDrops \/ RunFlush \/ (\E b \in requests : LoseRequest(b))
           \/ CommitFails \/ UNCHANGED vars
  <2>1. UNCHANGED <<sequence, stream, cursor, disk, drain>>
    BY <1>9 DEF Enqueue, AddKernelDrops, RunFlush, Flush, LoseRequest, CommitFails, vars,
       agentVars, serverVars
  <2> QED BY <2>1
<1> QED BY <1>1, <1>3, <1>4, <1>5, <1>6, <1>7, <1>8, <1>9 DEF Next

\* The agent's queue, the ingest handler and the checkpoints of the event stream
\* implement the log, for any capacity, batch size and number of late requests,
\* failures and restarts.
THEOREM TelemetryIsLog == Spec => ImplementsLog
<1>1. Init => Log!Init /\ DrainInv
  BY DEF Init, Log!Init, DrainInv
<1>2. TypeOK /\ DurableInv /\ DrainInv /\ RecordedOnce' /\ [Next]_vars
      => [Log!Next]_(Log!lvars)
  BY LogStep DEF logged, Log!lvars
<1> QED
  BY <1>1, <1>2, DrainStep, DurableAlways, TypeCorrect, EventsRecordedOnce, PTL
  DEF Spec, Log!Spec, ImplementsLog
=============================================================================
