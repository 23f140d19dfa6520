-------------------------- MODULE KernelTelemetry --------------------------
(***************************************************************************)
(* Delivery of one node's kernel events to the control plane: the bounded  *)
(* queue of the node agent (nodeagent/internal/agent/delivery.go), its     *)
(* HTTP batches, the ingest handler (internal/api/api.go) and the durable  *)
(* event stream with its cursor (internal/cell/store.go).                  *)
(*                                                                         *)
(* A request that the agent gave up on may still reach the handler; the    *)
(* handler's lock lets one batch through at a time.  RecordEvent           *)
(* checkpoints after every event and hides a failed checkpoint, while      *)
(* CommitKernelBatch rolls the cursor back.  Events are numbered in the    *)
(* order the kernel reports them.                                          *)
(***************************************************************************)
EXTENDS Integers, Sequences, SequencesExt

CONSTANTS Capacity,       \* of the queue
          BatchMax,       \* events in a batch (512 in the code)
          MaxEvents,      \* bound: events the kernel reports
          MaxAttempts,    \* bound: batches sent
          MaxDrops,       \* bound: the drop counter stops here
          MaxRestarts,    \* bound: restarts of either side
          PersistMayFail  \* TRUE: a state checkpoint may fail

ASSUME TelemetryAssumption ==
    /\ Capacity \in Nat \ {0}
    /\ BatchMax \in Nat \ {0}
    /\ MaxEvents \in Nat
    /\ MaxAttempts \in Nat
    /\ MaxDrops \in Nat
    /\ MaxRestarts \in Nat
    /\ PersistMayFail \in BOOLEAN

VARIABLES
    queue,      \* TelemetryQueue.events
    drops,      \* TelemetryQueue.drops, all sources together
    sequence,   \* TelemetryQueue.sequence
    flight,     \* the batch whose PostBatch the agent waits for
    requests,   \* batches on their way to the handler
    handler,    \* the batch being ingested and the next event of it
    stream,     \* the cell's kernel events in memory
    cursor,     \* kernelBatches[node] in memory
    disk,       \* stream and cursor in the last checkpoint
    drain,      \* FinalizeDisarm: its progress and the sequence it posts
    produced, attempts, restarts

agentVars == <<queue, drops, sequence, flight>>
serverVars == <<handler, stream, cursor, disk>>
vars == <<agentVars, requests, serverVars, drain, produced, attempts, restarts>>

Event == [n : Nat, priority : BOOLEAN]
Batch == [attempt : Nat, seq : Nat, events : Seq(Event), drops : Nat]

\* What RecordEvent stores: the ID made of batch and index (index 0 is the
\* record of a batch of drops only), the number of the event and the drops the
\* batch reports, which its first event carries.
Entry == [batch : Nat, index : Nat, n : Nat, drops : Nat]

NoBatch == [attempt |-> 0, seq |-> 0, events |-> <<>>, drops |-> 0]
Idle == [batch |-> NoBatch, next |-> 0]

TypeOK ==
    /\ queue \in Seq(Event)
    /\ drops \in Nat
    /\ sequence \in Nat
    /\ flight \in Batch
    /\ requests \subseteq Batch
    /\ handler \in [batch : Batch, next : Nat]
    /\ handler # Idle => handler.next > 0
    /\ stream \in Seq(Entry)
    /\ cursor \in Nat
    /\ disk \in [stream : Seq(Entry), cursor : Nat]
    /\ drain \in [pc : {"off", "flush", "sent", "post", "done"},
                 seq : Nat]
    /\ produced \in Nat /\ attempts \in Nat /\ restarts \in Nat

Init ==
    /\ queue = <<>> /\ drops = 0 /\ sequence = 0 /\ flight = NoBatch
    /\ requests = {}
    /\ handler = Idle /\ stream = <<>> /\ cursor = 0
    /\ disk = [stream |-> <<>>, cursor |-> 0]
    /\ drain = [pc |-> "off", seq |-> 0]
    /\ produced = 0 /\ attempts = 0 /\ restarts = 0

-----------------------------------------------------------------------------
(* The queue of the node agent.                                            *)

AddDrop == IF drops < MaxDrops THEN drops + 1 ELSE drops

\* Mutant: the full queue takes one more priority event instead of replacing.
EnqueueGrows(priority) ==
    LET event == [n |-> produced + 1, priority |-> priority] IN
    /\ produced < MaxEvents
    /\ produced' = produced + 1
    /\ IF Len(queue) < Capacity \/ priority
         THEN queue' = Append(queue, event) /\ UNCHANGED drops
         ELSE drops' = AddDrop /\ UNCHANGED queue
    /\ UNCHANGED <<sequence, flight, requests, serverVars, drain, attempts,
                   restarts>>

\* A full queue drops an event that only reports an allowed action; any other
\* event takes the place of the oldest such one, or is dropped too.
Enqueue(priority) ==
    LET event == [n |-> produced + 1, priority |-> priority]
        Oldest(i) == /\ ~queue[i].priority
                     /\ \A j \in 1..(i - 1) : queue[j].priority
    IN
    /\ produced < MaxEvents
    /\ produced' = produced + 1
    /\ \/ /\ Len(queue) < Capacity
          /\ queue' = Append(queue, event)
          /\ UNCHANGED drops
       \/ /\ Len(queue) >= Capacity
          /\ drops' = AddDrop
          /\ \/ /\ ~priority \/ \A i \in 1..Len(queue) : queue[i].priority
                /\ UNCHANGED queue
             \/ /\ priority
                /\ \E i \in 1..Len(queue) :
                      /\ Oldest(i)
                      /\ queue' = Append(RemoveAt(queue, i), event)
    /\ UNCHANGED <<sequence, flight, requests, serverVars, drain, attempts,
                   restarts>>

\* A reader could not decode an event or stop a process, or the kernel counted
\* events it had no room for.
AddKernelDrops ==
    /\ drops < MaxDrops
    /\ drops' = AddDrop
    /\ UNCHANGED <<queue, sequence, flight, requests, serverVars, drain, produced,
                   attempts, restarts>>

\* flush: the first BatchMax events and all drop counts leave the queue under
\* the next sequence number.
Flush ==
    LET count == IF Len(queue) > BatchMax THEN BatchMax ELSE Len(queue)
        batch == [attempt |-> attempts + 1, seq |-> sequence + 1,
                  events |-> SubSeq(queue, 1, count), drops |-> drops]
    IN
    /\ flight = NoBatch
    /\ queue # <<>> \/ drops > 0
    /\ attempts < MaxAttempts
    /\ attempts' = attempts + 1
    /\ flight' = batch
    /\ requests' = requests \cup {batch}
    /\ queue' = SubSeq(queue, count + 1, Len(queue))
    /\ drops' = 0
    /\ UNCHANGED <<sequence, serverVars, produced, restarts>>

RunFlush == drain.pc # "sent" /\ Flush /\ UNCHANGED drain

\* Mutant: the Run loop takes the drop it should count away.
FlushFailsUncounts ==
    /\ flight # NoBatch
    /\ queue' = flight.events \o queue
    /\ drops' = drops + flight.drops - 1
    /\ flight' = NoBatch
    /\ drain' = IF drain.pc = "sent" THEN [drain EXCEPT !.pc = "flush"] ELSE drain
    /\ UNCHANGED <<sequence, requests, serverVars, produced, attempts, restarts>>

\* PostBatch returns an error: the timeout passed, the answer was lost or the
\* control plane refused.  Events and drop counts go back; the Run loop counts
\* one more drop.
FlushFails ==
    /\ flight # NoBatch
    /\ queue' = flight.events \o queue
    /\ drops' = LET all == drops + flight.drops
                            + (IF drain.pc = "sent" THEN 0 ELSE 1)
                IN  IF all > MaxDrops THEN MaxDrops ELSE all
    /\ flight' = NoBatch
    /\ drain' = IF drain.pc = "sent" THEN [drain EXCEPT !.pc = "flush"] ELSE drain
    /\ UNCHANGED <<sequence, requests, serverVars, produced, attempts, restarts>>

-----------------------------------------------------------------------------
(* FinalizeDisarm of the node agent, after the loader disarmed the cell.   *)

Disarm ==
    /\ drain.pc = "off"
    /\ drain' = [drain EXCEPT !.pc = "flush"]
    /\ UNCHANGED <<agentVars, requests, serverVars, produced, attempts, restarts>>

\* Flush waits for the Run loop's flush and sends one batch, if any is due.
DrainFlush ==
    /\ drain.pc = "flush"
    /\ Flush
    /\ drain' = [drain EXCEPT !.pc = "sent"]

DrainFlushNothing ==
    /\ drain.pc = "flush"
    /\ flight = NoBatch /\ queue = <<>> /\ drops = 0
    /\ drain' = [drain EXCEPT !.pc = "post", !.seq = sequence]
    /\ UNCHANGED <<agentVars, requests, serverVars, produced, attempts, restarts>>

\* MarkDisarmed accepts the receipt only with the durable cursor.
PostDisarmed ==
    /\ drain.pc = "post"
    /\ drain' = [drain EXCEPT !.pc = IF cursor = drain.seq THEN "done" ELSE "flush"]
    /\ UNCHANGED <<agentVars, requests, serverVars, produced, attempts, restarts>>

-----------------------------------------------------------------------------
(* The ingest handler.                                                     *)

\* The answer to batch b, if the agent still waits for it, or silence.
Acknowledge(b) ==
    \/ UNCHANGED <<sequence, flight, drain>>
    \/ /\ flight = b
       /\ sequence' = b.seq
       /\ flight' = NoBatch
       /\ drain' = IF drain.pc = "sent" THEN [drain EXCEPT !.pc = "post", !.seq = b.seq]
                   ELSE drain

LoseRequest(b) ==
    /\ b \in requests
    /\ requests' = requests \ {b}
    /\ UNCHANGED <<agentVars, serverVars, drain, produced, attempts, restarts>>

\* Mutant: the batch of the cursor is ingested again.
AcceptBatchAgain(b) ==
    /\ b \in requests /\ handler = Idle
    /\ requests' = requests \ {b}
    /\ handler' = IF b.seq >= cursor THEN [batch |-> b, next |-> 1] ELSE handler
    /\ UNCHANGED <<agentVars, stream, cursor, disk, drain, produced, attempts,
                   restarts>>

\* The handler takes its lock.  The batch of the cursor is acknowledged again
\* without a look at its events, an older one is refused.
AcceptBatch(b) ==
    /\ b \in requests /\ handler = Idle
    /\ requests' = requests \ {b}
    /\ IF b.seq > cursor
         THEN handler' = [batch |-> b, next |-> 1] /\ UNCHANGED <<sequence, flight, drain>>
         ELSE /\ UNCHANGED handler
              /\ IF b.seq = cursor THEN Acknowledge(b)
                 ELSE UNCHANGED <<sequence, flight, drain>>
    /\ UNCHANGED <<queue, drops, stream, cursor, disk, produced, attempts,
                   restarts>>

\* persistLocked writes the whole store, or fails.
Persist(st, cu) ==
    \/ disk' = [stream |-> st, cursor |-> cu]
    \/ PersistMayFail /\ disk' = disk

Ids == {<<stream[i].batch, stream[i].index>> : i \in DOMAIN stream}

\* Mutant: RecordEvent appends without a look at the event's ID.
RecordEventAgain(index, n) ==
    LET entry == [batch |-> handler.batch.seq, index |-> index, n |-> n,
                  drops |-> IF index <= 1 THEN handler.batch.drops ELSE 0]
    IN
    /\ stream' = Append(stream, entry)
    /\ Persist(stream', cursor)

\* RecordEvent: an ID that is already in the stream makes the call a success
\* that changes nothing.
RecordEvent(index, n) ==
    LET entry == [batch |-> handler.batch.seq, index |-> index, n |-> n,
                  drops |-> IF index <= 1 THEN handler.batch.drops ELSE 0]
    IN
    IF <<entry.batch, entry.index>> \in Ids
      THEN UNCHANGED <<stream, disk>>
      ELSE /\ stream' = Append(stream, entry)
           /\ Persist(stream', cursor)

IngestEvent ==
    LET events == handler.batch.events IN
    /\ handler # Idle
    /\ handler.next <= Len(events)
    /\ RecordEvent(handler.next, events[handler.next].n)
    /\ handler' = [handler EXCEPT !.next = @ + 1]
    /\ UNCHANGED <<agentVars, requests, cursor, drain, produced, attempts,
                   restarts>>

\* A batch without events still records its drops.
IngestDrops ==
    /\ handler # Idle
    /\ handler.batch.events = <<>> /\ handler.next = 1
    /\ RecordEvent(0, 0)
    /\ handler' = [handler EXCEPT !.next = @ + 1]
    /\ UNCHANGED <<agentVars, requests, cursor, drain, produced, attempts,
                   restarts>>

Ingested ==
    /\ handler # Idle
    /\ handler.next > Len(handler.batch.events)
    /\ handler.batch.events = <<>> => handler.next > 1

\* Mutant: the answer does not wait for the checkpoint.
CommitKernelBatchUnsaved ==
    /\ Ingested
    /\ handler' = Idle
    /\ cursor' = handler.batch.seq
    /\ Persist(stream, cursor')
    /\ Acknowledge(handler.batch)
    /\ UNCHANGED <<queue, drops, requests, stream, produced, attempts, restarts>>

\* CommitKernelBatch: the cursor moves and is checkpointed, then the batch is
\* acknowledged.
CommitKernelBatch ==
    /\ Ingested
    /\ handler' = Idle
    /\ cursor' = handler.batch.seq
    /\ disk' = [stream |-> stream, cursor |-> cursor']
    /\ Acknowledge(handler.batch)
    /\ UNCHANGED <<queue, drops, requests, stream, produced, attempts, restarts>>

\* The checkpoint fails and the cursor is put back.  (The handler's other ways
\* out of an ingest need a cell without a record or an ask without process or
\* cgroup, which a validated batch of the agent does not have.)
CommitFails ==
    /\ PersistMayFail
    /\ Ingested
    /\ handler' = Idle
    /\ UNCHANGED <<agentVars, requests, stream, cursor, disk, drain, produced,
                   attempts, restarts>>

-----------------------------------------------------------------------------
(* Restarts.                                                               *)

\* Connections to the old process die with it; only a request the agent still
\* waits for may reach the new one.
ControlRestart ==
    /\ restarts < MaxRestarts
    /\ restarts' = restarts + 1
    /\ stream' = disk.stream
    /\ cursor' = disk.cursor
    /\ handler' = Idle
    /\ requests' = requests \cap {flight}
    /\ UNCHANGED <<agentVars, disk, drain, produced, attempts>>

\* What the control plane says the node's last batch was.
TelemetryCursor == cursor

\* A new agent process starts with an empty queue and the control plane's
\* cursor (reconcileCursor); requests of the old one may still be under way.
AgentRestart ==
    /\ restarts < MaxRestarts
    /\ restarts' = restarts + 1
    /\ queue' = <<>> /\ drops' = 0 /\ flight' = NoBatch
    /\ sequence' = TelemetryCursor
    /\ drain' = [pc |-> "off", seq |-> 0]
    /\ UNCHANGED <<requests, serverVars, produced, attempts>>

Next ==
    \/ \E priority \in BOOLEAN : Enqueue(priority)
    \/ AddKernelDrops
    \/ RunFlush \/ FlushFails
    \/ Disarm \/ DrainFlush \/ DrainFlushNothing \/ PostDisarmed
    \/ \E b \in requests : LoseRequest(b) \/ AcceptBatch(b)
    \/ IngestEvent \/ IngestDrops \/ CommitKernelBatch \/ CommitFails
    \/ ControlRestart \/ AgentRestart

Spec == Init /\ [][Next]_vars

-----------------------------------------------------------------------------
(* Properties.                                                             *)

\* Retries, late requests, evictions between two attempts and restarts of
\* either side never record a kernel event twice: not in memory, and not in
\* the checkpoint.
RecordedOnce ==
    \A st \in {stream, disk.stream} :
        \A i, j \in DOMAIN st : st[i].n = st[j].n /\ st[i].n > 0 => i = j

\* What the agent takes for acknowledged is durable: its sequence number is
\* never ahead of the cursor in the checkpoint, and the checkpoint holds what
\* the stream has of the batches up to it, whatever fails or restarts.
AcknowledgedIsDurable ==
    /\ sequence <= disk.cursor
    /\ \A i \in DOMAIN stream :
          stream[i].batch <= cursor => \E j \in DOMAIN disk.stream :
                                          disk.stream[j] = stream[i]

\* The agent's memory is bounded: failed batches put back in front of a queue
\* that filled up meanwhile exceed the capacity by one batch at most.
QueueBounded == Len(queue) + Len(flight.events) <= Capacity + BatchMax

\* Every kernel event is in the agent's hands, or in the stream, or covered by
\* a drop count that is in the agent's hands or in the stream.
Lost(n) ==
    /\ \A i \in DOMAIN queue : queue[i].n # n
    /\ \A i \in DOMAIN flight.events : flight.events[i].n # n
    /\ \A i \in DOMAIN stream : stream[i].n # n

NoDropReported ==
    /\ drops = 0 /\ flight.drops = 0
    /\ \A i \in DOMAIN stream : stream[i].drops = 0

NoSilentLoss ==
    restarts = 0 /\ NoDropReported => \A n \in 1..produced : ~Lost(n)

\* EventLog is what an investigator relies on: however batches are split,
\* repeated, given up on, late, half ingested or cut short by restarts, the
\* cell has a log of different events, a batch that the node knows to be closed
\* is complete on disk and stays, and a drain receipt is accepted only from a
\* node that knows the last closed batch.
Log == INSTANCE EventLog WITH
    log <- stream,
    kept <- disk.stream,
    told <- sequence,
    drained <- drain.pc = "done"

ImplementsLog == Log!Spec
=============================================================================
