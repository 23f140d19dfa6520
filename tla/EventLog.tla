------------------------------ MODULE EventLog ------------------------------
(***************************************************************************)
(* What internal/cell/store.go promises a node of its kernel events: a log  *)
(* in which no event is written twice, closed batch by batch.  A batch that *)
(* is closed is on disk, is never written to again and survives every       *)
(* restart; the node is told of closed batches only, and of the last one    *)
(* whenever either side starts again ("resume monotonically after either    *)
(* side restarts", store.go:2300).                                          *)
(*                                                                          *)
(* Left out: the queue, requests that come late or never, and the way in    *)
(* which a batch is recorded event by event.                                *)
(***************************************************************************)
EXTENDS Integers, Sequences

VARIABLES log,    \* the records, oldest first
          kept,   \* the log on disk
          cursor, \* the last batch that is closed
          told,   \* the last batch the node knows to be closed
          drained \* TRUE once the node's last word was accepted

lvars == <<log, kept, cursor, told, drained>>

Init ==
    /\ log = <<>>
    /\ kept = <<>>
    /\ cursor = 0
    /\ told = 0
    /\ drained = FALSE

\* One more record, of a batch that is open; the event and its place in the
\* batch are new to the log.
Write ==
    /\ Len(log') = Len(log) + 1
    /\ LET new == log'[Len(log')] IN
        /\ log' = Append(log, new)
        /\ new.batch > cursor
        /\ \A i \in DOMAIN log :
              /\ log[i].batch = new.batch => log[i].index # new.index
              /\ log[i].n = new.n => new.n = 0
    /\ kept' \in {kept, log'}
    /\ UNCHANGED <<cursor, told, drained>>

\* A newer batch is closed; the node may learn of it at once.
Close ==
    /\ cursor' > cursor
    /\ kept' = log
    /\ told' \in {told, cursor'}
    /\ UNCHANGED <<log, drained>>

Tell == told' = cursor /\ UNCHANGED <<log, kept, cursor, drained>>

\* The node's last word is accepted when it knows all that is closed.
Drain == told = cursor /\ drained' = TRUE /\ UNCHANGED <<log, kept, cursor, told>>

RestartLog == log' = kept /\ UNCHANGED <<kept, cursor, told, drained>>

RestartNode ==
    told' = cursor /\ drained' = FALSE /\ UNCHANGED <<log, kept, cursor>>

Next == Write \/ Close \/ Tell \/ Drain \/ RestartLog \/ RestartNode

Spec == Init /\ [][Next]_lvars
=============================================================================
