--------------------------- MODULE ActionApproval ---------------------------
(***************************************************************************)
(* Actions that the kernel blocks until the operator decides, for one      *)
(* process of a cell and one kind of action: the gate in the kernel        *)
(* (nodeagent/programs/mercutio.hzn), the ring-buffer reader that stops    *)
(* the process (nodeagent/internal/agent/events.go), the requests in the   *)
(* store (internal/cell/store.go), the poll that fetches the decisions     *)
(* (nodeagent/cmd/mercutio-nodeagent/main.go) and their application        *)
(* (nodeagent/internal/agent/loader.go).                                   *)
(*                                                                         *)
(* The way of an ask event to the control plane is KernelTelemetry; here   *)
(* it arrives once, or not at all.                                         *)
(***************************************************************************)
EXTENDS Integers, Sequences, FiniteSets

CONSTANTS MaxAsks,        \* bound: asks of the process
          MaxUses,        \* bound: actions let through
          MaxRestarts,    \* bound: restarts of either side
          Faults          \* the faults that may happen

\* An ask event never reaches the store; the answer to a poll is lost; the
\* node agent finds the cell unloaded or the process out of reach of its
\* signals; a state checkpoint fails.
FaultKinds == {"ask", "reply", "node", "persist"}

ASSUME ApprovalAssumption ==
    /\ MaxAsks \in Nat
    /\ MaxUses \in Nat
    /\ MaxRestarts \in Nat
    /\ Faults \subseteq FaultKinds

VARIABLES
    proc,       \* the process: "running" or "stopped" by a signal
    grant,      \* ActionGrant holds the key of the process
    ring,       \* kernel events not yet read: asks, or 0 for an approved action
    asks,       \* asks so far; each is the ID of a request
    uses,       \* actions let through by a grant
    queued,     \* ask events on their way to the store
    requests,   \* ActionApprovals: status, delivered
    disk,       \* the same in the last checkpoint
    due,        \* requests whose ExpiresAt has passed
    approved,   \* history: requests that the operator approved
    reply,      \* decisions fetched and not yet applied
    applied,    \* history: how often each decision was applied
    timers,     \* pending AfterFuncs that delete the grant
    restarts,
    faults      \* history: the faults that happened

kernelVars == <<proc, grant, ring, asks, uses>>
storeVars == <<requests, disk, due, approved>>
vars == <<kernelVars, queued, storeVars, reply, applied, timers, restarts, faults>>

Asks == 1..MaxAsks
Request == [status : {"none", "pending", "approved", "rejected"},
            delivered : BOOLEAN]
Terminal == {"approved", "rejected"}
Decision == [ask : Asks, status : Terminal]

TypeOK ==
    /\ proc \in {"running", "stopped"}
    /\ grant \in BOOLEAN
    /\ ring \in Seq(Asks \cup {0})
    /\ asks \in 0..MaxAsks
    /\ uses \in 0..MaxUses
    /\ queued \subseteq Asks
    /\ requests \in [Asks -> Request]
    /\ disk \in [Asks -> Request]
    /\ due \subseteq Asks
    /\ approved \subseteq Asks
    /\ reply \subseteq Decision
    /\ applied \in [Asks -> Nat]
    /\ timers \in Nat
    /\ restarts \in 0..MaxRestarts
    /\ faults \subseteq Faults

NoRequests == [n \in Asks |-> [status |-> "none", delivered |-> FALSE]]

Init ==
    /\ proc = "running" /\ grant = FALSE /\ ring = <<>>
    /\ asks = 0 /\ uses = 0
    /\ queued = {}
    /\ requests = NoRequests /\ disk = NoRequests /\ due = {} /\ approved = {}
    /\ reply = {} /\ applied = [n \in Asks |-> 0] /\ timers = 0
    /\ restarts = 0 /\ faults = {}

\* A fault that may happen does.
Fault(kind) == kind \in Faults /\ faults' = faults \cup {kind}

-----------------------------------------------------------------------------
(* The gate and the reader of its events.                                  *)

\* The process tries the action: a grant lets it through, else it is denied
\* and an ask is reported.  The gate leaves the grant in the map.
Gate ==
    /\ proc = "running"
    /\ \/ /\ grant /\ uses < MaxUses
          /\ uses' = uses + 1
          /\ ring' = Append(ring, 0)
          /\ UNCHANGED asks
       \/ /\ ~grant /\ asks < MaxAsks
          /\ asks' = asks + 1
          /\ ring' = Append(ring, asks + 1)
          /\ UNCHANGED uses
    /\ UNCHANGED <<proc, grant, queued, storeVars, reply, applied, timers,
                   restarts, faults>>

\* baseEvent: an approved action consumes the grant, an ask stops the process
\* and is queued.  The event of a cell that is not loaded is skipped, and an ask
\* is queued also when the signal fails.
ReadEvent ==
    /\ ring # <<>>
    /\ ring' = Tail(ring)
    /\ \/ /\ Head(ring) = 0
          /\ grant' = FALSE
          /\ UNCHANGED <<proc, queued, faults>>
       \/ /\ Head(ring) # 0
          /\ proc' = "stopped"
          /\ queued' = queued \cup {Head(ring)}
          /\ UNCHANGED <<grant, faults>>
       \/ /\ Fault("node")
          /\ queued' \in {queued, queued \cup ({Head(ring)} \ {0})}
          /\ UNCHANGED <<proc, grant>>
    /\ UNCHANGED <<asks, uses, storeVars, reply, applied, timers, restarts>>

LoseAsk(n) ==
    /\ Fault("ask")
    /\ n \in queued
    /\ queued' = queued \ {n}
    /\ UNCHANGED <<kernelVars, storeVars, reply, applied, timers, restarts>>

-----------------------------------------------------------------------------
(* The store.                                                              *)

\* The requests change and are checkpointed; no caller learns of a failure.
Save(new) ==
    /\ requests' = new
    /\ \/ disk' = new /\ UNCHANGED faults
       \/ disk' = disk /\ Fault("persist")

RequestActionApproval(n) ==
    /\ n \in queued
    /\ queued' = queued \ {n}
    /\ IF requests[n].status = "none"
         THEN /\ Save([requests EXCEPT ![n].status = "pending"])
              /\ due' = due \ {n}
         ELSE UNCHANGED <<requests, disk, due, faults>>
    /\ UNCHANGED <<kernelVars, approved, reply, applied, timers, restarts>>

\* The two minutes of a request pass.
Expire(n) ==
    /\ requests[n].status = "pending" /\ n \notin due
    /\ due' = due \cup {n}
    /\ UNCHANGED <<kernelVars, queued, requests, disk, approved, reply, applied,
                   timers, restarts, faults>>

\* Mutant: a refusal is stored under a word that no poll looks for.
DecideActionApprovalDenied(n, status) ==
    /\ requests[n].status = "pending" /\ n \notin due
    /\ Save([requests EXCEPT ![n].status = IF status = "approved" THEN status
                                           ELSE "denied"])
    /\ approved' = IF status = "approved" THEN approved \cup {n} ELSE approved
    /\ UNCHANGED <<kernelVars, queued, due, reply, applied, timers, restarts>>

\* Mutant: the deadline is left to the poll.
DecideActionApprovalLate(n, status) ==
    /\ requests[n].status = "pending"
    /\ Save([requests EXCEPT ![n].status = status])
    /\ approved' = IF status = "approved" THEN approved \cup {n} ELSE approved
    /\ UNCHANGED <<kernelVars, queued, due, reply, applied, timers, restarts>>

DecideActionApproval(n, status) ==
    /\ requests[n].status = "pending" /\ n \notin due
    /\ Save([requests EXCEPT ![n].status = status])
    /\ approved' = IF status = "approved" THEN approved \cup {n} ELSE approved
    /\ UNCHANGED <<kernelVars, queued, due, reply, applied, timers, restarts>>

\* Mutant: a request that expired is let through.
SettledOpen(n) ==
    IF requests[n].status = "pending" /\ n \in due THEN "approved"
    ELSE requests[n].status

\* The requests a poll finds decided, expired ones rejected on the way.
Settled(n) ==
    IF requests[n].status = "pending" /\ n \in due THEN "rejected"
    ELSE requests[n].status

Undelivered == {n \in Asks : ~requests[n].delivered /\ Settled(n) \in Terminal}

\* Mutant: the delivery is not checkpointed.
TakeNodeActionDecisionsUnsaved ==
    /\ reply = {} /\ Undelivered # {}
    /\ reply' = {[ask |-> n, status |-> Settled(n)] : n \in Undelivered}
    /\ requests' = [n \in Asks |->
                      IF n \in Undelivered
                        THEN [status |-> Settled(n), delivered |-> TRUE]
                        ELSE requests[n]]
    /\ UNCHANGED <<kernelVars, queued, disk, due, approved, applied, timers,
                   restarts, faults>>

\* Mutant: a poll leaves the requests that nobody decided alone.
TakeNodeActionDecisionsDecided ==
    LET decided == {n \in Undelivered : requests[n].status \in Terminal} IN
    /\ reply = {} /\ decided # {}
    /\ reply' = {[ask |-> n, status |-> requests[n].status] : n \in decided}
    /\ Save([n \in Asks |-> IF n \in decided
                              THEN [requests[n] EXCEPT !.delivered = TRUE]
                              ELSE requests[n]])
    /\ UNCHANGED <<kernelVars, queued, due, approved, applied, timers, restarts>>

\* A poll of the node: every settled request is marked delivered before the
\* answer is written.
TakeNodeActionDecisions ==
    /\ reply = {} /\ Undelivered # {}
    /\ reply' = {[ask |-> n, status |-> Settled(n)] : n \in Undelivered}
    /\ Save([n \in Asks |-> IF n \in Undelivered
                              THEN [status |-> Settled(n), delivered |-> TRUE]
                              ELSE requests[n]])
    /\ UNCHANGED <<kernelVars, queued, due, approved, applied, timers, restarts>>

\* The poll times out or its connection breaks.
LoseReply ==
    /\ Fault("reply")
    /\ reply # {}
    /\ reply' = {}
    /\ UNCHANGED <<kernelVars, queued, storeVars, applied, timers, restarts>>

-----------------------------------------------------------------------------
(* The node agent applies the decisions in the order of the answer.        *)

\* Mutant: the grant is installed without the timer that removes it.
ApplyDecisionUntimed(d) ==
    /\ d \in reply
    /\ \A e \in reply : d.ask <= e.ask
    /\ reply' = reply \ {d}
    /\ applied' = [applied EXCEPT ![d.ask] = @ + 1]
    /\ proc' = "running"
    /\ grant' = (grant \/ d.status = "approved")
    /\ UNCHANGED <<ring, asks, uses, queued, storeVars, timers, restarts, faults>>

ApplyDecision(d) ==
    /\ d \in reply
    /\ \A e \in reply : d.ask <= e.ask
    /\ reply' = reply \ {d}
    /\ applied' = [applied EXCEPT ![d.ask] = @ + 1]
    /\ proc' = "running"
    /\ grant' = (grant \/ d.status = "approved")
    /\ timers' = IF d.status = "approved" THEN timers + 1 ELSE timers
    /\ UNCHANGED <<ring, asks, uses, queued, storeVars, restarts, faults>>

\* The cell is not loaded and the decision is dropped, or the process cannot be
\* resumed and an approval is taken back; its timer stays.
ApplyDecisionFails(d) ==
    /\ Fault("node")
    /\ d \in reply
    /\ \A e \in reply : d.ask <= e.ask
    /\ reply' = reply \ {d}
    /\ \/ UNCHANGED <<grant, timers>>
       \/ /\ d.status = "approved"
          /\ grant' = FALSE
          /\ timers' = timers + 1
    /\ UNCHANGED <<proc, ring, asks, uses, queued, storeVars, applied, restarts>>

\* Ten seconds after a grant; the timer does not know whose grant it deletes.
TimerFires ==
    /\ timers > 0
    /\ timers' = timers - 1
    /\ grant' = FALSE
    /\ UNCHANGED <<proc, ring, asks, uses, queued, storeVars, reply, applied,
                   restarts, faults>>

-----------------------------------------------------------------------------
(* Restarts.                                                               *)

ControlRestart ==
    /\ restarts < MaxRestarts
    /\ restarts' = restarts + 1
    /\ requests' = disk
    /\ reply' \in {reply, {}}
    /\ UNCHANGED <<kernelVars, queued, disk, due, approved, applied, timers, faults>>

\* The agent's maps, events and timers are gone; the process stays as it is.
AgentRestart ==
    /\ restarts < MaxRestarts
    /\ restarts' = restarts + 1
    /\ grant' = FALSE /\ ring' = <<>> /\ timers' = 0
    /\ queued' = {} /\ reply' = {}
    /\ UNCHANGED <<proc, asks, uses, storeVars, applied, faults>>

Decide == \E n \in Asks, status \in Terminal : DecideActionApproval(n, status)
Ingest == \E n \in queued : RequestActionApproval(n)
Apply == \E d \in reply : ApplyDecision(d)
ApplyFails == \E d \in reply : ApplyDecisionFails(d)

Next ==
    \/ Gate \/ ReadEvent
    \/ \E n \in Asks : LoseAsk(n) \/ Expire(n)
    \/ Ingest \/ Decide \/ TakeNodeActionDecisions \/ LoseReply
    \/ Apply \/ ApplyFails \/ TimerFires
    \/ ControlRestart \/ AgentRestart

Spec == Init /\ [][Next]_vars

\* The readers, the telemetry loop and the poll run for as long as the agent
\* does, and time passes.  Nothing makes the operator decide.
Fairness ==
    /\ WF_vars(ReadEvent)
    /\ WF_vars(Ingest)
    /\ \A n \in Asks : WF_vars(Expire(n))
    /\ WF_vars(TakeNodeActionDecisions)
    /\ WF_vars(Apply)

FairSpec == Spec /\ Fairness

-----------------------------------------------------------------------------
(* Properties.                                                             *)

\* The gate opens for an approval of the operator only: neither an expired
\* nor a rejected request, nor one that a restart brought back, leaves a
\* grant behind.
GrantNeedsApproval == grant \/ uses > 0 => approved # {}

\* A grant never outlives its fail-safe: as long as one is in the map, a timer
\* that deletes it is pending, whatever approvals, uses and timers overlap.
GrantHasTimer == grant => timers > 0

\* TakeNodeActionDecisions hands out a decision once: as long as no checkpoint
\* has failed, a node never applies it a second time, in particular not after a
\* restart.
AppliedOnce == "persist" \notin faults => \A n \in Asks : applied[n] <= 1

\* The verdict on each request of a table.
Verdict(table) ==
    [n \in Asks |-> IF table[n].status = "pending" /\ n \in due THEN "rejected"
                   ELSE table[n].status]

Permits == INSTANCE Permit WITH
    verdict <- Verdict(requests),
    kept <- Verdict(disk),
    reached <- {n \in Asks : applied[n] > 0},
    gate <- grant,
    passed <- uses,
    saving <- IF "persist" \in faults THEN "missed" ELSE "ok"

\* Store, poll and node agent implement a permit: a request is decided once and
\* never after its deadline, however the operator's decision races with it, the
\* decision reaches the process at most once (TakeNodeActionDecisions), and the
\* gate opens in no other step.
ImplementsPermit == Permits!Spec

\* A stopped process is resumed, also when the operator never decides, unless
\* a message is lost, the node fails or a side restarts meanwhile.
Disturbed == faults \ {"persist"} # {} \/ restarts > 0

ResumedUnlessDisturbed == proc = "stopped" ~> proc = "running" \/ Disturbed
=============================================================================
