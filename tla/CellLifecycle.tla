--------------------------- MODULE CellLifecycle ---------------------------
(***************************************************************************)
(* The life of one cell on the Kubernetes runtime, from Create to the      *)
(* drain receipt: the control plane's record of it (internal/cell/         *)
(* store.go), the pods that the reconciler keeps for it (internal/sandbox/ *)
(* runtime.go), the armgate that holds a pod back (cmd/mercutio/           *)
(* armgate.go) and the node agents that arm and disarm the kernel          *)
(* (nodeagent/internal/agent/agent.go).                                    *)
(*                                                                         *)
(* The store calls the runtime outside its lock.  An operation that does   *)
(* is split where the lock is given up, and keeps in a variable of its own *)
(* what it read before: making, destroying, recon, rearm, commit and, for  *)
(* the receipts of a node, post.  At most one call of each kind is in      *)
(* progress (a bound).                                                     *)
(***************************************************************************)
EXTENDS Integers, FiniteSets

CONSTANTS
    Nodes, NoNode,
    Profiles, NoProfile,
    Namespaces,         \* the class namespaces
    NamespaceOf,        \* namespaceFor: profile -> namespace
    NoCell, NoPod, Off, \* no record, no pod, no kernel enforcement
    Callers,            \* which groups of callers are active, see CallerKinds
    EarlyCallers,       \* TRUE: clients use a cell before its Create returned
    MaxPods,            \* bound: pods ever created for the cell
    MaxRearms,          \* bound: policy changes
    MaxRestarts,        \* bound: restarts of the control plane and of agents
    PersistMayFail      \* TRUE: a state checkpoint may fail

CallerKinds == {"agent", "review", "policy", "destroy", "secret", "cluster"}

ASSUME LifecycleAssumption ==
    /\ NoNode \notin Nodes
    /\ NoProfile \notin Profiles
    /\ NamespaceOf \in [Profiles -> Namespaces]
    /\ Callers \subseteq CallerKinds
    /\ EarlyCallers \in BOOLEAN
    /\ MaxPods \in Nat
    /\ MaxRearms \in Nat
    /\ MaxRestarts \in Nat
    /\ PersistMayFail \in BOOLEAN

VARIABLES
    cell,        \* record.cell in memory, NoCell before Create
    live,        \* record.docs and the two tokens are in memory
    disk,        \* the record in the last state checkpoint
    receipt,     \* the evidence ledger holds a "cell-drain-receipt"
    secrets,     \* the broker holds secrets of the cell
    pods,        \* the cell's pod in each namespace
    created,     \* pods created so far
    kernel,      \* what each node's kernel enforces for the cell
    armed,       \* Agent.armed: what each node agent believes it reported
    post,        \* the receipt each node agent is posting
    everArmed,   \* history: pods and profiles whose kernel was ever armed
    making, destroying, recon, rearm, commit,  \* operations in progress
    rearms, restarts

store == <<cell, live, disk>>
ledger == <<receipt, secrets>>
cluster == <<pods, created>>
node == <<kernel, armed, post, everArmed>>
calls == <<making, destroying, recon, rearm, commit>>
counters == <<rearms, restarts>>
vars == <<store, ledger, cluster, node, calls, counters>>

Statuses == {"provisioning", "arming", "ready", "active", "paused",
             "reviewing", "committing", "draining", "terminated", "failed"}
Busy == {"active", "paused", "reviewing", "committing"}
Phases == {"pending", "running", "stopped", "failed"}

Cell == [status : Statuses, phase : Phases, armed : BOOLEAN,
         node : Nodes \cup {NoNode}, profile : Profiles, connected : BOOLEAN]
Pod == [id : Nat, node : Nodes, phase : Phases, profile : Profiles,
        armed : BOOLEAN, deleting : BOOLEAN]
Enforcement == [id : Nat, profile : Profiles]

ASSUME NoCellAssumption == NoCell \notin Cell

\* Operations in progress, with what they read before.
NodePost == [pc : {"idle", "armed", "finalize", "mark", "disarmed"},
             profile : Profiles \cup {NoProfile}]
MakeCall == [pc : {"idle", "ensure", "apply"},
             profile : Profiles \cup {NoProfile}, pod : Pod \cup {NoPod}]
ReconCall == [pc : {"idle", "observe", "ensure", "apply", "clean", "sweep"},
              profile : Profiles \cup {NoProfile}, tokens : BOOLEAN,
              restore : BOOLEAN, pod : Pod \cup {NoPod}]
RearmCall == [pc : {"idle", "rearm", "publish", "retain"},
              profile : Profiles \cup {NoProfile}, tokens : BOOLEAN,
              previous : Statuses \cup {"none"}]

TypeOK ==
    /\ cell \in Cell \cup {NoCell}
    /\ live \in BOOLEAN
    /\ disk \in Cell \cup {NoCell}
    /\ receipt \in BOOLEAN
    /\ secrets \in BOOLEAN
    /\ pods \in [Namespaces -> Pod \cup {NoPod}]
    /\ created \in Nat
    /\ kernel \in [Nodes -> Enforcement \cup {Off}]
    /\ armed \in [Nodes -> Enforcement \cup {Off}]
    /\ post \in [Nodes -> NodePost]
    /\ everArmed \subseteq Enforcement
    /\ making \in MakeCall
    /\ destroying \in {"idle", "delete", "finish"}
    /\ recon \in ReconCall
    /\ rearm \in RearmCall
    /\ commit \in {"idle", "committing"}
    /\ rearms \in Nat
    /\ restarts \in Nat

IdlePost == [pc |-> "idle", profile |-> NoProfile]
NotMaking == [pc |-> "idle", profile |-> NoProfile, pod |-> NoPod]
NoRecon == [pc |-> "idle", profile |-> NoProfile, tokens |-> FALSE,
            restore |-> FALSE, pod |-> NoPod]
NoRearm == [pc |-> "idle", profile |-> NoProfile, tokens |-> FALSE,
            previous |-> "none"]

Init ==
    /\ cell = NoCell /\ live = FALSE /\ disk = NoCell
    /\ receipt = FALSE /\ secrets = FALSE
    /\ pods = [ns \in Namespaces |-> NoPod] /\ created = 0
    /\ kernel = [n \in Nodes |-> Off] /\ armed = [n \in Nodes |-> Off]
    /\ post = [n \in Nodes |-> IdlePost]
    /\ everArmed = {}
    /\ making = NotMaking /\ destroying = "idle" /\ recon = NoRecon
    /\ rearm = NoRearm /\ commit = "idle"
    /\ rearms = 0 /\ restarts = 0

-----------------------------------------------------------------------------
(* The store's record and its checkpoint.                                  *)

\* The record becomes c and appendEventLocked checkpoints it; a checkpoint
\* that fails turns the status in memory into "failed".
SaveCell(c) ==
    \/ cell' = c /\ disk' = c
    \/ /\ PersistMayFail
       /\ cell' = [c EXCEPT !.status = "failed"]
       /\ disk' = disk

\* The same, followed by one more persistLocked of the handler itself.
SaveCellTwice(c) ==
    \/ SaveCell(c)
    \/ /\ PersistMayFail
       /\ cell' = [c EXCEPT !.status = "failed"]
       /\ disk' = cell'

Exists == cell # NoCell
Terminated == Exists /\ cell.status = "terminated"

\* Clients learn of a cell from the answer to Create, or earlier from State.
Known == Exists /\ (EarlyCallers \/ making.pc = "idle")

\* Mutant: a pod's phase is copied into the status of its cell.
ApplyPodCopiesPhase(c, p) ==
    [c EXCEPT !.phase = p.phase, !.armed = c.armed \/ p.armed, !.node = NoNode,
              !.status = p.phase]

\* applyPodLocked: the record after pod p was observed.  The armed flag is
\* sticky and the node identity is dropped.
ApplyPod(c, p) ==
    LET isArmed == c.armed \/ p.armed
    IN [c EXCEPT !.phase = p.phase, !.armed = isArmed, !.node = NoNode,
                 !.status = CASE p.phase = "pending" -> "arming"
                              [] p.phase = "stopped" -> "terminated"
                              [] p.phase = "failed" -> "failed"
                              [] p.phase = "running" /\ ~isArmed -> "arming"
                              [] p.phase = "running" /\ isArmed ->
                                   IF @ \in Busy THEN @ ELSE "ready"]

-----------------------------------------------------------------------------
(* The Kubernetes runtime.                                                 *)

Live(p) == p # NoPod /\ ~p.deleting

NewPod(profile, n) ==
    [id |-> created + 1, node |-> n, phase |-> "pending", profile |-> profile,
     armed |-> FALSE, deleting |-> FALSE]

\* Ensure looks only into the namespace of the desired profile: p is the pod
\* it finds there, or one it creates.
Ensure(profile, p) ==
    LET ns == NamespaceOf[profile] IN
    IF pods[ns] # NoPod
      THEN p = pods[ns] /\ UNCHANGED cluster
      ELSE /\ created < MaxPods
           /\ \E n \in Nodes : p = NewPod(profile, n)
           /\ pods' = [pods EXCEPT ![ns] = p]
           /\ created' = created + 1

\* The pods Ensure can return; the argument of the \E in the actions below.
EnsureResults(profile) ==
    ({pods[NamespaceOf[profile]]} \ {NoPod})
        \cup {NewPod(profile, n) : n \in Nodes}

\* Delete asks for the deletion of every pod of the cell.
Delete ==
    /\ pods' = [ns \in Namespaces |->
                   IF pods[ns] = NoPod THEN NoPod
                   ELSE [pods[ns] EXCEPT !.deleting = TRUE]]
    /\ UNCHANGED created

Occupied == {ns \in Namespaces : pods[ns] # NoPod}

\* findCellPod succeeds: exactly one pod of the cell in all namespaces.
CellPodAt(ns) == Occupied = {ns}

-----------------------------------------------------------------------------
(* Create.                                                                 *)

\* First critical section.  No client but the creator knows the cell yet, so
\* a checkpoint that fails here leaves the status alone.
Create(profile) ==
    /\ ~Exists /\ created = 0 /\ restarts = 0
    /\ cell' = [status |-> "provisioning", phase |-> "pending", armed |-> FALSE,
                node |-> NoNode, profile |-> profile, connected |-> FALSE]
    /\ live' = TRUE
    /\ \/ disk' = cell'
       \/ PersistMayFail /\ disk' = disk
    /\ making' = [making EXCEPT !.pc = "ensure", !.profile = profile]
    /\ UNCHANGED <<ledger, cluster, node, destroying, recon, rearm, commit,
                   counters>>

CreateEnsure ==
    /\ making.pc = "ensure"
    /\ \E p \in EnsureResults(making.profile) :
          /\ Ensure(making.profile, p)
          /\ making' = [making EXCEPT !.pc = "apply", !.pod = p]
    /\ UNCHANGED <<store, ledger, node, destroying, recon, rearm, commit,
                   counters>>

CreateFails ==
    /\ making.pc = "ensure"
    /\ SaveCell([cell EXCEPT !.status = "failed", !.phase = "failed",
                             !.armed = FALSE, !.node = NoNode])
    /\ making' = NotMaking
    /\ UNCHANGED <<live, ledger, cluster, node, destroying, recon, rearm,
                   commit, counters>>

CreateApply ==
    /\ making.pc = "apply"
    /\ SaveCell(ApplyPod(cell, making.pod))
    /\ making' = NotMaking
    /\ UNCHANGED <<live, ledger, cluster, node, destroying, recon, rearm,
                   commit, counters>>

-----------------------------------------------------------------------------
(* Destroy and the drain receipt.                                          *)

Destroy ==
    /\ "destroy" \in Callers
    /\ destroying = "idle"
    /\ Known /\ ~Terminated
    /\ SaveCell([cell EXCEPT !.status = "draining"])
    /\ destroying' = "delete"
    /\ UNCHANGED <<live, ledger, cluster, node, making, recon, rearm, commit,
                   counters>>

DestroyDelete ==
    /\ destroying = "delete"
    /\ Delete
    /\ destroying' = "finish"
    /\ UNCHANGED <<store, ledger, node, making, recon, rearm, commit, counters>>

\* The API server refuses the deletion.
DestroyDeleteFails ==
    /\ destroying = "delete"
    /\ SaveCell([cell EXCEPT !.status = "failed", !.phase = "failed"])
    /\ destroying' = "idle"
    /\ UNCHANGED <<live, ledger, cluster, node, making, recon, rearm, commit,
                   counters>>

\* finalizeTerminationLocked stops at the first of its steps that fails.  An
\* evidence append that fails leaves everything as it is.
ReceiptFails == UNCHANGED <<store, ledger>>

\* The receipt is in the ledger, the broker cannot delete the secrets.
SecretCleanupFails ==
    /\ receipt' = TRUE
    /\ cell' = [cell EXCEPT !.status = "failed"]
    /\ UNCHANGED <<live, disk, secrets>>

\* Mutant: the live state is released before the receipt is durable.
FinalizeTerminationEarly ==
    /\ receipt' \in {receipt, TRUE}
    /\ secrets' = FALSE
    /\ SaveCellTwice([cell EXCEPT !.status = "terminated", !.phase = "stopped",
                                  !.node = NoNode, !.armed = FALSE,
                                  !.connected = FALSE])
    /\ live' = FALSE

FinalizeTermination ==
    /\ receipt' = TRUE
    /\ secrets' = FALSE
    /\ SaveCellTwice([cell EXCEPT !.status = "terminated", !.phase = "stopped",
                                  !.node = NoNode, !.armed = FALSE,
                                  !.connected = FALSE])
    /\ live' = FALSE

\* Last critical section of Destroy: an armed cell waits for its node's
\* receipt, any other is terminated on the spot.
DestroyFinish ==
    /\ destroying = "finish"
    /\ IF cell.armed
         THEN UNCHANGED <<store, ledger>>
         ELSE ReceiptFails \/ SecretCleanupFails \/ FinalizeTermination
    /\ destroying' = "idle"
    /\ UNCHANGED <<cluster, node, making, recon, rearm, commit, counters>>

\* The agent of node n posted that it disarmed the cell and flushed its
\* telemetry.  A refusal (no such cell, not draining, another owner, another
\* cursor) or a lost answer leaves Agent.armed set, so the post is retried.
MarkDisarmed(n) ==
    /\ post[n].pc = "disarmed"
    /\ post' = [post EXCEPT ![n] = IdlePost]
    /\ \/ UNCHANGED <<store, ledger, armed>>
       \/ /\ Terminated
          /\ armed' = [armed EXCEPT ![n] = Off]
          /\ UNCHANGED <<store, ledger>>
       \/ /\ Exists /\ cell.status = "draining"
          /\ cell.node \in {NoNode, n}
          /\ \/ SecretCleanupFails /\ UNCHANGED armed
             \/ /\ FinalizeTermination
                /\ armed' \in {armed, [armed EXCEPT ![n] = Off]}
    /\ UNCHANGED <<cluster, kernel, everArmed, calls, counters>>

-----------------------------------------------------------------------------
(* Reconcile and GarbageCollect; one goroutine runs both.                  *)

\* What Reconcile reads of the record under the read lock.
ReadSpec(pc, restore) ==
    [pc |-> pc, profile |-> cell.profile, tokens |-> live,
     restore |-> restore, pod |-> NoPod]

Reconcile ==
    /\ recon.pc = "idle"
    /\ Exists /\ ~Terminated
    /\ recon' = ReadSpec("observe", FALSE)
    /\ UNCHANGED <<store, ledger, cluster, node, making, destroying, rearm,
                   commit, counters>>

\* Observe finds a pod in some namespace, or restoreMissingSandbox reads the
\* record again.
ReconcileObserve ==
    /\ recon.pc = "observe"
    /\ recon' = CASE Occupied # {} -> [recon EXCEPT !.pc = "ensure"]
                  [] Occupied = {} /\ Terminated -> NoRecon
                  [] Occupied = {} /\ ~Terminated -> ReadSpec("ensure", TRUE)
    /\ UNCHANGED <<store, ledger, cluster, node, making, destroying, rearm,
                   commit, counters>>

ReconcileEnsure ==
    /\ recon.pc = "ensure"
    /\ recon.tokens
    /\ \E p \in EnsureResults(recon.profile) :
          /\ Ensure(recon.profile, p)
          /\ recon' = [recon EXCEPT !.pc = "apply", !.pod = p]
    /\ UNCHANGED <<store, ledger, node, making, destroying, rearm, commit,
                   counters>>

\* The API server fails, or the credentials were released.
ReconcileEnsureFails ==
    /\ recon.pc = "ensure"
    /\ recon' = NoRecon
    /\ UNCHANGED <<store, ledger, cluster, node, making, destroying, rearm,
                   commit, counters>>

\* Last critical section.  A cell that was terminated meanwhile gets its pod
\* deleted; one whose policy changed is left to the next pass.
ReconcileApply ==
    /\ recon.pc = "apply"
    /\ LET moved == cell.profile # recon.profile
           new == ApplyPod(cell, recon.pod)
       IN IF Terminated \/ moved
            THEN /\ recon' = IF Terminated \/ recon.restore
                               THEN [NoRecon EXCEPT !.pc = "clean"]
                               ELSE NoRecon
                 /\ UNCHANGED store
            ELSE /\ recon' = NoRecon
                 /\ IF recon.restore \/ new # cell
                      THEN SaveCell(new)
                      ELSE UNCHANGED <<cell, disk>>
                 /\ UNCHANGED live
    /\ UNCHANGED <<ledger, cluster, node, making, destroying, rearm, commit,
                   counters>>

\* The reconciler deletes what it just ensured; an error is ignored.
ReconcileClean ==
    /\ recon.pc = "clean"
    /\ Delete \/ UNCHANGED cluster
    /\ recon' = NoRecon
    /\ UNCHANGED <<store, ledger, node, making, destroying, rearm, commit,
                   counters>>

\* GarbageCollect lists the managed pods and then the live cells.
Orphans == {ns \in Occupied : pods[ns].phase # "stopped"
                              /\ (~Exists \/ Terminated)}

GarbageCollect ==
    /\ recon.pc = "idle"
    /\ Orphans # {}
    /\ recon' = [NoRecon EXCEPT !.pc = "sweep"]
    /\ UNCHANGED <<store, ledger, cluster, node, making, destroying, rearm,
                   commit, counters>>

\* Mutant: the collector asks for the deletion of no pod.
GarbageCollectDeleteNothing ==
    /\ recon.pc = "sweep"
    /\ recon' = NoRecon
    /\ UNCHANGED <<store, ledger, cluster, node, making, destroying, rearm,
                   commit, counters>>

GarbageCollectDelete ==
    /\ recon.pc = "sweep"
    /\ Delete
    /\ recon' = NoRecon
    /\ UNCHANGED <<store, ledger, node, making, destroying, rearm, commit,
                   counters>>

GarbageCollectFails ==
    /\ recon.pc = "sweep"
    /\ recon' = NoRecon
    /\ UNCHANGED <<store, ledger, cluster, node, making, destroying, rearm,
                   commit, counters>>

-----------------------------------------------------------------------------
(* Node agents and MarkArmed.                                              *)

Fingerprint(p) == [id |-> p.id, profile |-> p.profile]

\* The pods NodeCells shows node n: deletion hides a pod at once.
NodeCells(n) == {pods[ns] : ns \in {m \in Namespaces :
                                      Live(pods[m]) /\ pods[m].node = n}}

\* Agent.Reconcile arms a pod it has not reported yet, and posts the receipt.
\* A pod that has ended has no cgroup left to arm.
AgentArm(n) ==
    /\ post[n].pc = "idle"
    /\ \E p \in NodeCells(n) :
          /\ p.phase \in {"pending", "running"}
          /\ armed[n] # Fingerprint(p)
          /\ kernel' = [kernel EXCEPT ![n] = Fingerprint(p)]
          /\ everArmed' = everArmed \cup {Fingerprint(p)}
          /\ post' = [post EXCEPT ![n] = [pc |-> "armed", profile |-> p.profile]]
    /\ UNCHANGED <<store, ledger, cluster, armed, calls, counters>>

\* The agent disarms a cell it reported and no longer sees, flushes its
\* telemetry and posts the drain receipt.
AgentDisarm(n) ==
    /\ post[n].pc = "idle"
    /\ armed[n] # Off
    /\ NodeCells(n) = {}
    /\ kernel' = [kernel EXCEPT ![n] = Off]
    /\ post' = [post EXCEPT ![n] = [pc |-> "disarmed", profile |-> NoProfile]]
    /\ UNCHANGED <<store, ledger, cluster, armed, everArmed, calls, counters>>

\* MarkArmedContext still accepts the receipt of node n.
ReceiptCurrent(n) == Exists /\ ~Terminated /\ post[n].profile = cell.profile

\* The request or the runtime call fails, or the policy changed meanwhile.  (A
\* runtime call that fails after it has updated the pod is left out.)
PostFails(n) ==
    /\ \/ post[n].pc \in {"armed", "finalize"}
       \/ post[n].pc = "mark" /\ ~ReceiptCurrent(n)
    /\ post' = [post EXCEPT ![n] = IdlePost]
    /\ UNCHANGED <<store, ledger, cluster, kernel, armed, everArmed, calls,
                   counters>>

\* First critical section of MarkArmedContext: the receipt names the profile
\* that the record wants.
MarkArmed(n) ==
    /\ post[n].pc = "armed"
    /\ ReceiptCurrent(n)
    /\ post' = [post EXCEPT ![n].pc = "finalize"]
    /\ UNCHANGED <<store, ledger, cluster, kernel, armed, everArmed, calls,
                   counters>>

\* FinalizePolicy annotates the one pod that still asks for this profile.
FinalizePolicy(n) ==
    /\ post[n].pc = "finalize"
    /\ \E ns \in Namespaces :
          /\ CellPodAt(ns)
          /\ pods[ns].profile = post[n].profile
          /\ pods' = [pods EXCEPT ![ns].armed = TRUE]
    /\ post' = [post EXCEPT ![n].pc = "mark"]
    /\ UNCHANGED <<store, ledger, created, kernel, armed, everArmed, calls,
                   counters>>

\* Mutant: the policy is not compared again after the lock was given up.
MarkArmedFinishUnchecked(n) ==
    /\ post[n].pc = "mark"
    /\ Exists /\ ~Terminated
    /\ SaveCellTwice([cell EXCEPT !.armed = TRUE, !.node = n,
                                  !.status = IF cell.phase = "running"
                                                  /\ @ \notin Busy
                                               THEN "ready" ELSE @])
    /\ armed' \in {armed, [armed EXCEPT ![n] = kernel[n]]}
    /\ post' = [post EXCEPT ![n] = IdlePost]
    /\ UNCHANGED <<live, ledger, cluster, kernel, everArmed, calls, counters>>

\* Last critical section; the answer reaches the agent or is lost.
MarkArmedFinish(n) ==
    /\ post[n].pc = "mark"
    /\ ReceiptCurrent(n)
    /\ SaveCellTwice([cell EXCEPT !.armed = TRUE, !.node = n,
                                  !.status = IF cell.phase = "running"
                                                  /\ @ \notin Busy
                                               THEN "ready" ELSE @])
    /\ armed' \in {armed, [armed EXCEPT ![n] = kernel[n]]}
    /\ post' = [post EXCEPT ![n] = IdlePost]
    /\ UNCHANGED <<live, ledger, cluster, kernel, everArmed, calls, counters>>

-----------------------------------------------------------------------------
(* ApplyPolicy.                                                            *)

\* First critical section: nothing asks whether the cell still runs.
ApplyPolicy(profile) ==
    /\ "policy" \in Callers
    /\ rearm.pc = "idle" /\ rearms < MaxRearms
    /\ Known /\ profile # cell.profile
    /\ SaveCell(cell)
    /\ rearm' = [pc |-> "rearm", profile |-> profile, tokens |-> live,
                 previous |-> cell.status]
    /\ rearms' = rearms + 1
    /\ UNCHANGED <<live, ledger, cluster, node, making, destroying, recon,
                   commit, restarts>>

\* Rearm relabels the one pod of the cell where it is.
Rearm ==
    /\ rearm.pc = "rearm"
    /\ rearm.tokens
    /\ \E ns \in Namespaces :
          /\ CellPodAt(ns)
          /\ pods' = [pods EXCEPT ![ns].profile = rearm.profile,
                                  ![ns].armed = FALSE]
    /\ rearm' = [rearm EXCEPT !.pc = "publish"]
    /\ UNCHANGED <<store, ledger, created, node, making, destroying, recon,
                   commit, counters>>

RearmFails ==
    /\ rearm.pc = "rearm"
    /\ rearm' = [rearm EXCEPT !.pc = "retain"]
    /\ UNCHANGED <<store, ledger, cluster, node, making, destroying, recon,
                   commit, counters>>

\* Last critical section: the status is the one read in the first.
RetainPolicy ==
    /\ rearm.pc = "retain"
    /\ SaveCell([cell EXCEPT !.status = rearm.previous])
    /\ rearm' = NoRearm
    /\ UNCHANGED <<live, ledger, cluster, node, making, destroying, recon,
                   commit, counters>>

\* Last critical section after a successful Rearm: the flag is cleared.
PublishPolicy ==
    /\ rearm.pc = "publish"
    /\ SaveCell([cell EXCEPT !.profile = rearm.profile, !.phase = "running",
                             !.armed = FALSE, !.status = rearm.previous])
    /\ rearm' = NoRearm
    /\ UNCHANGED <<live, ledger, cluster, node, making, destroying, recon,
                   commit, counters>>

-----------------------------------------------------------------------------
(* The agent in the pod and its operator.                                  *)

\* A call that only changes the record and checkpoints it.
Touch(kind, c) ==
    /\ kind \in Callers
    /\ Known
    /\ SaveCell(c)
    /\ UNCHANGED <<live, ledger, cluster, node, calls, counters>>

Attach ==
    /\ ~Terminated
    /\ Touch("agent",
             [cell EXCEPT !.connected = TRUE,
                          !.status = IF /\ @ \in {"provisioning", "arming"}
                                        /\ cell.phase = "running" /\ cell.armed
                                       THEN "ready" ELSE @])

Detach ==
    Touch("agent", [cell EXCEPT !.connected = FALSE,
                                !.status = IF @ \in {"terminated", "failed"}
                                             THEN @ ELSE "ready"])

UpdateAgent(report) ==
    Touch("agent",
          [cell EXCEPT !.connected = TRUE,
                       !.status = IF @ \in {"terminated", "failed", "draining"}
                                    THEN @ ELSE report])

Heartbeat == Touch("agent", [cell EXCEPT !.connected = TRUE])

Prompt ==
    /\ ~Terminated
    /\ Touch("agent", [cell EXCEPT !.connected = TRUE, !.status = "active"])

Pause ==
    /\ Exists /\ cell.connected
    /\ cell.status \notin {"terminated", "failed", "draining", "paused"}
    /\ Touch("agent", [cell EXCEPT !.status = "paused"])

Resume ==
    /\ Exists /\ cell.connected /\ cell.status = "paused"
    /\ Touch("agent", [cell EXCEPT !.status = "active"])

\* AcknowledgeReview, or ApproveReview of one entity of several.
AcceptReview == Touch("review", [cell EXCEPT !.status = "reviewing"])

RejectReview == Touch("review", [cell EXCEPT !.status = "active"])

\* ApproveReview of the last entity: the committer runs without the lock, and
\* the new status is not checkpointed.
ApproveReview ==
    /\ "review" \in Callers
    /\ Known /\ commit = "idle"
    /\ cell' = [cell EXCEPT !.status = "committing"]
    /\ commit' = "committing"
    /\ UNCHANGED <<live, disk, ledger, cluster, node, making, destroying, recon,
                   rearm, counters>>

FinishCommit(outcome) ==
    /\ commit = "committing"
    /\ SaveCell([cell EXCEPT !.status = outcome])
    /\ commit' = "idle"
    /\ UNCHANGED <<live, ledger, cluster, node, making, destroying, recon,
                   rearm, counters>>

PutSecret ==
    /\ "secret" \in Callers
    /\ Known
    /\ SaveCell(cell)
    /\ secrets' = TRUE
    /\ UNCHANGED <<live, receipt, cluster, node, calls, counters>>

-----------------------------------------------------------------------------
(* The cluster and failures.                                               *)

\* Mutant: the init container asks for the record, not for its armed flag.
GateOpensEarly(ns) ==
    /\ Live(pods[ns]) /\ pods[ns].phase = "pending"
    /\ Exists
    /\ pods' = [pods EXCEPT ![ns].phase = "running"]
    /\ UNCHANGED <<store, ledger, created, node, calls, counters>>

\* What the arm-state endpoint answers.
ArmState == Exists /\ cell.armed

\* The init container reads arm-state until it says armed; then the agent's
\* container starts.
GateOpens(ns) ==
    /\ Live(pods[ns]) /\ pods[ns].phase = "pending"
    /\ ArmState
    /\ pods' = [pods EXCEPT ![ns].phase = "running"]
    /\ UNCHANGED <<store, ledger, created, node, calls, counters>>

\* The gate times out, the agent exits or the pod's deadline passes;
\* restartPolicy Never makes the phase final.
PodEnds(ns) ==
    /\ "cluster" \in Callers
    /\ pods[ns] # NoPod
    /\ \E phase \in {"stopped", "failed"} :
          /\ \/ pods[ns].phase = "running"
             \/ pods[ns].phase = "pending" /\ phase = "failed"
          /\ pods' = [pods EXCEPT ![ns].phase = phase]
    /\ UNCHANGED <<store, ledger, created, node, calls, counters>>

\* The cluster evicts the pod.
EvictPod(ns) ==
    /\ "cluster" \in Callers
    /\ Live(pods[ns])
    /\ pods' = [pods EXCEPT ![ns].deleting = TRUE]
    /\ UNCHANGED <<store, ledger, created, node, calls, counters>>

\* The kubelet is done with a pod that is being deleted.
PodGone(ns) ==
    /\ pods[ns] # NoPod /\ pods[ns].deleting
    /\ pods' = [pods EXCEPT ![ns] = NoPod]
    /\ UNCHANGED <<store, ledger, created, node, calls, counters>>

\* The control plane restarts: loadState reads the last checkpoint and mints
\* new tokens for every record; the calls in progress are gone.
Restart ==
    /\ restarts < MaxRestarts
    /\ restarts' = restarts + 1
    /\ cell' = disk
    /\ live' = (disk # NoCell)
    /\ making' = NotMaking /\ destroying' = "idle" /\ recon' = NoRecon
    /\ rearm' = NoRearm /\ commit' = "idle"
    /\ post' = [n \in Nodes |-> IdlePost]
    /\ UNCHANGED <<disk, ledger, cluster, kernel, armed, everArmed, rearms>>

\* A node agent restarts: its programs and its table of armed cells are gone.
AgentRestart(n) ==
    /\ restarts < MaxRestarts
    /\ restarts' = restarts + 1
    /\ kernel' = [kernel EXCEPT ![n] = Off]
    /\ armed' = [armed EXCEPT ![n] = Off]
    /\ post' = [post EXCEPT ![n] = IdlePost]
    /\ UNCHANGED <<store, ledger, cluster, everArmed, calls, rearms>>

-----------------------------------------------------------------------------

CreateStep == \/ \E p \in Profiles : Create(p)
              \/ CreateEnsure \/ CreateFails \/ CreateApply

DestroyStep == Destroy \/ DestroyDelete \/ DestroyDeleteFails \/ DestroyFinish

ReconcileStep == \/ ReconcileObserve \/ ReconcileEnsure \/ ReconcileEnsureFails
                 \/ ReconcileApply \/ ReconcileClean

NodeStep(n) == \/ AgentArm(n) \/ AgentDisarm(n) \/ PostFails(n)
               \/ MarkArmed(n) \/ FinalizePolicy(n) \/ MarkArmedFinish(n)
               \/ MarkDisarmed(n) \/ AgentRestart(n)

PolicyStep == \/ \E p \in Profiles : ApplyPolicy(p)
              \/ Rearm \/ RearmFails \/ RetainPolicy \/ PublishPolicy

OperatorStep == \/ Attach \/ Detach \/ Heartbeat \/ Prompt \/ Pause \/ Resume
                \/ \E report \in {"ready", "paused", "active"} : UpdateAgent(report)
                \/ AcceptReview \/ RejectReview \/ ApproveReview
                \/ \E outcome \in {"active", "reviewing"} : FinishCommit(outcome)
                \/ PutSecret

ClusterStep(ns) == GateOpens(ns) \/ PodEnds(ns) \/ EvictPod(ns) \/ PodGone(ns)

Next == \/ CreateStep \/ DestroyStep
        \/ Reconcile \/ ReconcileStep
        \/ GarbageCollect \/ GarbageCollectDelete \/ GarbageCollectFails
        \/ \E n \in Nodes : NodeStep(n)
        \/ PolicyStep \/ OperatorStep
        \/ \E ns \in Namespaces : ClusterStep(ns)
        \/ Restart

Spec == Init /\ [][Next]_vars

\* The reconciler's goroutine runs as long as the control plane does, its two
\* tickers both fire again and again, and an API call that is retried every
\* period succeeds in the end.
Fairness == /\ WF_vars(ReconcileStep)
            /\ SF_vars(GarbageCollect)
            /\ WF_vars(GarbageCollectDelete \/ GarbageCollectFails)
            /\ SF_vars(GarbageCollectDelete)

FairSpec == Spec /\ Fairness

-----------------------------------------------------------------------------
(* Properties.                                                             *)

\* A cell's documents and tokens are released (finalizeTerminationLocked)
\* only with the drain receipt in the evidence ledger, whatever order the
\* node's receipts, Destroy and failures come in.
ReleasedHasReceipt == Exists /\ ~live => receipt

\* The agent of a cell's first pod never starts before the kernel of its node
\* was armed for that very pod: the armgate waits for the flag, the flag for
\* the receipt, and the receipt is sent after the maps and links are live.
FirstPodGated ==
    \A ns \in Namespaces :
        pods[ns] # NoPod /\ pods[ns].id = 1 /\ pods[ns].phase = "running"
            => \E e \in everArmed : e.id = 1

\* A record that is armed and names its node does so under a profile that some
\* kernel enforced: a receipt on its way while the policy changes is never
\* taken for the new policy (MarkArmedContext compares the digest twice and
\* ApplyPolicy clears the flag), across restarts too.
AttestedProfileWasEnforced ==
    Exists /\ cell.armed /\ cell.node # NoNode
        => \E e \in everArmed : e.profile = cell.profile

\* GarbageCollect closes the gap a crash leaves: a pod that outlives its cell
\* is deleted in the end, unless it ends first.
OrphanCollected ==
    \A ns \in Namespaces :
        (ns \in Orphans /\ Live(pods[ns])) ~> (ns \notin Orphans \/ ~Live(pods[ns]))

=============================================================================
