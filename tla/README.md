# Mercutio: verification project

TLA+ models of Mercutio, a sandbox-first home for coding agents: the code under
`internal/`, `cmd/` and `nodeagent/`. TLC checks the models on small instances,
TLAPS proves theorems about them for every value of their constants. Paths below
are relative to the repository's root.

Contents: 1 inventory, 2 modules and how they correspond to the code, 3 runs and
bounds, 4 fairness, 5 proofs, 6 disagreements between the code and what is said
of it, 7 observations without a run, 8 what is not modelled, 9 plan.

## 1. Inventory

A *cell* is one agent in one sandbox pod. The control plane keeps its record,
the node agent of the pod's node arms the kernel programs that contain it, and
an operator watches, steers and approves.

| part | state | operations | talks to |
|---|---|---|---|
| cell store (`internal/cell/store.go`) | one record per cell under one lock; a whole-store JSON checkpoint | about 60 methods: lifecycle, secrets, reviews, buffers, event streams, action approvals | sandbox runtime, evidence log, secret broker, committer; calls runtime, broker and committer **outside** its lock |
| sandbox runtime (`internal/sandbox/runtime.go`) | none of its own: pods and cell resources in Kubernetes | Ensure, Observe, Managed, Delete, Rearm, FinalizePolicy, NodeCells | the API server |
| reconciler (`cmd/mercutio/main.go:268`) | two tickers | Reconcile every cell each 2 s, GarbageCollect each 30 s, one goroutine | cell store |
| armgate (`cmd/mercutio/armgate.go`) | none | polls arm-state in an init container | HTTP API |
| node agent, arming loop (`nodeagent/internal/agent/agent.go`) | table of cells it believes armed | Reconcile: arm, post receipt, disarm, drain receipt | loader, HTTP API |
| node agent, loader and rules (`loader.go`, `file_rules.go`, `exec_rules.go`, `discovery.go`) | kernel maps and links, loaded cells | Arm, rollback, Disarm, RefreshRules, ApplyDecision | kernel |
| node agent, event readers (`events.go`) | none; they signal processes | decode ring-buffer records, stop a process that asks | telemetry queue |
| node agent, telemetry queue (`delivery.go`) | bounded queue, drop counts, sequence number | Enqueue, flush, put back, final flush of a drain | ingest handler |
| kernel programs (`nodeagent/programs/mercutio.hzn`) | maps, ring buffer | verdict of each operation | event readers |
| HTTP API (`internal/api/api.go`) | the lock of the ingest handler | endpoints of node agent, sidecar and operator | cell store |
| agent hub (`internal/transport/hub.go`) | connected clients, attach leases | attach, presence, relay, DeliverTier2Grant | attach sidecar, cell store |
| attach sidecar (`cmd/mercutio/attach*.go`) | files of the pod | bridges hub and agent, reconciles disk and buffers | hub |
| capability authority (`internal/capability/authority.go`) | a key | Mint, Verify | cell store |
| evidence log (`internal/evidence/log.go`) | append-only hash chain | Append, Open, Verify | cell store |
| secret broker (`internal/secrets`) | secrets of each cell | Put, Get, DeleteCell | cell store |
| divergence engine (`internal/divergence`) | intents and events in a window | correlate | cell store |
| operator authentication (`internal/auth`) | sessions, links, passkeys | login, verify | HTTP |
| review, shadow, intelligence, policy, view, command line | none, or a cache | pure translation and presentation | cell store |

Hard behaviours, and the property each part must have:

* **Lifecycle.** Six parties change one record: client calls, the reconciler,
  receipts of nodes, the sidecar, the cluster, a restart. The store gives up its
  lock around every runtime call and continues on what it read before. A cell
  must not be released without a durable drain receipt, its agent must not start
  before the kernel contains it, and its record must never attest a policy that
  no kernel enforced.
* **Secret grants.** Single use across a broker read outside the lock, across
  failing appends and checkpoints, expiry and restarts; no value without its
  receipt.
* **Kernel telemetry.** At-least-once delivery over timeouts must become
  exactly-once in the stream; acknowledged means durable; the queue is bounded;
  no event is lost in silence.
* **Action approvals.** A process is stopped until a decision comes back through
  four asynchronous parts. The gate opens for the operator's approval only, not
  for long, and the process must be resumed even if the operator never answers.
* **Shared buffers.** A human, the agent and the pod's disk write one file. Its
  text lives four times: file entry, CRDT document, worktree and the lease that
  remembers what the agent replaced. None of a writer's text may vanish, a text
  that may not go live must stay an open Shadow Revision, and a commit that runs
  outside the lock must leave BASE, reviews and stale marks in step.
* **Kernel enforcement.** The maps of a class are shared by a record, its
  replacement and a failed attempt to replace it, while processes are judged
  between any two updates. Nothing a loaded policy forbids may pass in between,
  nothing may be left behind, and a receipt must be true when it is posted.
* **Agent hub.** One sidecar at a time may hold a cell's lease. Attach, leave,
  the relay of a commit, its deadline, a rotation of the capability and the
  destruction of the cell are handled by different goroutines, which give up the
  hub's locks between their steps. No client that has gone may keep the next one
  out, a reader must never block on an answer, and the receipt of a commit must
  name a revision that contains it.
* **Everything else** (section 8): the hash chain's recovery, the sidecar's disk
  reconciliation.

`PROJECT.json` lists the hazards line by line with the properties that cover
them.

## 2. Modules

| module | models | proofs |
|---|---|---|
| `CellLifecycle` | one cell: record, checkpoint, pods, nodes, kernel | `CellLifecycleProofs` |
| `SecretGrant` | the grants of one cell | `SecretGrantProofs` |
| `KernelTelemetry` | one node and the control plane | `KernelTelemetryProofs` |
| `ActionApproval` | one process, its gate and the control plane | `ActionApprovalProofs` |
| `Workspace` | the shared buffers, shadows, reviews and commits of one cell | `WorkspaceProofs` |
| `NodeEnforcement` | one node: arming loop, loader, kernel maps and gates | `NodeEnforcementTypes`, `NodeEnforcementProofs` |
| `AgentHub` | the hub and the sidecars of one cell: leases, presence, relay of a commit | `AgentHubProofs` |
| `CommitService` | abstract: what `review.Committer` promises `ApproveReview` | implemented by `AgentHub` |
| `Voucher` | abstract: what a secret grant promises | implemented by `SecretGrant` |
| `EventLog` | abstract: what the control plane promises a node of its events | implemented by `KernelTelemetry` |
| `Permit` | abstract: what an action approval promises | implemented by `ActionApproval` |
| `MC...` | instances for TLC: model values, maps, symmetry | |

The seven detailed modules share no variable in the code either, apart from the
store's lock and checkpoint: each models its own part of the checkpoint, and what the
other operations of the store do to it. (`SecretGrant!OtherCheckpoint` writes
requests in the middle of a consume call, as any heartbeat does.) Where one
part's interface is another part's detail, the coarser module says so:
`ActionApproval` takes the delivery of an ask as one step that may fail, and
`KernelTelemetry` models it; `CellLifecycle` arms a node in one step against the
full record of the control plane, and `NodeEnforcement` models that step map
update by map update against a control plane that only has a wanted policy and
a draining flag; `Workspace` takes a commit as one call that succeeds or fails,
and `AgentHub` relays it.

### CellLifecycle

State. `cell` is the part of the record that decides anything here (status, pod
phase, armed flag, node, profile, connection); the other fields are data. `live`
says that documents and tokens are in memory, `disk` is the record in the last
checkpoint, `receipt` and `secrets` what ledger and broker hold. `pods` has one
pod per class namespace: a pod is a name in its namespace, so there cannot be
two. `kernel`, `armed` and `post` are, per node, what is enforced, what the
agent believes it reported, and the receipt it is posting. `everArmed` is a
history variable. A profile stands for its digest; the policy's contents and the
pod's template are left out.

Atomicity. An action is one critical section of the store, or one call to the
API server. An operation that gives up the lock is split there, and a variable
keeps what it carries over: `making` (Create's three parts), `destroying`,
`recon` (Reconcile, `restoreMissingSandbox` and GarbageCollect, which share one
goroutine), `rearm` (`applyPolicy`), `commit`, and `post` (`MarkArmedContext` is
`MarkArmed`, `FinalizePolicy`, `MarkArmedFinish`). A step that calls the
cluster can fail; `SaveCell` is `appendEventLocked`, whose failed checkpoint
turns the status in memory into `failed`, and `SaveCellTwice` is a handler that
checkpoints once more.

Correspondence. One action per method; `PROJECT.json` maps each to its lines.
`PodEnds`, `EvictPod` and `PodGone` are the cluster's. `Restart` is `loadState`
and drops every call in progress; `AgentRestart` empties a node agent's table
and removes its programs.

### SecretGrant

`status` and `expiresAt` are the request's fields, `disk` both in the
checkpoint, `minted` and `held` the tokens not yet sent and received. A token
names a request and an expiry: the HMAC is taken as unforgeable.
`ConsumeSecretGrant` is `BeginConsume` (first critical section), `BrokerGet`
(outside the lock) and one of `RollBackConsume`, `RefuseConsume` and
`FinishConsume`. `BeginConsume` does not checkpoint; any other operation may
(`OtherCheckpoint`). `checkpoints` records whether one has failed.

Refinement. `Grants == INSTANCE Voucher` maps a request to a voucher:
`consuming` is still approved, `consumed` is spent, on disk likewise. A consume
call is then one step, `FinishConsume`, in which the voucher is redeemed for one
value and one receipt; its other steps do not show, `FailSecretGrantDelivery` is
`TakeBack`, and `OtherCheckpoint` writes the table. Expiry, which changes no
status, does not show either.

### KernelTelemetry

`queue`, `drops` and `sequence` are fields of `TelemetryQueue`, `flight` is the
batch whose answer the agent waits for. `requests` are HTTP requests on their
way: a request the agent gave up on stays there and may be handled later, also
after a restart of the agent. `handler` is the batch under the ingest lock and
the next event of it, so a restart can cut an ingest anywhere. `stream` and
`cursor` live in the store, `disk` in its checkpoint. An event is its number and
whether `priorityEvent` holds; drop counts of all sources are one number. Every
modelled event is valid: it names a known cell and lies in the clock window.
`drain` is `FinalizeDisarm`.

Refinement. `Log == INSTANCE EventLog` maps `stream` to the log, `disk` to what
is kept, `cursor` to the last batch that is closed and `sequence` to what the
node knows of it. `RecordEvent` writes, `CommitKernelBatch` closes, the answer
to a post or a replay tells the node, `PostDisarmed` is its last word. Queue,
requests and the ingest in progress do not show.

### ActionApproval

The kernel's gate (`grant`, `ring`), the reader, the store's requests with
`disk`, the poll (`reply`), the node's application of a decision and the ten
second `timers` of `loader.go:133`. One process and one kind of action: grants
of different keys do not meet. `faults` records the faults that happened, out of
`Faults`.

Refinement. `Permits == INSTANCE Permit` maps each request to the verdict on it:
a pending request whose deadline has passed is rejected, though the store only
writes that down at the next poll (`store.go:2403`). So the operator's decision
and the deadline are two steps that exclude each other, a poll shows as a write
of the table at most, and `ApplyDecision` is the step in which the decision
reaches the process. Everything that may shut the gate is one step.

### Workspace

State. `cell` is the durable part of the record: `files` and `docs` (file entry
and CRDT document of each path), `baseline`, `shadows`, `reviews`; `saved` is
the same in the last checkpoint that was written, which is often one step behind
because handlers record their event before they regenerate the reviews. Any
checkpoint may fail, as the code passes over its error: `appendEventLocked` notes
it in the record (`degraded`, which blocks the reviews), `applyEditLocked` and
`CollectShadowGarbage` drop it, and the handler succeeds. `unsaved` says that the
last checkpoint failed, `misses` counts the handlers of which one did; an edit
has up to three, which fail independently (`EditRecorded`). `disk` is the store's
worktree, `writer` the 90-second leases, `focus` the cursors of humans,
`refresh` the timer of `RefreshReviews`, `commits` the commits in flight. A text
is opaque: an edit replaces it by any other, the merge returns any text or, where
both sides changed, a conflict, undo leaves some text. A path has at
most one reviewable entity.

Actions. One per handler, the whole of it: `HumanEdit` includes the takeover of
an agent's buffer and `Reviewed` is part of each handler that calls
`generateReviews`. `ApproveReview` is `ApproveEntity` or `StartCommit`, then
`CommitSucceeds` or `CommitFails`, as it gives up the lock while the pod
commits. `...Fails` actions are a worktree write that failed after the document
had changed. `Cursor` and `Edit` are the hub's messages that lead to
them; `Restart` is `loadState`.

### NodeEnforcement

State. `pod`, `live`, `policy`, `draining` are the cluster and the control
plane; `scope`, `net`, `file`, `lsm` the maps CellScope, NetAllow/Net6Allow and
FileRules and the attached LSM programs, each by class, since every class has
its own collection; `loaded` is `ProgramManager.cells`, `armed` is
`Agent.armed`, `pass` the reconcile pass under way, `op` the loader call under
way with what it has installed and what is left to do. `mishaps` records, for
the liveness property, which cell was skipped, refused or not restored.

Actions. The loader's lock and the one reconcile goroutine serialise its calls,
but not processes: each map update and each attachment of `Arm` is an action,
in the order of the code (scopes, file rules, LSM programs, allow-list, connect
hooks, commit, retire the previous record, receipt), and each may fail. A loop
of deletes whose errors the code ignores is one action for each kind of entry.
`ConnectVerdict` and its companions say what `mercutio.hzn` decides from these
maps for a process, at any moment. `ListCells` reads the cluster once per pass,
so everything after it works on what may be stale.

### AgentHub and CommitService

State. A client is one connection, which is one run of the sidecar's program:
after a rotation (`syscall.Exec`, `attach.go`) or a restart the sidecar is a new
client, and the hub may still be reading from the old one. `reader` is the
goroutine that reads a client, by the place where it gave up a lock; `agents`
and `agentByCell` are the hub's maps, `present` the store's `Agent.Connected`,
`commits` the map of pending calls and `result` the channel of each. `outbox`
and `inbox` are messages under way; `running`, `rotated` and `job` belong to the
sidecar; `history` is the branch of the worktree, by the request each commit was
made for. A revision is its length, so `git rev-parse HEAD` returns
`Len(history)`.

Actions. A handler is cut where it takes or gives up `h.mu`, `h.commitMu` or the
store's lock: attaching is `AttachCheck`, `AttachStore`, `AttachRegister`,
leaving is `LeaveFails`, `LeaveRemoves`, `LeaveDetaches`, `RequestAgentCommit`
is `FindAgent`, `AuthorizeAgent`, `RegisterCommit`, `SendCommit` and then
`ReceiveResult` or `TimeOut`, a result is `ResultArrives` and `TakeResult`,
`DisconnectCell` is the four `Stop` actions. `executeCellCommit` runs in a
goroutine of its own (`StartJob`, `CommitJob`, `FailJob`, `ReportJob`), and
commits of two requests may overlap in the worktree. Cut connections, expiry,
rotation, failed commits and `DisconnectCell` count as `faults`.

Refinement. `Service == INSTANCE CommitService` maps `asked` to the calls that
have left `idle`, `log` to `history` and `answer` to the answers of the calls;
`ImplementsService` says that every behaviour of the hub is one of the service:
a call has one outcome, a receipt comes after the commit it names, and a
request is never committed twice.

## 3. Runs

| run | result | question |
|---|---|---|
| `cell_lifecycle` | 2.37 M states, holds | types, `ReleasedHasReceipt`, `FirstPodGated`; create, destroy, reconcile, receipts, evictions, reviews, secrets, one restart |
| `cell_policy` | 1.61 M states, holds | `AttestedProfileWasEnforced`; two profiles, a policy change, the sidecar's calls, one restart, clients that act before Create returned |
| `cell_orphan` | 0.59 M states, holds | `OrphanCollected` (liveness): failing checkpoints and a restart leave no pod behind |
| `secret_grant` | 0.92 M states, holds | types, `ReceiptPerRelease`, `ConsumingIsOwned`, `SingleUseWhileSaved`, `ImplementsVoucher` (refinement); two requests, two concurrent calls, expiry, one restart |
| `kernel_telemetry` | 0.69 M states, holds | types, `RecordedOnce`, `AcknowledgedIsDurable`, `QueueBounded`, `ImplementsLog` (refinement); four events, a drop counted by the kernel, two posts, failing checkpoints, one restart |
| `action_approval` | 0.22 M states, holds | types, `GrantNeedsApproval`, `GrantHasTimer`, `AppliedOnce`, `ImplementsPermit` (refinement), `ResumedUnlessDisturbed` (liveness); two asks, every fault, one restart |
| `workspace` | 1.04 M states, holds | types, `Converged`, `StaleMarked`, `CommittingHasCommit`, `CrashKeepsWork`, `TakeoverKeepsAgentText`, `OpenShadowKept`; every writer, a commit in flight, a failed worktree write, or a failed checkpoint and a restart after it |
| `node_enforcement` | 0.79 M states, holds | types, `Contained`, `NothingLeftBehind`, `ReceiptsAreTrue`, `Converges` (liveness), no deadlock; a change of pod or policy, two faults |
| `agent_hub` | 0.20 M states, holds | types, `AnswerBuffered`, `LeaseIsLive`, `ImplementsService` (refinement), `CommitsAnswered`, `LeaseFreed`, `PresenceRecovers` (liveness); two connections, a relayed commit, two faults |
| `telemetry_loss` | violated | section 6 |
| `workspace_adopt` | violated | section 6 |
| `node_rearm` | violated | section 6 |

Why the bounds are enough to meet the hazards:

* `CellLifecycle`: one node is enough because a second adds nothing but a second
  poster of the same receipt. One restart separates a checkpoint from memory.
  The kinds of callers are switched by `Callers`, because all together are too
  large for TLC, and each run has one pod and at most one policy change so that
  more kinds of callers fit in. What TLC leaves out here the theorems cover: all
  the safety properties of these runs are proved for every number of pods, policy
  changes, restarts and nodes and for all callers together. At most one call of
  each kind is in progress.
* `FirstPodGated` is checked, and proved, in one namespace. With two it is false
  (section 7).
* `SecretGrant`: two calls race for one token, two requests show that a call
  never touches the other's. The clock has one tick more than the lifetime.
* `KernelTelemetry`: capacity 1 and batches of 2 make a batch that was put back
  grow before it is sent again, which needs all four events to overflow; two
  posts are a late one and the retry that meets its cursor, in either order.
* `ActionApproval`: two asks make two overlapping grants and timers and a use
  of a grant between them.
* `Workspace`: two edits of one file make every ordered pair of writers
  (human and agent, agent and disk, edit and undo), two shadows make one shadow
  behind another (adoption creates the second), a second file keeps the rule
  that the last file cannot be deleted. One commit at a time overlaps with the
  edits. `MaxFailures` allows one handler that fails to write the worktree or a
  checkpoint, `MaxRestarts` one restart, also after the failed checkpoint, with
  handlers in between that make good for it or do not; after a failed worktree
  write the properties claim next to nothing, so no restart follows one. `Named`
  is the unknown base, which a commit makes stale like an outdated one (with both,
  1.18 M states passed too), and edits and merges give the two texts that are not
  empty (`Written`). `workspace_adopt` needs a third edit and no failure. What one
  commit and two shadows leave out the theorems cover: they hold for any number
  of both.
* `NodeEnforcement`: one cell, because the keys of cells are disjoint (a cgroup
  belongs to one pod) and the loader takes its lock per call. A pod with two
  cgroups makes sets that grow and partial updates, its successor a replacement.
  Two strict policies make a replacement within a collection, a standard and an
  open one across collections. Two faults are a failed update and a failed
  restore of its rollback. With two changes and two faults the safety properties
  were checked too (3.0 M states); `node_rearm` needs two changes and no fault.

* `AgentHub`: two connections are a sidecar and its successor, which share an
  agent ID; one request meets every place where a reader, `DisconnectCell` and
  the deadline compete for its answer; two faults are a cut or rotation and what
  goes wrong after it. Two requests with one fault (0.93 M states) and one
  request with three faults (0.91 M states) passed too, but are too slow to
  repeat. For the safety properties and the refinement the theorems hold for all.

Deadlock is checked in the runs of `NodeEnforcement`, whose loop never stops. It
is off elsewhere: with its bounds used up, and with a terminated cell and
nothing in flight, each of these systems does stop.

Every property of a passing run has a mutant, an operator next to the one it
changes, that breaks it: a receipt taken before it is durable, a gate that asks
for the record and not for its flag, a digest compared once instead of twice, a
collector that deletes nothing, a rollback that is forgotten, an event appended
without a look at its ID, an acknowledgement before the checkpoint, a queue that
grows, a timer that is not set, a delivery that is not checkpointed, a batch that
is taken twice, a decision after its deadline, a BASE that moves after the
checkpoint, a takeover that restores only the document, a rollback that deletes what the previous record
shares, a fingerprint without the cgroups, a request that is sent again while it
is not answered, a wait without a deadline, and so on.

## 4. Fairness

* `cell_orphan`: weak fairness of `ReconcileStep`, because a pass that started
  goes on as long as the process runs; strong fairness of `GarbageCollect`,
  because the same goroutine serves two tickers (`main.go:268-298`), so that
  collection is enabled again and again between passes and `select` chooses
  among ready tickers at random; and of `GarbageCollectDelete` against
  `GarbageCollectFails`: an API server that is asked every 30 s answers at some
  time. Nothing is assumed of clients, node agents or the kubelet. `Restart` is
  bounded, so the control plane runs on in the end.
* `action_approval`: weak fairness of the ring-buffer
  reader, of the delivery of asks, of the poll and of the application of
  decisions, which are endless loops of the node agent, and of the passing of a
  request's two minutes. Nothing is assumed of the operator or of the process.
  `ResumedUnlessDisturbed` excuses every fault except a failed checkpoint, and
  restarts; no fault is excluded from happening.
* `node_enforcement`: weak fairness of the agent's next step, `Progress` or the
  refusal of a receipt. The ticker fires every two seconds for as long as the
  process runs, and a loader call returns. Faults are bounded but never
  excluded. `Converges` excuses a cell only if discovery skipped it, a receipt
  of it was refused or a scope was not restored: `node_rearm` shows why it must.

* `agent_hub`: weak fairness of each reader, which is a goroutine that goes on
  while its connection has something to read, and the sidecar sends a heartbeat
  every 15 seconds (`attach.go`) and a connection that ends is read as an error;
  and of each waiting call, whose `select` has a deadline of two minutes.
  Nothing is assumed of the sidecar's commit, of the network or of expiry: a
  call ends because of its deadline alone.

## 5. Proofs

`tlapm` checks every theorem to the last leaf. Assumptions are those of the
modules: bounds are natural numbers, the "no such" values are not among the
values (`NoCellAssumption`: no record is `NoCell`).

| theorem | says |
|---|---|
| `TypeCorrect` (every detailed module) | every reachable state is well formed |
| `ReleaseNeedsReceipt` | `ReleasedHasReceipt` |
| `AttestedWasEnforced` | `AttestedProfileWasEnforced` |
| `FirstPodIsGated` | `FirstPodGated`, if there is one namespace |
| `ReleaseHasReceipt` | `ReceiptPerRelease` |
| `ConsumingOwned` | `ConsumingIsOwned` |
| `SingleUseHolds` | `SingleUseWhileSaved` |
| `GrantsAreVouchers` | `ImplementsVoucher`: `SecretGrant` refines `Voucher` |
| `QueueIsBounded` | `QueueBounded` |
| `AcknowledgedDurable` | `AcknowledgedIsDurable` |
| `EventsRecordedOnce` | `RecordedOnce` |
| `TelemetryIsLog` | `ImplementsLog`: `KernelTelemetry` refines `EventLog` |
| `GateNeedsOperator` | `GrantNeedsApproval` |
| `GrantIsTimed` | `GrantHasTimer` |
| `DecisionAppliedOnce` | `AppliedOnce` |
| `ApprovalsArePermits` | `ImplementsPermit`: `ActionApproval` refines `Permit` |
| `CopiesConverge` | `Converged` |
| `TakeoversKeepText` | `TakeoverKeepsAgentText` |
| `OpenShadowsStay` | `OpenShadowKept` |
| `ShadowsAreMarked` | `StaleMarked` |
| `CommitsAreAwaited` | `CommittingHasCommit` |
| `WorkSurvivesCrash` | `CrashKeepsWork` |
| `MapsAreClean` | `NothingLeftBehind` |
| `CellsAreContained` | `Contained` |
| `ReceiptsHold` | `ReceiptsAreTrue` |
| `AnswersAreBuffered` | `AnswerBuffered` |
| `LeasesAreLive` | `LeaseIsLive` |
| `RelayImplementsService` | `ImplementsService`: `AgentHub` refines `CommitService` |

The arguments:

* *CellLifecycle.* Types alone are not inductive, since a handler edits the
  record without asking whether there is one. `CallsInv` says that a call in
  progress has its cell and that what it read is of the right type; only
  `Restart` can take a record away, and it ends every call. With that,
  `ReleasedHasReceipt` is inductive. `AttestInv` strengthens the attestation to
  the record, its checkpoint (a restart brings it back) and every receipt on its
  way: an arm post names an enforced profile because `AgentArm` armed before it
  posted, `MarkArmedFinish` compares the profile again, observing a pod drops
  the node, and a policy change clears the flag. `FirstPodIsGated` takes its
  namespace as an assumption of the theorem, since the code has two and the
  property is false for both together. `QuietInv` says that as long as no kernel
  was armed nothing says that one was: no record, no checkpoint, no pod, nothing
  a call in progress carries, no receipt. `LastPod` says that the pod that exists
  is the last one created; with one namespace there is no other, so the first pod
  can only exist while nothing but that pod was ever armed.
* *SecretGrant.* `Exclusive` and `Owned` say that a call in progress holds its
  request in `consuming` alone. `UsedUp` adds the checkpoint: what was released
  is `consumed` in memory and on disk, so a restart cannot bring it back.
  `SavedInv` guards it by the history variable, so that no assumption on the
  constants is needed. `GrantsAreVouchers` needs only that a call's request is in
  `consuming`: every step then changes one voucher as `Voucher` allows, writes
  the table, or leaves the mapped variables alone (`ConsumingNotShown`).
* *KernelTelemetry.* `QueueInv` bounds the batch in flight, which is what a
  put-back adds. `CursorInv` says that the cursor in memory is the durable one
  and the batch at hand is newer, so that the entries of acknowledged batches
  are never written again. `RecordedOnce` needs more, because an event may be
  sent again at another position and in another batch. `OnceInv` follows what
  the agent holds, the batch in flight and the queue behind it: a flush and a
  failed one keep its order, an eviction only moves events forward. Hence an
  event that is recorded and still held came from an earlier attempt of the next
  batch, at its position now or a later one, so that every position up to its
  own is taken and the identifier `cell:batch:index` finds the next copy a
  duplicate. The same is said of the late attempts (`Attempts`, `Overlaps`), of
  the batch being ingested (`Taken`) and of the waiting ones (`Waiting`), and of
  the checkpoint, which a restart brings back. `TelemetryIsLog` reads the
  same invariant: `Write` asks that the event and its place be new to a log whose
  last closed batch is older, `Close` that all of the log is on disk
  (`DurableAlways`), `Drain` that the node's last word names the cursor
  (`DrainInv`).
* *ActionApproval.* `ApprovalsAreReal` follows an approval from the store
  through checkpoint and answer to the node. `DeliveredInv` says that what was
  handed out is marked delivered in the checkpoint too. For `ApprovalsArePermits`
  `AnswersInv` adds that an answer on its way still says what the store says, as
  no decision is changed once it is taken, and that a request the store has never
  seen is not in its checkpoint either.
* *Workspace.* The checkpoint is often behind, so each of these has to survive a
  restart that loads it. `WorkInv` says that until a worktree write fails the
  documents are the file entries, in memory and in the checkpoint, however old
  that is (`Aligned`), that the worktree has every file that is not empty
  (`Matches`), and that the checkpoint differs from memory in its reviews and in
  the note of degraded evidence only (`SameWork`), unless the last one failed
  (`unsaved`); after a failed write memory and checkpoint are still well
  formed. `ShadowsOk` says of both that shadows are made in order and
  that an open one names a path and has BASE for its base, unless it is stale or
  the sidecar gave the base; `CommitSucceeds` is where BASE changes, and it
  compares with the texts that become BASE. `CommitsKept` says of each action why
  no review is left `committing` without a commit: it regenerates the reviews,
  adds no such review, or asks the pod. Each action is shown to keep all this
  (`...Good`), by lemmas about the operators that change a record (`...Keeps`).
  `CrashKeepsWork` is `SameWork` itself: `Spec` needs the whole invariant to show
  that no handler stops between a change of a text, a shadow or BASE and its
  checkpoint, and that each checkpoint that succeeds has all that the failed ones
  before it did not save. The two action properties follow from the same
  invariant: a takeover adds its shadow before it writes the buffer, a new shadow
  has a number of its own, and a restart brings back the same shadows, unless it
  is `Unlucky`.
* *NodeEnforcement.* `NodeEnforcementTypes` gives the types and the shape of an
  operation (which of its fields are set at which step). The invariant then says
  who owns each entry of the shared maps: `KeysOwned` and `PodsApart` keep the
  keys of two cells apart, because a cgroup belongs to one pod and no pod is ever
  claimed for two cells; `NetInv`, `FileInv`, `ScopeInv` and `GateInv` split each
  map by owner (a loaded cell, the attempt under way, the record being retired),
  so that deleting one owner's entries leaves the others'. `NothingLeftBehind` is
  that invariant with no operation under way; `Contained` reads it at any step.
  `ReceiptsHold` needs to know what was reported, which may be a listing that no
  record has any more: `ArmedInv` says that a fingerprint names cgroups of its
  own pod and that this pod is claimed for no other cell, so that what the other
  cells own is not for a cgroup of the cell that is gone. An arm receipt is true
  because the record it reports is the loaded one.
* *AgentHub.* `LeaseInv` follows a reader past the removal of its session.
  `PendingInv` says that a call that is in the map of pending calls has not been
  answered: the three goroutines that may answer it take it out of the map under
  `h.commitMu` first. `RequestInv` and `MessageInv` follow a request from call to
  outbox, job, branch, result and answer: each of these has it at most once, and
  whatever carries a receipt carries one that the branch bears out. `Service`
  steps are matched action by action.

Model-checked only: liveness (`OrphanCollected`, `ResumedUnlessDisturbed`,
`Converges`, `CommitsAnswered`, `LeaseFreed`, `PresenceRecovers`), which is out
of the prover's reach. Every safety property and every refinement that a passing
run checks is proved.

## 6. Where the code and what is said of it disagree

Three runs end in a counterexample.

* `telemetry_loss`, `NoSilentLoss`: a batch times out, is put back and sent
  again under the same number with newer events behind it. If the late first
  request is ingested, the second is acknowledged as a replay without a look at
  its events, and those are lost without a drop count; `api.go:136` says that a
  replay advances the agent without duplicating the stream.
* `workspace_adopt`, `AdoptionKeepsLiveText`: `AdoptShadow` preserves the text
  the buffer had when the shadow was made (`store.go:482`), not the text it has
  now. What a human typed in between is overwritten and kept nowhere, against
  the comment at `store.go:478`.
* `node_rearm`, `PassEnforces`: the agent records a cell's fingerprint after its
  receipt. If the policy is changed and changed back while the first change is
  being armed, the receipt is refused, the next listing has the fingerprint that
  was recorded last, and the agent only refreshes rules (`agent.go:64`): the
  kernel keeps the other policy, against `agent.go:34`. The same happens to a
  running pod that discovery skips once (`discovery.go:48`): it is disarmed, its
  drain receipt is refused because the cell does not drain, and the fingerprint
  that stays prevents it from being armed again.

## 7. Observations without a run

These came up while modelling. TLC confirms each as a counterexample to the
property in italics or as a reachable state; the definitions are not kept, to
keep the set of runs small.

Lifecycle:

* *Every pod gated.* The armed flag of the record is sticky
  (`store.go:2728`), so the armgate of a replacement pod opens at once, before
  the kernel was armed for that pod. `FirstPodGated` is what remains.
* *At most one pod.* After a policy change to another class, Rearm has relabelled
  the pod in its old namespace, Ensure looks only into the new one
  (`runtime.go:285`) and creates a second pod, against `runtime_test.go:101`
  and the comment at `store.go:2537`.
* *A draining cell drains.* Observing the dying pod (`applyPodLocked`,
  `store.go:2723`) takes a draining cell back to arming, ready or another
  status; the node's drain receipt is then refused.
* *Destroy waits for a node that enforces.* `Destroy` asks the record whether the
  cell is armed (`store.go:334`). When a node has armed it and its receipt is not
  in yet, Destroy finalizes the cell at once as `local-runtime`, while the kernel
  programs run; the node's last events and its drain receipt come too late.
* *Terminated stays terminated.* `applyPolicy` writes back the status it read
  before it gave up the lock (`store.go:2574`, `2587`, `2603`).
* *An armed pod was enforced.* `FinalizePolicy` (`runtime.go:419`) compares the
  profile of whatever pod there is, so a late receipt promotes the successor of
  the pod it was for.
* *A terminated cell has no secrets.* A pod that ends makes the cell terminated
  without the cleanup, and `PutSecret` accepts a terminated cell.
* *A drain ends.* A node agent that restarts while a cell drains has forgotten
  that it armed it and never posts the receipt (`agent.go:84`); no timeout
  finishes the drain.

Secrets, telemetry, approvals:

* *Single use.* `ConsumeSecretGrant` returns the value though the checkpoint of
  `consumed` failed (`appendEventLocked` only notes it). After a restart the
  first token buys the value a second time, against `secret_grant_test.go:29`.
  `SingleUseWhileSaved` is what remains.
* *No request is stuck.* Another operation checkpoints a request in `consuming`
  (`store.go:1730`); after a crash no call owns it, and it can be neither consumed
  nor taken back. `ConsumingIsOwned` excuses requests after a restart.
* *Receipt after the final flush.* `FinalizeDisarm` flushes one batch of at most
  512 events (`delivery.go:192`) and posts the receipt, whatever is left.
* *One action per approval.* The gate lets every action through until the
  asynchronous reader has seen the first (`mercutio.hzn:291`, `events.go:182`).
* *A stopped process is resumed.* A decision is marked delivered before its
  answer is written (`store.go:2412`). If the answer is lost, nobody resumes the
  process, against `store.go:2389`.

Workspace:

* *A crash costs decisions at most.* A checkpoint that fails is passed over
  (`store.go:2767-2772`, `1150`, `641`): the handler answers with success, and a
  crash before the next checkpoint drops the edit, the shadow or BASE, although
  `store.go:1156` calls the edit "durably published" and the comment on takeovers
  (`store.go:1109`) says that the agent's state is preserved. `CrashKeepsWork`,
  `OpenShadowKept` and `TakeoverKeepsAgentText` name this exception (`unsaved`,
  `Unlucky`), and TLC refutes each of them without it.
* A commit that is asked for in the 150 ms before `RefreshReviews` sees no
  review of the files just spliced, and commits them unreviewed.
* `CommitSucceeds` makes the buffers of that moment BASE (`store.go:2016`), with
  the edits that were made while the pod committed; their reviews vanish. A
  second commit can start while the first is under way.
* `AcknowledgeReview` releases a review that an open shadow blocks; the review
  of a shadow shares the ID of its path's review, so the wrong one may be found.
  Collection of an aged shadow leaves its path's review blocked.
* A failed worktree write of a takeover leaves the document with the old text
  and the file entry with the agent's (`store.go:1247`).
* `ApplyDiskDelete` leaves the store's own worktree copy. `AgentEditShadowed`
  on a new path enters an empty file that is not written. The shadow of a file
  the disk created cannot be adopted, as the path has no document.
* Adoption, undo or merge in the time of an agent's lease is itself undone when
  a human's cursor enters the file: `before` is still the old text.

Node enforcement:

* A cell that was armed but whose receipt was refused or lost is not in
  `Agent.armed`: when its pod goes, nothing disarms it, and its entries stay
  until the agent restarts.
* A rollback within one class deletes the scopes of the running containers
  before it restores them (`loader.go:402-423`), and ignores the errors of
  restoring: a window without any gate, against the comment at
  `loader.go:379-381`. `Contained` names this exception.
* The programs go with the agent's process (`loader.go:454`): running cells are
  not gated from an agent's end until its successor has armed them.
* A cell that is loaded as listed is not compared with its policy's egress
  (`loader.go:144-156`), so a name that resolves differently later is not
  refreshed.

Agent hub:

* *One session per cell.* `agent:attach` checks the lease under a read lock and
  registers under another (`hub.go:139`): two sidecars that attach together both
  get a session, the later one the lease.
* *The cell of a connected sidecar is shown as attached.* `leave` looks at the
  agent ID only, which a sidecar and its successor share: it marks the cell as
  detached while the other is attached, until the next heartbeat.
  `PresenceRecovers` is what remains.
* *A destroyed cell has no lease.* An attach that is between its check and its
  registration registers after `DisconnectCell` has removed what there was,
  against the comment at `hub.go:700`. `DisconnectCell` removes the session
  without `store.Detach`, and `leave` then skips it, so the record says attached
  until the termination is finalised.
* A call that is registered after its client left waits for the whole deadline:
  nobody is there to fail it.
* A commit may succeed after the hub gave up on it or while the sidecar rotates:
  the branch has it, the review stays pending, and a second approval commits
  again. Two commits that overlap may both be answered with the later HEAD, and
  success marks every review that is committing as approved.
* A sidecar that rotates may be refused because the hub has not seen its old
  connection end; the refused one goes on reading from its agent without a hub.

## 8. Not modelled

Each is listed as a component in `PROJECT.json` with the reason. Data and
translation (policy compiler, review entities, highlighting, secret patterns,
pages, generated bindings, Helm) have no state to interleave. The in-memory
runtime is for local work. Cryptography is taken as unforgeable.

Inside the modelled parts: `AgentHub` leaves out the relay of terminal output,
edits and turns (`Workspace` has their effect), the adapters that translate an
agent's protocol, and the reconciliation of the pod's disk. `Workspace` leaves
out failed appends to the evidence ledger (`store.go:2970`; the evidence is
degraded by failed checkpoints only), the checkpoints of other cells' handlers
(`RecordEvent` stands for them), the order of characters (the CRDT library's
business), the history of reversible operations beyond the existence of one, the
redacted text of secret shadows, secret findings on reviews, and termination. `NodeEnforcement` leaves out exec rules,
interpreter and toolchain grants and identities, which belong to a class and not
to a cell, the walk over the files of a pod, and the ask path, which is
`ActionApproval`.

Where a definition is simpler than the code:

* `NodeEnforcement!StartCgroup`: the cgroups of a live pod only grow. That of a
  container which ends while its pod lives (the armgate's init container) stays,
  as do its entries.
* `NodeEnforcement!ResolveNetKeys`: the destinations are resolved once for all
  cgroups; the code resolves for each cgroup and destination (`loader.go:230`),
  so that two cgroups of one pod may get different addresses of one name.
* `NodeEnforcement!DisarmEntries`: the links of a cell count as set until
  `DisarmScopes`, and deletes whose errors the code ignores succeed.
* `CellLifecycle!PostFails`: a `FinalizePolicy` that has updated the pod and then
  fails (`runtime.go:441`) is not a step; a restart between `FinalizePolicy` and
  `MarkArmedFinish` leaves the same state.
* `AgentHub!ReportJob`: only the sidecar's goroutine sends a commit's result, and
  a client attaches once. `attach.go:209-236` forwards any event the agent writes
  under the name it has, so an agent could write either message as well; the
  promises of `CommitService` are those of a sidecar whose agent does not.
* `Workspace!MergeShadow`: a clean merge returns any text; which one is the
  business of `merge.go`.

## 9. Plan

Done: `CellLifecycle`, `SecretGrant`, `KernelTelemetry`, `ActionApproval`,
`Workspace`, `NodeEnforcement`, `AgentHub`, in the order of what the system
promises its operator, and their theorems. What is left, in the same order:

1. `WorktreeSync`: the sidecar's disk reconciler (`attach_reconcile.go`) against
   `ApplyDiskEdit` and `ApplyDiskDelete`; an edit of either side is never
   dropped without a shadow.
2. `EvidenceLog`: append, failed sync, reopening; the chain always reopens.
   Abstract specification: an append-only sequence, with the file as refinement.
3. Abstract specifications: `NodeEnforcement` implements the atomic arming of
   `CellLifecycle`; `CellLifecycle` implements a custody that ends with a
   receipt. (Done: `Voucher`, `EventLog`, `Permit`, `CommitService`.)
4. `GateVerdict` (the exec verdicts of `mercutio.hzn`), `Divergence`,
   `OperatorAuth`.

The number of runs is kept at twelve: a new part joins the run of the module it
extends, or replaces a run that a theorem has made superfluous, as `agent_hub`
did with a run that checked `ReleasedHasReceipt` for more callers.
