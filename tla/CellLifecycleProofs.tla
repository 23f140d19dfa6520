------------------------ MODULE CellLifecycleProofs ------------------------
(***************************************************************************)
(* Theorems about CellLifecycle, for any nodes, profiles, namespaces,      *)
(* callers and bounds, with and without failing checkpoints.               *)
(***************************************************************************)
EXTENDS CellLifecycle, TLAPS

-----------------------------------------------------------------------------
(* Types.  A call in progress has its cell, and knows what it read.        *)

CallsInv ==
    /\ making.pc # "idle" => Exists /\ making.profile \in Profiles
    /\ making.pc = "apply" => making.pod \in Pod
    /\ destroying # "idle" => Exists
    /\ recon.pc \in {"observe", "ensure", "apply"} =>
          Exists /\ recon.profile \in Profiles
    /\ recon.pc = "apply" => recon.pod \in Pod
    /\ rearm.pc # "idle" => /\ Exists
                            /\ rearm.profile \in Profiles
                            /\ rearm.previous \in Statuses
    /\ commit # "idle" => Exists

TypeInv == TypeOK /\ CallsInv

\* A saved record is a record, in memory and in the checkpoint.
LEMMA SaveCellType ==
    ASSUME NEW c \in Cell, disk \in Cell \cup {NoCell},
           SaveCell(c) \/ SaveCellTwice(c)
    PROVE  /\ cell' \in Cell /\ cell' # NoCell
           /\ disk' \in Cell \cup {NoCell}
<1>1. [c EXCEPT !.status = "failed"] \in Cell
  BY DEF Cell, Statuses
<1> QED BY <1>1, NoCellAssumption DEF SaveCell, SaveCellTwice

\* What applyPodLocked makes of a record is a record without a node.
LEMMA ApplyPodType ==
    ASSUME NEW c \in Cell, NEW p \in Pod
    PROVE  /\ ApplyPod(c, p) \in Cell
           /\ ApplyPod(c, p).node = NoNode
           /\ ApplyPod(c, p).profile = c.profile
<1> DEFINE isArmed == c.armed \/ p.armed
           status == CASE p.phase = "pending" -> "arming"
                       [] p.phase = "stopped" -> "terminated"
                       [] p.phase = "failed" -> "failed"
                       [] p.phase = "running" /\ ~isArmed -> "arming"
                       [] p.phase = "running" /\ isArmed ->
                            IF c.status \in Busy THEN c.status ELSE "ready"
<1>1. p.phase \in {"pending", "running", "stopped", "failed"}
  BY DEF Pod, Phases
<1>2. c.status \in Statuses
  BY DEF Cell
<1>3. status \in Statuses
  BY <1>1, <1>2 DEF Statuses, Busy
<1>4. isArmed \in BOOLEAN
  BY DEF Cell, Pod
<1>5. ApplyPod(c, p) = [c EXCEPT !.phase = p.phase, !.armed = isArmed,
                                 !.node = NoNode, !.status = status]
  BY DEF ApplyPod, Cell
<1> HIDE DEF isArmed, status
<1> QED BY <1>1, <1>3, <1>4, <1>5 DEF Cell, Phases

\* The pod of Ensure is a pod, and so are the pods that it leaves.
LEMMA EnsureType ==
    ASSUME TypeOK, NEW profile \in Profiles, NEW p \in EnsureResults(profile),
           Ensure(profile, p)
    PROVE  /\ p \in Pod
           /\ pods' \in [Namespaces -> Pod \cup {NoPod}]
           /\ created' \in Nat
<1>1. NamespaceOf[profile] \in Namespaces
  BY LifecycleAssumption
<1>2. \A n \in Nodes : NewPod(profile, n) \in Pod
  BY DEF NewPod, Pod, Phases, TypeOK
<1>3. p \in Pod
  BY <1>1, <1>2 DEF EnsureResults, TypeOK
<1> QED BY <1>1, <1>3 DEF Ensure, cluster, TypeOK

\* Delete only marks pods.
LEMMA DeleteType ==
    ASSUME TypeOK, Delete
    PROVE  pods' \in [Namespaces -> Pod \cup {NoPod}] /\ created' \in Nat
<1>1. \A q \in Pod : [q EXCEPT !.deleting = TRUE] \in Pod
  BY DEF Pod
<1> QED BY <1>1 DEF Delete, TypeOK

\* The end of a cell, as far as it gets.
LEMMA FinalizeType ==
    ASSUME TypeOK, Exists,
           ReceiptFails \/ SecretCleanupFails \/ FinalizeTermination
    PROVE  /\ cell' \in Cell /\ cell' # NoCell
           /\ disk' \in Cell \cup {NoCell}
           /\ live' \in BOOLEAN /\ receipt' \in BOOLEAN /\ secrets' \in BOOLEAN
<1>1. cell \in Cell
  BY DEF TypeOK, Exists
<1>2. CASE ReceiptFails
  BY <1>1, <1>2 DEF ReceiptFails, store, ledger, TypeOK, Exists
<1>3. CASE SecretCleanupFails
  <2>1. [cell EXCEPT !.status = "failed"] \in Cell
    BY <1>1 DEF Cell, Statuses
  <2> QED BY <1>3, <2>1, NoCellAssumption DEF SecretCleanupFails, TypeOK
<1>4. CASE FinalizeTermination
  <2> DEFINE c == [cell EXCEPT !.status = "terminated", !.phase = "stopped",
                               !.node = NoNode, !.armed = FALSE,
                               !.connected = FALSE]
  <2>1. c \in Cell
    BY <1>1 DEF Cell, Statuses, Phases
  <2>2. SaveCellTwice(c)
    BY <1>4 DEF FinalizeTermination
  <2> HIDE DEF c
  <2>3. /\ cell' \in Cell /\ cell' # NoCell /\ disk' \in Cell \cup {NoCell}
    BY <2>1, <2>2, SaveCellType DEF TypeOK
  <2> QED BY <1>4, <2>3 DEF FinalizeTermination
<1> QED BY <1>2, <1>3, <1>4

\* Types, one lemma for each group of actions: Create,
LEMMA CreateTypes == TypeInv /\ CreateStep => TypeInv'
<1> SUFFICES ASSUME TypeInv, CreateStep
             PROVE  TypeInv'
  OBVIOUS
<1> USE DEF TypeInv, CallsInv
<1>1. ASSUME NEW profile \in Profiles, Create(profile)
      PROVE  TypeInv'
  <2>1. cell' \in Cell /\ cell' # NoCell
    <3>1. cell' = [status |-> "provisioning", phase |-> "pending",
                   armed |-> FALSE, node |-> NoNode, profile |-> profile,
                   connected |-> FALSE]
      BY <1>1 DEF Create
    <3>2. cell' \in Cell
      BY <3>1 DEF Cell, Statuses, Phases
    <3> QED BY <3>2, NoCellAssumption
  <2>2. disk' \in Cell \cup {NoCell}
    BY <1>1, <2>1 DEF Create, TypeOK
  <2>3. /\ making' \in MakeCall /\ making'.pc = "ensure"
        /\ making'.profile \in Profiles
    BY <1>1 DEF Create, TypeOK, MakeCall
  <2> QED BY <1>1, <2>1, <2>2, <2>3
          DEF Create, TypeOK, ledger, cluster, node, counters, Exists
<1>2. CASE CreateEnsure
  <2> PICK p \in EnsureResults(making.profile) :
          /\ Ensure(making.profile, p)
          /\ making' = [making EXCEPT !.pc = "apply", !.pod = p]
    BY <1>2 DEF CreateEnsure
  <2>1. making.pc = "ensure" /\ making.profile \in Profiles
    BY <1>2 DEF CreateEnsure
  <2>2. /\ p \in Pod /\ created' \in Nat
        /\ pods' \in [Namespaces -> Pod \cup {NoPod}]
    BY <2>1, EnsureType
  <2>3. /\ making' \in MakeCall /\ making'.pod \in Pod
        /\ making'.profile \in Profiles
    BY <2>1, <2>2 DEF TypeOK, MakeCall
  <2> QED BY <1>2, <2>1, <2>2, <2>3
          DEF CreateEnsure, TypeOK, store, ledger, node, counters, Exists
<1>3. CASE CreateFails
  <2> DEFINE c == [cell EXCEPT !.status = "failed", !.phase = "failed",
                               !.armed = FALSE, !.node = NoNode]
  <2>1. c \in Cell
    BY <1>3 DEF CreateFails, TypeOK, Exists, Cell, Statuses, Phases
  <2>2. cell' \in Cell /\ cell' # NoCell /\ disk' \in Cell \cup {NoCell}
    BY <1>3, <2>1, SaveCellType DEF CreateFails, TypeOK
  <2>3. making' \in MakeCall /\ making'.pc = "idle"
    BY <1>3 DEF CreateFails, NotMaking, MakeCall
  <2> QED BY <1>3, <2>2, <2>3
          DEF CreateFails, TypeOK, ledger, cluster, node, counters, Exists
<1>4. CASE CreateApply
  <2>1. ApplyPod(cell, making.pod) \in Cell
    BY <1>4, ApplyPodType DEF CreateApply, TypeOK, Exists
  <2>2. cell' \in Cell /\ cell' # NoCell /\ disk' \in Cell \cup {NoCell}
    BY <1>4, <2>1, SaveCellType DEF CreateApply, TypeOK
  <2>3. making' \in MakeCall /\ making'.pc = "idle"
    BY <1>4 DEF CreateApply, NotMaking, MakeCall
  <2> QED BY <1>4, <2>2, <2>3
          DEF CreateApply, TypeOK, ledger, cluster, node, counters, Exists
<1> QED BY <1>1, <1>2, <1>3, <1>4 DEF CreateStep

\* Destroy and finalizeTerminationLocked,
LEMMA DestroyTypes == TypeInv /\ DestroyStep => TypeInv'
<1> SUFFICES ASSUME TypeInv, DestroyStep
             PROVE  TypeInv'
  OBVIOUS
<1> USE DEF TypeInv, CallsInv
<1>1. CASE Destroy
  <2> DEFINE c == [cell EXCEPT !.status = "draining"]
  <2>1. c \in Cell
    BY <1>1 DEF Destroy, Known, TypeOK, Exists, Cell, Statuses
  <2>2. cell' \in Cell /\ cell' # NoCell /\ disk' \in Cell \cup {NoCell}
    BY <1>1, <2>1, SaveCellType DEF Destroy, TypeOK
  <2> QED BY <1>1, <2>2
          DEF Destroy, TypeOK, ledger, cluster, node, counters, Exists
<1>2. CASE DestroyDelete
  <2>1. pods' \in [Namespaces -> Pod \cup {NoPod}] /\ created' \in Nat
    BY <1>2, DeleteType DEF DestroyDelete
  <2> QED BY <1>2, <2>1
          DEF DestroyDelete, TypeOK, store, ledger, node, counters, Exists
<1>3. CASE DestroyDeleteFails
  <2> DEFINE c == [cell EXCEPT !.status = "failed", !.phase = "failed"]
  <2>1. c \in Cell
    BY <1>3 DEF DestroyDeleteFails, TypeOK, Exists, Cell, Statuses, Phases
  <2>2. cell' \in Cell /\ cell' # NoCell /\ disk' \in Cell \cup {NoCell}
    BY <1>3, <2>1, SaveCellType DEF DestroyDeleteFails, TypeOK
  <2> QED BY <1>3, <2>2
          DEF DestroyDeleteFails, TypeOK, ledger, cluster, node, counters,
              Exists
<1>4. CASE DestroyFinish
  <2>1. Exists
    BY <1>4 DEF DestroyFinish
  <2>2. /\ cell' \in Cell /\ cell' # NoCell /\ disk' \in Cell \cup {NoCell}
        /\ live' \in BOOLEAN /\ receipt' \in BOOLEAN /\ secrets' \in BOOLEAN
    BY <1>4, <2>1, FinalizeType DEF DestroyFinish, ReceiptFails
  <2> QED BY <1>4, <2>1, <2>2
          DEF DestroyFinish, TypeOK, cluster, node, counters, Exists
<1> QED BY <1>1, <1>2, <1>3, <1>4 DEF DestroyStep

\* The reconciler is idle, or cleans or sweeps, and reads no cell.
LEMMA NoReconType ==
    /\ NoRecon \in ReconCall /\ NoRecon.pc = "idle"
    /\ \A pc \in {"clean", "sweep"} :
          LET call == [NoRecon EXCEPT !.pc = pc]
          IN  call \in ReconCall /\ call.pc = pc
BY DEF NoRecon, ReconCall

\* The reconciler has read a record.
LEMMA ReadSpecType ==
    ASSUME cell \in Cell, live \in BOOLEAN, NEW pc \in {"observe", "ensure"},
           NEW restore \in BOOLEAN
    PROVE  /\ ReadSpec(pc, restore) \in ReconCall
           /\ ReadSpec(pc, restore).pc = pc
           /\ ReadSpec(pc, restore).profile \in Profiles
BY DEF ReadSpec, ReconCall, Cell

\* Reconcile and restoreMissingSandbox,
LEMMA ReconcileTypes ==
    TypeInv /\ (Reconcile \/ ReconcileStep) => TypeInv'
<1> SUFFICES ASSUME TypeInv, Reconcile \/ ReconcileStep
             PROVE  TypeInv'
  OBVIOUS
<1> USE DEF TypeInv, CallsInv
<1>1. CASE Reconcile
  <2>1. Exists /\ cell \in Cell
    BY <1>1 DEF Reconcile, Exists, TypeOK
  <2>2. /\ recon' \in ReconCall /\ recon'.pc = "observe"
        /\ recon'.profile \in Profiles
    BY <1>1, <2>1, ReadSpecType DEF Reconcile, TypeOK
  <2> QED BY <1>1, <2>1, <2>2
          DEF Reconcile, TypeOK, store, ledger, cluster, node, counters, Exists
<1>2. CASE ReconcileObserve
  <2>1. \/ recon' = [recon EXCEPT !.pc = "ensure"]
        \/ recon' = NoRecon
        \/ recon' = ReadSpec("ensure", TRUE)
    BY <1>2 DEF ReconcileObserve
  <2>2. Exists /\ cell \in Cell
    BY <1>2 DEF ReconcileObserve, Exists, TypeOK
  <2>3. recon \in ReconCall /\ recon.pc = "observe" /\ recon.profile \in Profiles
    BY <1>2 DEF ReconcileObserve, TypeOK
  <2>4. CASE recon' = [recon EXCEPT !.pc = "ensure"]
    <3>1. recon' \in ReconCall /\ recon'.pc = "ensure" /\ recon'.profile \in Profiles
      BY <2>3, <2>4 DEF ReconCall
    <3> QED BY <1>2, <2>2, <3>1
            DEF ReconcileObserve, TypeOK, store, ledger, cluster, node,
                counters, Exists
  <2>5. CASE recon' = NoRecon
    <3>1. recon' \in ReconCall /\ recon'.pc = "idle"
      BY <2>5, NoReconType
    <3> QED BY <1>2, <2>2, <3>1
            DEF ReconcileObserve, TypeOK, store, ledger, cluster, node,
                counters, Exists
  <2>6. CASE recon' = ReadSpec("ensure", TRUE)
    <3>1. recon' \in ReconCall /\ recon'.pc = "ensure" /\ recon'.profile \in Profiles
      BY <2>2, <2>6, ReadSpecType DEF TypeOK
    <3> QED BY <1>2, <2>2, <3>1
            DEF ReconcileObserve, TypeOK, store, ledger, cluster, node,
                counters, Exists
  <2> QED BY <2>1, <2>4, <2>5, <2>6
<1>3. CASE ReconcileEnsure
  <2> PICK p \in EnsureResults(recon.profile) :
          /\ Ensure(recon.profile, p)
          /\ recon' = [recon EXCEPT !.pc = "apply", !.pod = p]
    BY <1>3 DEF ReconcileEnsure
  <2>1. /\ recon \in ReconCall /\ recon.pc = "ensure"
        /\ recon.profile \in Profiles /\ Exists
    BY <1>3 DEF ReconcileEnsure, TypeOK
  <2>2. /\ p \in Pod /\ created' \in Nat
        /\ pods' \in [Namespaces -> Pod \cup {NoPod}]
    BY <2>1, EnsureType
  <2>3. /\ recon' \in ReconCall /\ recon'.profile \in Profiles
        /\ recon'.pod \in Pod
    BY <2>1, <2>2 DEF ReconCall
  <2> QED BY <1>3, <2>1, <2>2, <2>3
          DEF ReconcileEnsure, TypeOK, store, ledger, node, counters, Exists
<1>4. CASE ReconcileEnsureFails
  <2>1. recon' \in ReconCall /\ recon'.pc = "idle"
    BY <1>4, NoReconType DEF ReconcileEnsureFails
  <2> QED BY <1>4, <2>1
          DEF ReconcileEnsureFails, TypeOK, store, ledger, cluster, node,
              counters, Exists
<1>5. CASE ReconcileApply
  <2>1. Exists /\ cell \in Cell
    BY <1>5 DEF ReconcileApply, Exists, TypeOK
  <2>2. ApplyPod(cell, recon.pod) \in Cell
    BY <1>5, <2>1, ApplyPodType DEF ReconcileApply
  <2>3. SaveCell(ApplyPod(cell, recon.pod)) \/ UNCHANGED <<cell, disk>>
    BY <1>5 DEF ReconcileApply, store
  <2>4. cell' \in Cell /\ cell' # NoCell /\ disk' \in Cell \cup {NoCell}
    BY <2>1, <2>2, <2>3, SaveCellType DEF TypeOK, Exists
  <2>5. recon' \in {NoRecon, [NoRecon EXCEPT !.pc = "clean"]}
    BY <1>5 DEF ReconcileApply
  <2>6. recon' \in ReconCall /\ recon'.pc \in {"idle", "clean"}
    BY <2>5, NoReconType
  <2>7. live' = live
    BY <1>5 DEF ReconcileApply, store
  <2> QED BY <1>5, <2>1, <2>4, <2>6, <2>7
          DEF ReconcileApply, TypeOK, ledger, cluster, node, counters, Exists
<1>6. CASE ReconcileClean
  <2>1. pods' \in [Namespaces -> Pod \cup {NoPod}] /\ created' \in Nat
    BY <1>6, DeleteType DEF ReconcileClean, cluster, TypeOK
  <2>2. recon' \in ReconCall /\ recon'.pc = "idle"
    BY <1>6, NoReconType DEF ReconcileClean
  <2> QED BY <1>6, <2>1, <2>2
          DEF ReconcileClean, TypeOK, store, ledger, node, counters, Exists
<1> QED BY <1>1, <1>2, <1>3, <1>4, <1>5, <1>6 DEF ReconcileStep

\* GarbageCollect,
LEMMA CollectTypes ==
    /\ TypeInv
    /\ GarbageCollect \/ GarbageCollectDelete \/ GarbageCollectFails
    => TypeInv'
<1> SUFFICES ASSUME TypeInv,
                    GarbageCollect \/ GarbageCollectDelete \/ GarbageCollectFails
             PROVE  TypeInv'
  OBVIOUS
<1> USE DEF TypeInv, CallsInv
<1>1. recon' \in ReconCall /\ recon'.pc \in {"idle", "sweep"}
  BY NoReconType DEF GarbageCollect, GarbageCollectDelete, GarbageCollectFails
<1>2. CASE GarbageCollect \/ GarbageCollectFails
  BY <1>1, <1>2
     DEF GarbageCollect, GarbageCollectFails, TypeOK, store, ledger, cluster,
         node, counters, Exists
<1>3. CASE GarbageCollectDelete
  <2>1. pods' \in [Namespaces -> Pod \cup {NoPod}] /\ created' \in Nat
    BY <1>3, DeleteType DEF GarbageCollectDelete
  <2> QED BY <1>1, <1>3, <2>1
          DEF GarbageCollectDelete, TypeOK, store, ledger, node, counters,
              Exists
<1> QED BY <1>2, <1>3

\* the node's arming and its receipts,
LEMMA NodeTypes ==
    ASSUME NEW n \in Nodes
    PROVE  TypeInv /\ NodeStep(n) => TypeInv'
<1> SUFFICES ASSUME TypeInv, NodeStep(n)
             PROVE  TypeInv'
  OBVIOUS
<1> USE DEF TypeInv, CallsInv
<1>0. IdlePost \in NodePost
  BY DEF IdlePost, NodePost
<1>1. CASE AgentArm(n)
  <2> PICK q \in NodeCells(n) :
          /\ kernel' = [kernel EXCEPT ![n] = Fingerprint(q)]
          /\ everArmed' = everArmed \cup {Fingerprint(q)}
          /\ post' = [post EXCEPT ![n] = [pc |-> "armed", profile |-> q.profile]]
    BY <1>1 DEF AgentArm
  <2>1. q \in Pod
    BY DEF NodeCells, Live, TypeOK
  <2>2. Fingerprint(q) \in Enforcement
    BY <2>1 DEF Fingerprint, Pod, Enforcement
  <2>3. [pc |-> "armed", profile |-> q.profile] \in NodePost
    BY <2>1 DEF Pod, NodePost
  <2> QED BY <1>1, <2>2, <2>3
          DEF AgentArm, TypeOK, store, ledger, cluster, calls, counters, Exists
<1>2. CASE AgentDisarm(n)
  <2>1. [pc |-> "disarmed", profile |-> NoProfile] \in NodePost
    BY DEF NodePost
  <2> QED BY <1>2, <2>1
          DEF AgentDisarm, TypeOK, store, ledger, cluster, calls, counters,
              Exists
<1>3. CASE PostFails(n)
  BY <1>0, <1>3 DEF PostFails, TypeOK, store, ledger, cluster, calls, counters,
                    Exists
<1>4. CASE MarkArmed(n)
  <2>1. [post[n] EXCEPT !.pc = "finalize"] \in NodePost
    BY DEF TypeOK, NodePost
  <2>2. post' \in [Nodes -> NodePost]
    BY <1>4, <2>1 DEF MarkArmed, TypeOK
  <2> QED BY <1>4, <2>2
          DEF MarkArmed, TypeOK, store, ledger, cluster, calls, counters, Exists
<1>5. CASE FinalizePolicy(n)
  <2> PICK ns \in Namespaces :
          /\ CellPodAt(ns)
          /\ pods' = [pods EXCEPT ![ns].armed = TRUE]
    BY <1>5 DEF FinalizePolicy
  <2>1. pods[ns] \in Pod
    BY DEF CellPodAt, Occupied, TypeOK
  <2>2. [pods[ns] EXCEPT !.armed = TRUE] \in Pod
    BY <2>1 DEF Pod
  <2>3. pods' \in [Namespaces -> Pod \cup {NoPod}]
    BY <2>2 DEF TypeOK
  <2>4. [post[n] EXCEPT !.pc = "mark"] \in NodePost
    BY DEF TypeOK, NodePost
  <2>5. post' \in [Nodes -> NodePost]
    BY <1>5, <2>4 DEF FinalizePolicy, TypeOK
  <2> QED BY <1>5, <2>3, <2>5
          DEF FinalizePolicy, TypeOK, store, ledger, calls, counters, Exists
<1>6. CASE MarkArmedFinish(n)
  <2> DEFINE st == IF cell.phase = "running" /\ cell.status \notin Busy
                     THEN "ready" ELSE cell.status
             c == [cell EXCEPT !.armed = TRUE, !.node = n, !.status = st]
  <2>1. Exists /\ cell \in Cell
    BY <1>6 DEF MarkArmedFinish, ReceiptCurrent, Exists, TypeOK
  <2>2. st \in Statuses
    BY <2>1 DEF Cell, Statuses
  <2>3. c \in Cell
    <3> HIDE DEF st
    <3> QED BY <2>1, <2>2 DEF Cell
  <2>4. SaveCellTwice(c)
    BY <1>6 DEF MarkArmedFinish
  <2>5. cell' \in Cell /\ cell' # NoCell /\ disk' \in Cell \cup {NoCell}
    <3> HIDE DEF c
    <3> QED BY <2>3, <2>4, SaveCellType DEF TypeOK
  <2>6. armed' \in [Nodes -> Enforcement \cup {Off}]
    BY <1>6 DEF MarkArmedFinish, TypeOK
  <2> HIDE DEF c
  <2> QED BY <1>0, <1>6, <2>5, <2>6
          DEF MarkArmedFinish, TypeOK, ledger, cluster, calls, counters, Exists
<1>7. CASE MarkDisarmed(n)
  <2>1. /\ armed' \in [Nodes -> Enforcement \cup {Off}]
        /\ post' \in [Nodes -> NodePost]
    BY <1>0, <1>7 DEF MarkDisarmed, TypeOK
  <2>2. CASE UNCHANGED <<store, ledger>>
    BY <1>7, <2>1, <2>2
       DEF MarkDisarmed, TypeOK, store, ledger, cluster, calls, counters, Exists
  <2>3. CASE Exists /\ (SecretCleanupFails \/ FinalizeTermination)
    <3>1. /\ cell' \in Cell /\ cell' # NoCell /\ disk' \in Cell \cup {NoCell}
          /\ live' \in BOOLEAN /\ receipt' \in BOOLEAN /\ secrets' \in BOOLEAN
      BY <2>3, FinalizeType
    <3> QED BY <1>7, <2>1, <3>1
            DEF MarkDisarmed, TypeOK, cluster, calls, counters, Exists
  <2> QED BY <1>7, <2>2, <2>3 DEF MarkDisarmed
<1>8. CASE AgentRestart(n)
  BY <1>0, <1>8 DEF AgentRestart, TypeOK, store, ledger, cluster, calls, Exists
<1> QED BY <1>1, <1>2, <1>3, <1>4, <1>5, <1>6, <1>7, <1>8 DEF NodeStep

\* ApplyPolicy,
LEMMA PolicyTypes == TypeInv /\ PolicyStep => TypeInv'
<1> SUFFICES ASSUME TypeInv, PolicyStep
             PROVE  TypeInv'
  OBVIOUS
<1> USE DEF TypeInv, CallsInv
<1>0. NoRearm \in RearmCall /\ NoRearm.pc = "idle"
  BY DEF NoRearm, RearmCall
<1>1. ASSUME NEW profile \in Profiles, ApplyPolicy(profile)
      PROVE  TypeInv'
  <2>1. Exists /\ cell \in Cell
    BY <1>1 DEF ApplyPolicy, Known, Exists, TypeOK
  <2>2. cell' \in Cell /\ cell' # NoCell /\ disk' \in Cell \cup {NoCell}
    BY <1>1, <2>1, SaveCellType DEF ApplyPolicy, TypeOK
  <2>3. /\ rearm' \in RearmCall /\ rearm'.profile \in Profiles
        /\ rearm'.previous \in Statuses
    BY <1>1, <2>1 DEF ApplyPolicy, RearmCall, Cell, TypeOK
  <2> QED BY <1>1, <2>2, <2>3
          DEF ApplyPolicy, TypeOK, ledger, cluster, node, Exists
<1>2. CASE Rearm
  <2> PICK ns \in Namespaces :
          /\ CellPodAt(ns)
          /\ pods' = [pods EXCEPT ![ns].profile = rearm.profile,
                                  ![ns].armed = FALSE]
    BY <1>2 DEF Rearm
  <2>1. pods[ns] \in Pod /\ rearm.profile \in Profiles
    BY <1>2 DEF Rearm, CellPodAt, Occupied, TypeOK
  <2>2. [pods[ns] EXCEPT !.profile = rearm.profile, !.armed = FALSE] \in Pod
    BY <2>1 DEF Pod
  <2>3. pods' = [pods EXCEPT ![ns] =
                   [pods[ns] EXCEPT !.profile = rearm.profile, !.armed = FALSE]]
    BY <2>1 DEF TypeOK, Pod
  <2>4. pods' \in [Namespaces -> Pod \cup {NoPod}]
    BY <2>2, <2>3 DEF TypeOK
  <2>5. /\ rearm' \in RearmCall /\ rearm'.profile \in Profiles
        /\ rearm'.previous \in Statuses
    BY <1>2, <2>1 DEF Rearm, RearmCall, TypeOK
  <2> QED BY <1>2, <2>4, <2>5
          DEF Rearm, TypeOK, store, ledger, node, counters, Exists
<1>3. CASE RearmFails
  <2>1. /\ rearm' \in RearmCall /\ rearm'.profile \in Profiles
        /\ rearm'.previous \in Statuses
    BY <1>3 DEF RearmFails, RearmCall, TypeOK
  <2> QED BY <1>3, <2>1
          DEF RearmFails, TypeOK, store, ledger, cluster, node, counters, Exists
<1>4. CASE RetainPolicy
  <2>1. Exists /\ cell \in Cell /\ rearm.previous \in Statuses
    BY <1>4 DEF RetainPolicy, Exists, TypeOK
  <2>2. [cell EXCEPT !.status = rearm.previous] \in Cell
    BY <2>1 DEF Cell
  <2>3. cell' \in Cell /\ cell' # NoCell /\ disk' \in Cell \cup {NoCell}
    BY <1>4, <2>2, SaveCellType DEF RetainPolicy, TypeOK
  <2> QED BY <1>0, <1>4, <2>3
          DEF RetainPolicy, TypeOK, ledger, cluster, node, counters, Exists
<1>5. CASE PublishPolicy
  <2> DEFINE c == [cell EXCEPT !.profile = rearm.profile, !.phase = "running",
                               !.armed = FALSE, !.status = rearm.previous]
  <2>1. /\ Exists /\ cell \in Cell /\ rearm.previous \in Statuses
        /\ rearm.profile \in Profiles
    BY <1>5 DEF PublishPolicy, Exists, TypeOK
  <2>2. c \in Cell
    BY <2>1 DEF Cell, Phases
  <2>3. cell' \in Cell /\ cell' # NoCell /\ disk' \in Cell \cup {NoCell}
    BY <1>5, <2>2, SaveCellType DEF PublishPolicy, TypeOK
  <2> QED BY <1>0, <1>5, <2>3
          DEF PublishPolicy, TypeOK, ledger, cluster, node, counters, Exists
<1> QED BY <1>1, <1>2, <1>3, <1>4, <1>5 DEF PolicyStep

\* A call that only edits the record keeps every type.
LEMMA TouchTypes ==
    ASSUME TypeInv, NEW kind, NEW c, Exists => c \in Cell, Touch(kind, c)
    PROVE  TypeInv'
<1>1. c \in Cell
  BY DEF Touch, Known
<1>2. cell' \in Cell /\ cell' # NoCell /\ disk' \in Cell \cup {NoCell}
  BY <1>1, SaveCellType DEF Touch, TypeInv, TypeOK
<1> QED BY <1>2 DEF Touch, TypeInv, TypeOK, CallsInv, ledger, cluster, node,
                    calls, counters, Exists

\* the sidecar, the operator and the reviews,
LEMMA OperatorTypes == TypeInv /\ OperatorStep => TypeInv'
<1> SUFFICES ASSUME TypeInv, OperatorStep
             PROVE  TypeInv'
  OBVIOUS
<1>0. Exists => cell \in Cell
  BY DEF TypeInv, TypeOK, Exists
<1>1. CASE Attach
  <2>1. Exists => [cell EXCEPT !.connected = TRUE,
                               !.status = IF /\ @ \in {"provisioning", "arming"}
                                             /\ cell.phase = "running" /\ cell.armed
                                            THEN "ready" ELSE @] \in Cell
    BY <1>0 DEF Cell, Statuses
  <2> QED BY <1>1, <2>1, TouchTypes DEF Attach
<1>2. CASE Detach
  <2>1. Exists => [cell EXCEPT !.connected = FALSE,
                               !.status = IF @ \in {"terminated", "failed"}
                                            THEN @ ELSE "ready"] \in Cell
    BY <1>0 DEF Cell, Statuses
  <2> QED BY <1>2, <2>1, TouchTypes DEF Detach
<1>3. ASSUME NEW report \in {"ready", "paused", "active"}, UpdateAgent(report)
      PROVE  TypeInv'
  <2>1. Exists => [cell EXCEPT !.connected = TRUE,
                               !.status = IF @ \in {"terminated", "failed", "draining"}
                                            THEN @ ELSE report] \in Cell
    BY <1>0 DEF Cell, Statuses
  <2> QED BY <1>3, <2>1, TouchTypes DEF UpdateAgent
<1>4. CASE Heartbeat \/ Prompt
  <2>1. Exists => /\ [cell EXCEPT !.connected = TRUE] \in Cell
                  /\ [cell EXCEPT !.connected = TRUE, !.status = "active"] \in Cell
    BY <1>0 DEF Cell, Statuses
  <2> QED BY <1>4, <2>1, TouchTypes DEF Heartbeat, Prompt
<1>5. CASE Pause \/ Resume \/ AcceptReview \/ RejectReview
  <2>1. \A st \in Statuses : Exists => [cell EXCEPT !.status = st] \in Cell
    BY <1>0 DEF Cell
  <2>2. {"paused", "active", "reviewing"} \subseteq Statuses
    BY DEF Statuses
  <2> QED BY <1>5, <2>1, <2>2, TouchTypes
          DEF Pause, Resume, AcceptReview, RejectReview
<1>6. CASE ApproveReview
  <2>1. Exists /\ [cell EXCEPT !.status = "committing"] \in Cell
    BY <1>0, <1>6 DEF ApproveReview, Known, Cell, Statuses
  <2> QED BY <1>6, <2>1, NoCellAssumption
          DEF ApproveReview, TypeInv, TypeOK, CallsInv, ledger, cluster, node,
              counters, Exists
<1>7. ASSUME NEW outcome \in {"active", "reviewing"}, FinishCommit(outcome)
      PROVE  TypeInv'
  <2>1. [cell EXCEPT !.status = outcome] \in Cell
    BY <1>0, <1>7 DEF FinishCommit, TypeInv, CallsInv, Cell, Statuses
  <2>2. cell' \in Cell /\ cell' # NoCell /\ disk' \in Cell \cup {NoCell}
    BY <1>7, <2>1, SaveCellType DEF FinishCommit, TypeInv, TypeOK
  <2> QED BY <1>7, <2>2
          DEF FinishCommit, TypeInv, TypeOK, CallsInv, ledger, cluster, node,
              counters, Exists
<1>8. CASE PutSecret
  <2>1. cell' \in Cell /\ cell' # NoCell /\ disk' \in Cell \cup {NoCell}
    BY <1>0, <1>8, SaveCellType DEF PutSecret, Known, TypeInv, TypeOK
  <2> QED BY <1>8, <2>1
          DEF PutSecret, TypeInv, TypeOK, CallsInv, cluster, node, calls,
              counters, Exists
<1> QED BY <1>1, <1>2, <1>3, <1>4, <1>5, <1>6, <1>7, <1>8 DEF OperatorStep

\* what the cluster does to pods,
LEMMA ClusterTypes ==
    ASSUME NEW ns \in Namespaces
    PROVE  TypeInv /\ ClusterStep(ns) => TypeInv'
<1> SUFFICES ASSUME TypeInv, ClusterStep(ns)
             PROVE  TypeInv'
  OBVIOUS
<1>1. pods[ns] # NoPod /\ pods[ns] \in Pod
  BY DEF ClusterStep, ArmState, GateOpens, PodEnds, EvictPod, PodGone, Live, TypeInv,
         TypeOK
<1>2. /\ \A phase \in Phases : [pods[ns] EXCEPT !.phase = phase] \in Pod
      /\ [pods[ns] EXCEPT !.deleting = TRUE] \in Pod
  BY <1>1 DEF Pod
<1>3. pods' \in [Namespaces -> Pod \cup {NoPod}]
  BY <1>1, <1>2 DEF ClusterStep, ArmState, GateOpens, PodEnds, EvictPod, PodGone,
                    TypeInv, TypeOK, Phases
<1>4. UNCHANGED <<store, ledger, created, node, calls, counters>>
  BY DEF ClusterStep, ArmState, GateOpens, PodEnds, EvictPod, PodGone
<1> QED BY <1>3, <1>4
        DEF TypeInv, TypeOK, CallsInv, store, ledger, node, calls, counters,
            Exists

\* and a restart of the control plane.
LEMMA RestartTypes == TypeInv /\ Restart => TypeInv'
<1> SUFFICES ASSUME TypeInv, Restart
             PROVE  TypeInv'
  OBVIOUS
<1>1. NotMaking \in MakeCall /\ NotMaking.pc = "idle"
  BY DEF NotMaking, MakeCall
<1>2. NoRearm \in RearmCall /\ NoRearm.pc = "idle"
  BY DEF NoRearm, RearmCall
<1>3. IdlePost \in NodePost
  BY DEF IdlePost, NodePost
<1> QED BY <1>1, <1>2, <1>3, NoReconType
        DEF Restart, TypeInv, TypeOK, CallsInv, ledger, cluster, Exists

\* So every step keeps the types and what calls in progress hold,
LEMMA TypeStep == TypeInv /\ [Next]_vars => TypeInv'
<1> SUFFICES ASSUME TypeInv, [Next]_vars
             PROVE  TypeInv'
  OBVIOUS
<1>1. CASE UNCHANGED vars
  BY <1>1 DEF vars, store, ledger, cluster, node, calls, counters, TypeInv,
              TypeOK, CallsInv, Exists
<1> QED BY <1>1, CreateTypes, DestroyTypes, ReconcileTypes, CollectTypes,
           NodeTypes, PolicyTypes, OperatorTypes, ClusterTypes, RestartTypes
        DEF Next

\* which is so initially,
LEMMA TypeInit == Init => TypeInv
<1> SUFFICES ASSUME Init
             PROVE  TypeInv
  OBVIOUS
<1>1. NotMaking \in MakeCall /\ NotMaking.pc = "idle"
  BY DEF NotMaking, MakeCall
<1>2. NoRearm \in RearmCall /\ NoRearm.pc = "idle"
  BY DEF NoRearm, RearmCall
<1>3. IdlePost \in NodePost
  BY DEF IdlePost, NodePost
<1> QED BY <1>1, <1>2, <1>3, NoReconType
        DEF Init, TypeInv, TypeOK, CallsInv, Exists

\* and therefore always.
LEMMA TypeInvariant == Spec => []TypeInv
BY TypeInit, TypeStep, PTL DEF Spec

\* Every variable keeps its type.
THEOREM TypeCorrect == Spec => []TypeOK
<1>1. TypeInv => TypeOK
  BY DEF TypeInv
<1> QED BY <1>1, TypeInvariant, PTL

-----------------------------------------------------------------------------
(* Nothing is released without its receipt.                                *)

\* No step releases anything before the receipt is in the ledger.
LEMMA ReleasedStep ==
    TypeInv /\ ReleasedHasReceipt /\ [Next]_vars => ReleasedHasReceipt'
<1> SUFFICES ASSUME TypeInv, ReleasedHasReceipt, [Next]_vars
             PROVE  ReleasedHasReceipt'
  OBVIOUS
<1> USE DEF ReleasedHasReceipt, TypeInv, CallsInv, Exists
<1>1. CASE CreateStep
  BY <1>1 DEF CreateStep, Create, CreateEnsure, CreateFails, CreateApply,
              store, ledger
<1>2. CASE DestroyStep
  BY <1>2 DEF DestroyStep, Destroy, DestroyDelete, DestroyDeleteFails,
              DestroyFinish, Known, ReceiptFails, SecretCleanupFails,
              FinalizeTermination, store, ledger
<1>3. CASE Reconcile \/ ReconcileStep
  BY <1>3 DEF Reconcile, ReconcileStep, ReconcileObserve, ReconcileEnsure,
              ReconcileEnsureFails, ReconcileApply, ReconcileClean, store, ledger
<1>4. CASE GarbageCollect \/ GarbageCollectDelete \/ GarbageCollectFails
  BY <1>4 DEF GarbageCollect, GarbageCollectDelete, GarbageCollectFails, store,
              ledger
<1>5. ASSUME NEW n \in Nodes, NodeStep(n)
      PROVE  ReleasedHasReceipt'
  <2>1. CASE MarkDisarmed(n)
    BY <2>1 DEF MarkDisarmed, SecretCleanupFails, FinalizeTermination, store,
                ledger
  <2>2. CASE MarkArmedFinish(n)
    BY <2>2 DEF MarkArmedFinish, ReceiptCurrent, ledger
  <2>3. CASE \/ AgentArm(n) \/ AgentDisarm(n) \/ PostFails(n) \/ MarkArmed(n)
             \/ FinalizePolicy(n) \/ AgentRestart(n)
    BY <2>3 DEF AgentArm, AgentDisarm, PostFails, MarkArmed, FinalizePolicy,
                AgentRestart, store, ledger
  <2> QED BY <1>5, <2>1, <2>2, <2>3 DEF NodeStep
<1>6. CASE PolicyStep
  BY <1>6 DEF PolicyStep, ApplyPolicy, Known, Rearm, RearmFails, RetainPolicy,
              PublishPolicy, store, ledger
<1>7. CASE OperatorStep
  BY <1>7 DEF OperatorStep, Attach, Detach, UpdateAgent, Heartbeat, Prompt,
              Pause, Resume, AcceptReview, RejectReview, Touch, ApproveReview,
              FinishCommit, PutSecret, Known, ledger
<1>8. ASSUME NEW ns \in Namespaces, ClusterStep(ns)
      PROVE  ReleasedHasReceipt'
  BY <1>8 DEF ClusterStep, ArmState, GateOpens, PodEnds, EvictPod, PodGone, store, ledger
<1>9. CASE Restart
  BY <1>9 DEF Restart, ledger
<1>10. CASE UNCHANGED vars
  BY <1>10 DEF vars, store, ledger
<1> QED BY <1>1, <1>2, <1>3, <1>4, <1>5, <1>6, <1>7, <1>8, <1>9, <1>10 DEF Next

\* Documents and tokens are released only with the drain receipt in the
\* ledger, for any nodes, callers, failures and restarts (ReleasedHasReceipt).
THEOREM ReleaseNeedsReceipt == Spec => []ReleasedHasReceipt
<1>1. Init => ReleasedHasReceipt
  BY DEF Init, ReleasedHasReceipt, Exists
<1> QED BY <1>1, TypeInvariant, ReleasedStep, PTL DEF Spec

-----------------------------------------------------------------------------
(* An attested policy was enforced.                                        *)

Enforced == {e.profile : e \in everArmed}

Attested(c, enforced) ==
    c # NoCell /\ c.armed /\ c.node # NoNode => c.profile \in enforced

\* The record, its checkpoint and every receipt on its way name a profile that
\* some kernel enforced.
AttestInv ==
    /\ Attested(cell, Enforced)
    /\ Attested(disk, Enforced)
    /\ \A n \in Nodes : post[n].pc \in {"armed", "finalize", "mark"}
                          => post[n].profile \in Enforced

\* Saving a record that attests nothing false keeps the checkpoint so.
LEMMA SaveAttested ==
    ASSUME NEW c \in Cell, disk \in Cell \cup {NoCell},
           Attested(c, Enforced), Attested(disk, Enforced),
           SaveCell(c) \/ SaveCellTwice(c)
    PROVE  Attested(cell', Enforced) /\ Attested(disk', Enforced)
<1>1. Attested([c EXCEPT !.status = "failed"], Enforced)
  BY NoCellAssumption DEF Attested, Cell
<1> HIDE DEF Attested
<1> QED BY <1>1 DEF SaveCell, SaveCellTwice

\* A step that saves a record leaves the node agents alone.
LEMMA SaveStep ==
    ASSUME TypeInv, AttestInv, NEW c \in Cell, Attested(c, Enforced),
           SaveCell(c) \/ SaveCellTwice(c), UNCHANGED node
    PROVE  AttestInv'
<1>1. Attested(cell', Enforced) /\ Attested(disk', Enforced)
  BY SaveAttested DEF AttestInv, TypeInv, TypeOK
<1>2. Enforced' = Enforced
  BY DEF Enforced, node
<1> QED BY <1>1, <1>2 DEF AttestInv, node

\* A step that leaves the record alone.
LEMMA StoreUnchanged ==
    ASSUME AttestInv, UNCHANGED <<cell, disk, node>>
    PROVE  AttestInv'
<1>1. Enforced' = Enforced
  BY DEF Enforced, node
<1> QED BY <1>1 DEF AttestInv, node

\* The end of a cell clears the flag and the node.
LEMMA FinalizeAttested ==
    ASSUME TypeInv, AttestInv, Exists,
           ReceiptFails \/ SecretCleanupFails \/ FinalizeTermination
    PROVE  Attested(cell', Enforced) /\ Attested(disk', Enforced)
<1>1. cell \in Cell
  BY DEF TypeInv, TypeOK, Exists
<1>2. CASE ReceiptFails
  BY <1>2 DEF ReceiptFails, store, AttestInv
<1>3. CASE SecretCleanupFails
  BY <1>1, <1>3, NoCellAssumption
     DEF SecretCleanupFails, AttestInv, Attested, Cell
<1>4. CASE FinalizeTermination
  <2> DEFINE c == [cell EXCEPT !.status = "terminated", !.phase = "stopped",
                               !.node = NoNode, !.armed = FALSE,
                               !.connected = FALSE]
  <2>1. c \in Cell /\ c.armed = FALSE
    BY <1>1 DEF Cell, Statuses, Phases
  <2>2. Attested(c, Enforced)
    BY <2>1 DEF Attested
  <2>3. SaveCellTwice(c)
    BY <1>4 DEF FinalizeTermination
  <2> HIDE DEF c
  <2> QED BY <2>1, <2>2, <2>3, SaveAttested DEF AttestInv, TypeInv, TypeOK
<1> QED BY <1>2, <1>3, <1>4

\* Status, phase and connection of a record say nothing about its policy.
LEMMA EditAttested ==
    ASSUME NEW c \in Cell, Attested(c, Enforced), NEW d \in Cell,
           d.armed = c.armed, d.node = c.node, d.profile = c.profile
    PROVE  Attested(d, Enforced)
BY NoCellAssumption DEF Attested

\* The node posts, and MarkArmed records, profiles that were enforced.
LEMMA NodeAttested ==
    ASSUME NEW n \in Nodes
    PROVE  TypeInv /\ AttestInv /\ NodeStep(n) => AttestInv'
<1> SUFFICES ASSUME TypeInv, AttestInv, NodeStep(n)
             PROVE  AttestInv'
  OBVIOUS
<1>1. CASE AgentArm(n)
  <2> PICK q \in NodeCells(n) :
          /\ everArmed' = everArmed \cup {Fingerprint(q)}
          /\ post' = [post EXCEPT ![n] = [pc |-> "armed", profile |-> q.profile]]
    BY <1>1 DEF AgentArm
  <2>1. Enforced' = Enforced \cup {q.profile}
    <3>1. Fingerprint(q).profile = q.profile
      BY DEF Fingerprint
    <3>2. \A x : x \in Enforced' <=> \E e \in everArmed' : x = e.profile
      BY DEF Enforced
    <3>3. \A x : x \in Enforced <=> \E e \in everArmed : x = e.profile
      BY DEF Enforced
    <3> QED BY <3>1, <3>2, <3>3
  <2>2. UNCHANGED <<cell, disk>>
    BY <1>1 DEF AgentArm, store
  <2>3. Attested(cell', Enforced') /\ Attested(disk', Enforced')
    BY <2>1, <2>2 DEF AttestInv, Attested
  <2>4. \A m \in Nodes : post'[m].pc \in {"armed", "finalize", "mark"}
                            => post'[m].profile \in Enforced'
    BY <2>1 DEF AttestInv, TypeInv, TypeOK
  <2> QED BY <2>3, <2>4 DEF AttestInv
<1>2. CASE \/ AgentDisarm(n) \/ PostFails(n) \/ MarkArmed(n) \/ FinalizePolicy(n)
           \/ AgentRestart(n)
  <2>1. UNCHANGED <<cell, disk, everArmed>>
    BY <1>2 DEF AgentDisarm, PostFails, MarkArmed, FinalizePolicy, AgentRestart,
                store
  <2>2. Enforced' = Enforced
    BY <2>1 DEF Enforced
  <2>3. \A m \in Nodes :
           post'[m].pc \in {"armed", "finalize", "mark"} =>
              /\ post[m].pc \in {"armed", "finalize", "mark"}
              /\ post'[m].profile = post[m].profile
    BY <1>2 DEF AgentDisarm, PostFails, MarkArmed, FinalizePolicy, AgentRestart,
                IdlePost, TypeInv, TypeOK, NodePost
  <2> QED BY <2>1, <2>2, <2>3 DEF AttestInv
<1>3. CASE MarkArmedFinish(n)
  <2> DEFINE st == IF cell.phase = "running" /\ cell.status \notin Busy
                     THEN "ready" ELSE cell.status
             c == [cell EXCEPT !.armed = TRUE, !.node = n, !.status = st]
  <2>1. cell \in Cell /\ post[n].profile = cell.profile
    BY <1>3 DEF MarkArmedFinish, ReceiptCurrent, Exists, TypeInv, TypeOK
  <2>2. cell.profile \in Enforced
    BY <1>3, <2>1 DEF MarkArmedFinish, AttestInv
  <2>3. st \in Statuses
    BY <2>1 DEF Cell, Statuses
  <2>4. c \in Cell /\ c.profile = cell.profile
    <3> HIDE DEF st
    <3> QED BY <2>1, <2>3 DEF Cell
  <2>5. SaveCellTwice(c)
    BY <1>3 DEF MarkArmedFinish
  <2> HIDE DEF c
  <2>6. Attested(c, Enforced)
    BY <2>2, <2>4 DEF Attested
  <2>7. Attested(cell', Enforced) /\ Attested(disk', Enforced)
    BY <2>4, <2>5, <2>6, SaveAttested DEF AttestInv, TypeInv, TypeOK
  <2>8. Enforced' = Enforced /\ post' = [post EXCEPT ![n] = IdlePost]
    BY <1>3 DEF MarkArmedFinish, Enforced
  <2>9. \A m \in Nodes : post'[m].pc \in {"armed", "finalize", "mark"}
                            => post'[m].profile \in Enforced'
    BY <2>8 DEF AttestInv, IdlePost, TypeInv, TypeOK
  <2> QED BY <2>7, <2>8, <2>9 DEF AttestInv
<1>4. CASE MarkDisarmed(n)
  <2>1. Enforced' = Enforced /\ post' = [post EXCEPT ![n] = IdlePost]
    BY <1>4 DEF MarkDisarmed, Enforced
  <2>2. Attested(cell', Enforced) /\ Attested(disk', Enforced)
    <3>1. CASE UNCHANGED <<store, ledger>>
      BY <3>1 DEF store, AttestInv
    <3>2. CASE Exists /\ (SecretCleanupFails \/ FinalizeTermination)
      BY <3>2, FinalizeAttested
    <3> QED BY <1>4, <3>1, <3>2 DEF MarkDisarmed
  <2>3. \A m \in Nodes : post'[m].pc \in {"armed", "finalize", "mark"}
                            => post'[m].profile \in Enforced'
    BY <2>1 DEF AttestInv, IdlePost, TypeInv, TypeOK
  <2> QED BY <2>1, <2>2, <2>3 DEF AttestInv
<1> QED BY <1>1, <1>2, <1>3, <1>4 DEF NodeStep

\* Create attests nothing: the pod it got has no node yet.
LEMMA CreateAttested == TypeInv /\ AttestInv /\ CreateStep => AttestInv'
<1> SUFFICES ASSUME TypeInv, AttestInv, CreateStep
             PROVE  AttestInv'
  OBVIOUS
<1>1. ASSUME NEW profile \in Profiles, Create(profile)
      PROVE  AttestInv'
  <2>1. cell'.armed = FALSE /\ (disk' = cell' \/ disk' = disk)
    BY <1>1 DEF Create
  <2>2. Attested(cell', Enforced) /\ Attested(disk', Enforced)
    BY <2>1 DEF AttestInv, Attested
  <2>3. Enforced' = Enforced
    BY <1>1 DEF Create, node, Enforced
  <2> QED BY <1>1, <2>2, <2>3 DEF Create, node, AttestInv
<1>2. CASE CreateEnsure
  BY <1>2, StoreUnchanged DEF CreateEnsure, store
<1>3. CASE CreateFails
  <2> DEFINE c == [cell EXCEPT !.status = "failed", !.phase = "failed",
                               !.armed = FALSE, !.node = NoNode]
  <2>1. c \in Cell /\ c.armed = FALSE
    BY <1>3 DEF CreateFails, TypeInv, TypeOK, CallsInv, Exists, Cell, Statuses,
                Phases
  <2>2. Attested(c, Enforced)
    BY <2>1 DEF Attested
  <2> QED BY <1>3, <2>1, <2>2, SaveStep DEF CreateFails
<1>4. CASE CreateApply
  <2> DEFINE c == ApplyPod(cell, making.pod)
  <2>1. c \in Cell /\ c.node = NoNode
    BY <1>4, ApplyPodType DEF CreateApply, TypeInv, TypeOK, CallsInv, Exists
  <2>2. Attested(c, Enforced)
    BY <2>1 DEF Attested
  <2> QED BY <1>4, <2>1, <2>2, SaveStep DEF CreateApply
<1> QED BY <1>1, <1>2, <1>3, <1>4 DEF CreateStep

\* Destroy takes attestations away,
LEMMA DestroyAttested == TypeInv /\ AttestInv /\ DestroyStep => AttestInv'
<1> SUFFICES ASSUME TypeInv, AttestInv, DestroyStep
             PROVE  AttestInv'
  OBVIOUS
<1>1. CASE Destroy \/ DestroyDeleteFails
  <2> DEFINE c == [cell EXCEPT !.status = "draining"]
             d == [cell EXCEPT !.status = "failed", !.phase = "failed"]
  <2>1. cell \in Cell
    BY <1>1 DEF Destroy, Known, DestroyDeleteFails, TypeInv, TypeOK, CallsInv,
                Exists
  <2>2. c \in Cell /\ d \in Cell
    BY <2>1 DEF Cell, Statuses, Phases
  <2>3. Attested(c, Enforced) /\ Attested(d, Enforced)
    BY <2>1, <2>2, EditAttested DEF AttestInv, Cell
  <2> QED BY <1>1, <2>2, <2>3, SaveStep DEF Destroy, DestroyDeleteFails
<1>2. CASE DestroyDelete
  BY <1>2, StoreUnchanged DEF DestroyDelete, store
<1>3. CASE DestroyFinish
  <2>1. Exists
    BY <1>3 DEF DestroyFinish, TypeInv, CallsInv
  <2>2. Attested(cell', Enforced) /\ Attested(disk', Enforced)
    BY <1>3, <2>1, FinalizeAttested DEF DestroyFinish, ReceiptFails
  <2>3. Enforced' = Enforced
    BY <1>3 DEF DestroyFinish, node, Enforced
  <2> QED BY <1>3, <2>2, <2>3 DEF DestroyFinish, node, AttestInv
<1> QED BY <1>1, <1>2, <1>3 DEF DestroyStep

\* a reconcile keeps one for the same profile only,
LEMMA ReconcileAttested ==
    TypeInv /\ AttestInv /\ (Reconcile \/ ReconcileStep) => AttestInv'
<1> SUFFICES ASSUME TypeInv, AttestInv, Reconcile \/ ReconcileStep
             PROVE  AttestInv'
  OBVIOUS
<1>1. CASE ReconcileApply
  <2> DEFINE c == ApplyPod(cell, recon.pod)
  <2>1. c \in Cell /\ c.node = NoNode
    BY <1>1, ApplyPodType DEF ReconcileApply, TypeInv, TypeOK, CallsInv, Exists
  <2>2. Attested(c, Enforced)
    BY <2>1 DEF Attested
  <2>3. SaveCell(c) \/ UNCHANGED <<cell, disk>>
    BY <1>1 DEF ReconcileApply, store
  <2> HIDE DEF c
  <2> QED BY <1>1, <2>1, <2>2, <2>3, SaveStep, StoreUnchanged DEF ReconcileApply
<1>2. CASE ~ReconcileApply
  BY <1>2, StoreUnchanged
     DEF Reconcile, ReconcileStep, ReconcileObserve, ReconcileEnsure,
         ReconcileEnsureFails, ReconcileClean, store
<1> QED BY <1>1, <1>2

\* a policy change clears it,
LEMMA PolicyAttested == TypeInv /\ AttestInv /\ PolicyStep => AttestInv'
<1> SUFFICES ASSUME TypeInv, AttestInv, PolicyStep
             PROVE  AttestInv'
  OBVIOUS
<1>1. ASSUME NEW profile \in Profiles, ApplyPolicy(profile)
      PROVE  AttestInv'
  <2>1. cell \in Cell
    BY <1>1 DEF ApplyPolicy, Known, Exists, TypeInv, TypeOK
  <2> QED BY <1>1, <2>1, SaveStep DEF ApplyPolicy, AttestInv
<1>2. CASE Rearm \/ RearmFails
  BY <1>2, StoreUnchanged DEF Rearm, RearmFails, store
<1>3. CASE RetainPolicy
  <2> DEFINE c == [cell EXCEPT !.status = rearm.previous]
  <2>1. cell \in Cell /\ rearm.previous \in Statuses
    BY <1>3 DEF RetainPolicy, Exists, TypeInv, TypeOK, CallsInv
  <2>2. c \in Cell
    BY <2>1 DEF Cell
  <2>3. Attested(c, Enforced)
    BY <2>1, <2>2, EditAttested DEF AttestInv, Cell
  <2> QED BY <1>3, <2>2, <2>3, SaveStep DEF RetainPolicy
<1>4. CASE PublishPolicy
  <2> DEFINE c == [cell EXCEPT !.profile = rearm.profile, !.phase = "running",
                               !.armed = FALSE, !.status = rearm.previous]
  <2>1. /\ cell \in Cell /\ rearm.previous \in Statuses
        /\ rearm.profile \in Profiles
    BY <1>4 DEF PublishPolicy, Exists, TypeInv, TypeOK, CallsInv
  <2>2. c \in Cell /\ c.armed = FALSE
    BY <2>1 DEF Cell, Phases
  <2>3. Attested(c, Enforced)
    BY <2>2 DEF Attested
  <2> QED BY <1>4, <2>2, <2>3, SaveStep DEF PublishPolicy
<1> QED BY <1>1, <1>2, <1>3, <1>4 DEF PolicyStep

\* A call that leaves flag, node and profile as they are.
LEMMA TouchAttested ==
    ASSUME TypeInv, AttestInv, NEW kind, NEW c,
           Exists => /\ c \in Cell /\ c.armed = cell.armed
                     /\ c.node = cell.node /\ c.profile = cell.profile,
           Touch(kind, c)
    PROVE  AttestInv'
<1>1. /\ cell \in Cell /\ c \in Cell /\ c.armed = cell.armed
      /\ c.node = cell.node /\ c.profile = cell.profile
  BY DEF Touch, Known, Exists, TypeInv, TypeOK
<1>2. Attested(c, Enforced)
  BY <1>1, EditAttested DEF AttestInv
<1> QED BY <1>1, <1>2, SaveStep DEF Touch

\* and the others do not touch it.
LEMMA OperatorAttested == TypeInv /\ AttestInv /\ OperatorStep => AttestInv'
<1> SUFFICES ASSUME TypeInv, AttestInv, OperatorStep
             PROVE  AttestInv'
  OBVIOUS
<1> DEFINE Same(c) == /\ c \in Cell /\ c.armed = cell.armed
                      /\ c.node = cell.node /\ c.profile = cell.profile
<1>0. Exists => cell \in Cell
  BY DEF TypeInv, TypeOK, Exists
<1>1. CASE Attach
  <2>1. Exists => Same([cell EXCEPT !.connected = TRUE,
                               !.status = IF /\ @ \in {"provisioning", "arming"}
                                             /\ cell.phase = "running" /\ cell.armed
                                            THEN "ready" ELSE @])
    BY <1>0 DEF Cell, Statuses
  <2> QED BY <1>1, <2>1, TouchAttested DEF Attach
<1>2. CASE Detach
  <2>1. Exists => Same([cell EXCEPT !.connected = FALSE,
                               !.status = IF @ \in {"terminated", "failed"}
                                            THEN @ ELSE "ready"])
    BY <1>0 DEF Cell, Statuses
  <2> QED BY <1>2, <2>1, TouchAttested DEF Detach
<1>3. ASSUME NEW report \in {"ready", "paused", "active"}, UpdateAgent(report)
      PROVE  AttestInv'
  <2>1. Exists => Same([cell EXCEPT !.connected = TRUE,
                               !.status = IF @ \in {"terminated", "failed", "draining"}
                                            THEN @ ELSE report])
    BY <1>0 DEF Cell, Statuses
  <2> QED BY <1>3, <2>1, TouchAttested DEF UpdateAgent
<1>4. CASE Heartbeat \/ Prompt
  <2>1. Exists => /\ Same([cell EXCEPT !.connected = TRUE])
                  /\ Same([cell EXCEPT !.connected = TRUE, !.status = "active"])
    BY <1>0 DEF Cell, Statuses
  <2> QED BY <1>4, <2>1, TouchAttested DEF Heartbeat, Prompt
<1>5. CASE Pause \/ Resume \/ AcceptReview \/ RejectReview
  <2>1. \A st \in Statuses : Exists => Same([cell EXCEPT !.status = st])
    BY <1>0 DEF Cell
  <2>2. {"paused", "active", "reviewing"} \subseteq Statuses
    BY DEF Statuses
  <2> QED BY <1>5, <2>1, <2>2, TouchAttested
          DEF Pause, Resume, AcceptReview, RejectReview
<1>6. CASE ApproveReview
  <2>1. /\ cell \in Cell
        /\ Same([cell EXCEPT !.status = "committing"])
    BY <1>0, <1>6 DEF ApproveReview, Known, Cell, Statuses
  <2>2. Attested(cell', Enforced) /\ Attested(disk', Enforced)
    BY <1>6, <2>1, EditAttested DEF ApproveReview, AttestInv
  <2>3. Enforced' = Enforced
    BY <1>6 DEF ApproveReview, node, Enforced
  <2> QED BY <1>6, <2>2, <2>3 DEF ApproveReview, AttestInv, node
<1>7. ASSUME NEW outcome \in {"active", "reviewing"}, FinishCommit(outcome)
      PROVE  AttestInv'
  <2>1. cell \in Cell
    BY <1>0, <1>7 DEF FinishCommit, TypeInv, CallsInv
  <2>2. Same([cell EXCEPT !.status = outcome])
    BY <2>1 DEF Cell, Statuses
  <2>3. Attested([cell EXCEPT !.status = outcome], Enforced)
    BY <2>1, <2>2, EditAttested DEF AttestInv
  <2> QED BY <1>7, <2>2, <2>3, SaveStep DEF FinishCommit
<1>8. CASE PutSecret
  <2>1. cell \in Cell
    BY <1>0, <1>8 DEF PutSecret, Known
  <2> QED BY <1>8, <2>1, SaveStep DEF PutSecret, AttestInv
<1> QED BY <1>1, <1>2, <1>3, <1>4, <1>5, <1>6, <1>7, <1>8 DEF OperatorStep

\* So no step attests a profile that no kernel enforced.
LEMMA AttestStep == TypeInv /\ AttestInv /\ [Next]_vars => AttestInv'
<1> SUFFICES ASSUME TypeInv, AttestInv, [Next]_vars
             PROVE  AttestInv'
  OBVIOUS
<1>1. CASE GarbageCollect \/ GarbageCollectDelete \/ GarbageCollectFails
  BY <1>1, StoreUnchanged
     DEF GarbageCollect, GarbageCollectDelete, GarbageCollectFails, store
<1>2. ASSUME NEW ns \in Namespaces, ClusterStep(ns)
      PROVE  AttestInv'
  BY <1>2, StoreUnchanged
     DEF ClusterStep, ArmState, GateOpens, PodEnds, EvictPod, PodGone, store
<1>3. CASE Restart
  <2>1. cell' = disk /\ disk' = disk /\ everArmed' = everArmed
    BY <1>3 DEF Restart
  <2>2. \A m \in Nodes : post'[m].pc = "idle"
    BY <1>3 DEF Restart, IdlePost
  <2> QED BY <2>1, <2>2 DEF AttestInv, Enforced
<1>4. CASE UNCHANGED vars
  BY <1>4, StoreUnchanged DEF vars, store
<1> QED BY <1>1, <1>2, <1>3, <1>4, CreateAttested, DestroyAttested,
           ReconcileAttested, NodeAttested, PolicyAttested, OperatorAttested
        DEF Next

\* A record that is armed and names its node does so under a profile that some
\* kernel enforced, whatever policy changes, receipts, failures and restarts
\* overlap (AttestedProfileWasEnforced).
THEOREM AttestedWasEnforced == Spec => []AttestedProfileWasEnforced
<1>1. Init => AttestInv
  BY DEF Init, AttestInv, Attested, IdlePost
<1>2. AttestInv => AttestedProfileWasEnforced
  BY DEF AttestInv, Attested, Enforced, AttestedProfileWasEnforced, Exists
<1> QED BY <1>1, <1>2, TypeInvariant, AttestStep, PTL DEF Spec

-----------------------------------------------------------------------------
(* The first pod's agent starts behind its gate.                           *)

Unarmed(c) == c # NoCell => ~c.armed

\* As long as no kernel was armed, nothing says that one was: no record, no
\* pod, nothing that an operation in progress holds, and no receipt.
StoreQuiet == Unarmed(cell) /\ Unarmed(disk)
CallsQuiet == /\ making.pc = "apply" => ~making.pod.armed
              /\ recon.pc = "apply" => ~recon.pod.armed
PodsQuiet == \A ns \in Namespaces :
                pods[ns] # NoPod => ~pods[ns].armed /\ pods[ns].phase # "running"
PostsQuiet == \A n \in Nodes : post[n].pc \notin {"armed", "finalize", "mark"}

Quiet == StoreQuiet /\ CallsQuiet /\ PodsQuiet /\ PostsQuiet

QuietInv == everArmed = {} => Quiet

\* The pod that exists is the last that was created, and only pods that were
\* created were ever armed.
LastPod == /\ \A ns \in Namespaces :
                 pods[ns] # NoPod => pods[ns].id = created /\ created >= 1
           /\ \A e \in everArmed : e.id \in 1..created

\* Saving a record that is not armed leaves a checkpoint that is not.
LEMMA SaveUnarmed ==
    ASSUME NEW c \in Cell, ~c.armed, disk \in Cell \cup {NoCell}, Unarmed(disk),
           SaveCell(c) \/ SaveCellTwice(c)
    PROVE  StoreQuiet'
<1>1. ~[c EXCEPT !.status = "failed"].armed
  BY DEF Cell
<1> QED BY <1>1 DEF SaveCell, SaveCellTwice, StoreQuiet, Unarmed

\* A step that saves a record and leaves pods and node agents alone.
LEMMA SaveQuiet ==
    ASSUME TypeInv, Quiet, NEW c \in Cell, ~c.armed,
           SaveCell(c) \/ SaveCellTwice(c), UNCHANGED <<pods, post>>, CallsQuiet'
    PROVE  Quiet'
<1>1. StoreQuiet'
  BY SaveUnarmed DEF Quiet, StoreQuiet, TypeInv, TypeOK
<1> QED BY <1>1 DEF Quiet, PodsQuiet, PostsQuiet

\* The pod that Ensure returns is not armed, and nor are those it leaves.
LEMMA EnsureQuiet ==
    ASSUME TypeOK, PodsQuiet, NEW profile \in Profiles,
           NEW p \in EnsureResults(profile), Ensure(profile, p)
    PROVE  ~p.armed /\ PodsQuiet'
<1> DEFINE ns == NamespaceOf[profile]
<1>1. ns \in Namespaces
  BY LifecycleAssumption
<1>2. CASE pods[ns] # NoPod
  BY <1>1, <1>2 DEF Ensure, cluster, PodsQuiet
<1>3. CASE pods[ns] = NoPod
  <2>1. PICK n \in Nodes : p = NewPod(profile, n)
    BY <1>3 DEF Ensure
  <2>2. ~p.armed /\ p.phase = "pending"
    BY <2>1 DEF NewPod
  <2>3. pods' = [pods EXCEPT ![ns] = p]
    BY <1>3 DEF Ensure
  <2> QED BY <1>1, <2>2, <2>3 DEF PodsQuiet, TypeOK
<1> QED BY <1>2, <1>3

\* Delete arms no pod.
LEMMA DeleteQuiet ==
    ASSUME TypeOK, PodsQuiet, Delete
    PROVE  PodsQuiet'
<1>1. ASSUME NEW q \in Pod
      PROVE  /\ [q EXCEPT !.deleting = TRUE].armed = q.armed
             /\ [q EXCEPT !.deleting = TRUE].phase = q.phase
  BY DEF Pod
<1> QED BY <1>1 DEF Delete, PodsQuiet, TypeOK

\* The end of a cell arms no record.
LEMMA FinalizeQuiet ==
    ASSUME TypeInv, StoreQuiet, Exists,
           ReceiptFails \/ SecretCleanupFails \/ FinalizeTermination
    PROVE  StoreQuiet'
<1>1. cell \in Cell /\ ~cell.armed
  BY DEF TypeInv, TypeOK, Exists, StoreQuiet, Unarmed
<1>2. CASE ReceiptFails
  BY <1>2 DEF ReceiptFails, store, StoreQuiet
<1>3. CASE SecretCleanupFails
  BY <1>1, <1>3 DEF SecretCleanupFails, StoreQuiet, Unarmed, Cell
<1>4. CASE FinalizeTermination
  <2> DEFINE c == [cell EXCEPT !.status = "terminated", !.phase = "stopped",
                               !.node = NoNode, !.armed = FALSE,
                               !.connected = FALSE]
  <2>1. c \in Cell /\ ~c.armed
    BY <1>1 DEF Cell, Statuses, Phases
  <2>2. SaveCellTwice(c)
    BY <1>4 DEF FinalizeTermination
  <2> HIDE DEF c
  <2> QED BY <2>1, <2>2, SaveUnarmed DEF StoreQuiet, TypeInv, TypeOK
<1> QED BY <1>2, <1>3, <1>4

\* What applyPodLocked makes of an unarmed record and an unarmed pod.
LEMMA ApplyPodQuiet ==
    ASSUME NEW c \in Cell, NEW p \in Pod, ~c.armed, ~p.armed
    PROVE  ~ApplyPod(c, p).armed
BY DEF ApplyPod, Cell

\* While no kernel was armed, nothing says that one was: after Create,
LEMMA CreateQuiet ==
    ASSUME TypeInv, Quiet, CreateStep
    PROVE  Quiet'
<1> USE DEF Quiet
<1>1. ASSUME NEW profile \in Profiles, Create(profile)
      PROVE  Quiet'
  <2>1. cell'.armed = FALSE /\ (disk' = cell' \/ disk' = disk)
    BY <1>1 DEF Create
  <2>2. StoreQuiet'
    BY <2>1 DEF StoreQuiet, Unarmed
  <2>3. making'.pc = "ensure"
    BY <1>1 DEF Create, TypeInv, TypeOK, MakeCall
  <2> QED BY <1>1, <2>2, <2>3
          DEF Create, cluster, node, CallsQuiet, PodsQuiet, PostsQuiet
<1>2. CASE CreateEnsure
  <2>1. making.profile \in Profiles
    BY <1>2 DEF CreateEnsure, TypeInv, CallsInv
  <2>2. PICK p \in EnsureResults(making.profile) :
           /\ Ensure(making.profile, p)
           /\ making' = [making EXCEPT !.pc = "apply", !.pod = p]
    BY <1>2 DEF CreateEnsure
  <2>3. ~p.armed /\ PodsQuiet'
    BY <2>1, <2>2, EnsureQuiet DEF TypeInv
  <2>4. making'.pod = p
    BY <2>2 DEF TypeInv, TypeOK, MakeCall
  <2> QED BY <1>2, <2>3, <2>4
          DEF CreateEnsure, store, node, CallsQuiet, StoreQuiet, PostsQuiet
<1>3. CASE CreateFails
  <2> DEFINE c == [cell EXCEPT !.status = "failed", !.phase = "failed",
                               !.armed = FALSE, !.node = NoNode]
  <2>1. c \in Cell /\ ~c.armed
    BY <1>3 DEF CreateFails, TypeInv, TypeOK, CallsInv, Exists, Cell, Statuses,
                Phases
  <2>2. CallsQuiet'
    BY <1>3 DEF CreateFails, CallsQuiet, NotMaking
  <2> HIDE DEF Quiet
  <2> QED BY <1>3, <2>1, <2>2, SaveQuiet DEF CreateFails, cluster, node
<1>4. CASE CreateApply
  <2> DEFINE c == ApplyPod(cell, making.pod)
  <2>1. cell \in Cell /\ making.pod \in Pod /\ ~cell.armed /\ ~making.pod.armed
    BY <1>4 DEF CreateApply, TypeInv, TypeOK, CallsInv, Exists, StoreQuiet,
                Unarmed, CallsQuiet
  <2>2. c \in Cell /\ ~c.armed
    BY <2>1, ApplyPodType, ApplyPodQuiet
  <2>3. CallsQuiet'
    BY <1>4 DEF CreateApply, CallsQuiet, NotMaking
  <2> HIDE DEF Quiet, c
  <2>4. SaveCell(c)
    BY <1>4 DEF CreateApply, c
  <2> QED BY <1>4, <2>2, <2>3, <2>4, SaveQuiet DEF CreateApply, cluster, node
<1> QED BY <1>1, <1>2, <1>3, <1>4 DEF CreateStep

\* after Destroy,
LEMMA DestroyQuiet ==
    ASSUME TypeInv, Quiet, DestroyStep
    PROVE  Quiet'
<1>1. CASE Destroy \/ DestroyDeleteFails
  <2> DEFINE c == [cell EXCEPT !.status = "draining"]
             d == [cell EXCEPT !.status = "failed", !.phase = "failed"]
  <2>1. cell \in Cell /\ ~cell.armed
    BY <1>1 DEF Destroy, Known, DestroyDeleteFails, TypeInv, TypeOK, CallsInv,
                Exists, Quiet, StoreQuiet, Unarmed
  <2>2. c \in Cell /\ d \in Cell /\ ~c.armed /\ ~d.armed
    BY <2>1 DEF Cell, Statuses, Phases
  <2>3. CallsQuiet'
    BY <1>1 DEF Destroy, DestroyDeleteFails, Quiet, CallsQuiet
  <2> QED BY <1>1, <2>2, <2>3, SaveQuiet
          DEF Destroy, DestroyDeleteFails, cluster, node
<1>2. CASE DestroyDelete
  <2>1. PodsQuiet'
    BY <1>2, DeleteQuiet DEF DestroyDelete, TypeInv, Quiet
  <2> QED BY <1>2, <2>1
          DEF DestroyDelete, store, node, Quiet, StoreQuiet, CallsQuiet,
              PostsQuiet
<1>3. CASE DestroyFinish
  <2>1. Exists
    BY <1>3 DEF DestroyFinish, TypeInv, CallsInv
  <2>2. StoreQuiet'
    BY <1>3, <2>1, FinalizeQuiet DEF DestroyFinish, ReceiptFails, Quiet
  <2> QED BY <1>3, <2>2
          DEF DestroyFinish, cluster, node, Quiet, CallsQuiet, PodsQuiet,
              PostsQuiet
<1> QED BY <1>1, <1>2, <1>3 DEF DestroyStep

\* after Reconcile,
LEMMA ReconcileQuiet ==
    ASSUME TypeInv, Quiet, Reconcile \/ ReconcileStep
    PROVE  Quiet'
<1>1. CASE Reconcile \/ ReconcileObserve \/ ReconcileEnsureFails
  <2>1. recon'.pc # "apply"
    BY <1>1 DEF Reconcile, ReconcileObserve, ReconcileEnsureFails, ReadSpec,
                NoRecon, TypeInv, TypeOK, ReconCall
  <2> QED BY <1>1, <2>1
          DEF Reconcile, ReconcileObserve, ReconcileEnsureFails, store, cluster,
              node, Quiet, StoreQuiet, CallsQuiet, PodsQuiet, PostsQuiet
<1>2. CASE ReconcileEnsure
  <2>1. recon.profile \in Profiles
    BY <1>2 DEF ReconcileEnsure, TypeInv, CallsInv
  <2>2. PICK p \in EnsureResults(recon.profile) :
           /\ Ensure(recon.profile, p)
           /\ recon' = [recon EXCEPT !.pc = "apply", !.pod = p]
    BY <1>2 DEF ReconcileEnsure
  <2>3. ~p.armed /\ PodsQuiet'
    BY <2>1, <2>2, EnsureQuiet DEF TypeInv, Quiet
  <2>4. recon'.pod = p
    BY <2>2 DEF TypeInv, TypeOK, ReconCall
  <2> QED BY <1>2, <2>3, <2>4
          DEF ReconcileEnsure, store, node, Quiet, CallsQuiet, StoreQuiet,
              PostsQuiet
<1>3. CASE ReconcileApply
  <2> DEFINE c == ApplyPod(cell, recon.pod)
  <2>1. cell \in Cell /\ recon.pod \in Pod /\ ~cell.armed /\ ~recon.pod.armed
    BY <1>3 DEF ReconcileApply, TypeInv, TypeOK, CallsInv, Exists, Quiet,
                StoreQuiet, Unarmed, CallsQuiet
  <2>2. c \in Cell /\ ~c.armed
    BY <2>1, ApplyPodType, ApplyPodQuiet
  <2>3. CallsQuiet'
    BY <1>3 DEF ReconcileApply, Quiet, CallsQuiet, NoRecon
  <2>4. SaveCell(c) \/ UNCHANGED <<cell, disk>>
    BY <1>3 DEF ReconcileApply, store
  <2>5. UNCHANGED <<pods, post>>
    BY <1>3 DEF ReconcileApply, cluster, node
  <2> HIDE DEF c
  <2>6. CASE SaveCell(c)
    BY <2>2, <2>3, <2>5, <2>6, SaveQuiet
  <2>7. CASE UNCHANGED <<cell, disk>>
    BY <2>3, <2>5, <2>7 DEF Quiet, StoreQuiet, PodsQuiet, PostsQuiet
  <2> QED BY <2>4, <2>6, <2>7
<1>4. CASE ReconcileClean
  <2>1. PodsQuiet'
    BY <1>4, DeleteQuiet
       DEF ReconcileClean, TypeInv, Quiet, cluster, PodsQuiet
  <2> QED BY <1>4, <2>1
          DEF ReconcileClean, NoRecon, store, node, Quiet, StoreQuiet,
              CallsQuiet, PostsQuiet
<1> QED BY <1>1, <1>2, <1>3, <1>4 DEF ReconcileStep

\* after GarbageCollect,
LEMMA CollectQuiet ==
    ASSUME TypeInv, Quiet,
           GarbageCollect \/ GarbageCollectDelete \/ GarbageCollectFails
    PROVE  Quiet'
<1>1. recon'.pc # "apply"
  BY DEF GarbageCollect, GarbageCollectDelete, GarbageCollectFails, NoRecon
<1>2. PodsQuiet'
  BY DeleteQuiet DEF GarbageCollect, GarbageCollectDelete, GarbageCollectFails,
                     cluster, TypeInv, Quiet, PodsQuiet
<1> QED BY <1>1, <1>2
        DEF GarbageCollect, GarbageCollectDelete, GarbageCollectFails, store,
            node, Quiet, StoreQuiet, CallsQuiet, PostsQuiet

\* A step of a node agent either arms the first kernel or changes nothing that
\* matters here.
LEMMA NodeQuiet ==
    ASSUME TypeInv, Quiet, NEW n \in Nodes, NodeStep(n), everArmed' = {}
    PROVE  Quiet'
<1>1. CASE AgentArm(n)
  BY <1>1 DEF AgentArm
<1>2. CASE MarkArmed(n) \/ FinalizePolicy(n) \/ MarkArmedFinish(n)
  BY <1>2 DEF MarkArmed, FinalizePolicy, MarkArmedFinish, Quiet, PostsQuiet
<1>3. CASE AgentDisarm(n) \/ PostFails(n) \/ AgentRestart(n)
  <2>1. PostsQuiet'
    BY <1>3 DEF AgentDisarm, PostFails, AgentRestart, IdlePost, Quiet,
                PostsQuiet, TypeInv, TypeOK
  <2> QED BY <1>3, <2>1
          DEF AgentDisarm, PostFails, AgentRestart, store, cluster, calls, Quiet,
              StoreQuiet, CallsQuiet, PodsQuiet
<1>4. CASE MarkDisarmed(n)
  <2>1. PostsQuiet'
    BY <1>4 DEF MarkDisarmed, IdlePost, Quiet, PostsQuiet, TypeInv, TypeOK
  <2>2. StoreQuiet'
    <3>1. CASE UNCHANGED <<store, ledger>>
      BY <3>1 DEF store, Quiet, StoreQuiet
    <3>2. CASE Exists /\ (SecretCleanupFails \/ FinalizeTermination)
      BY <3>2, FinalizeQuiet DEF Quiet
    <3> QED BY <1>4, <3>1, <3>2 DEF MarkDisarmed
  <2> QED BY <1>4, <2>1, <2>2
          DEF MarkDisarmed, cluster, calls, Quiet, CallsQuiet, PodsQuiet
<1> QED BY <1>1, <1>2, <1>3, <1>4 DEF NodeStep

\* after a policy change,
LEMMA PolicyQuiet ==
    ASSUME TypeInv, Quiet, PolicyStep
    PROVE  Quiet'
<1>0. Exists => cell \in Cell /\ ~cell.armed
  BY DEF TypeInv, TypeOK, Exists, Quiet, StoreQuiet, Unarmed
<1>c. PolicyStep => CallsQuiet'
  BY DEF PolicyStep, ApplyPolicy, Rearm, RearmFails, RetainPolicy,
         PublishPolicy, Quiet, CallsQuiet
<1>1. ASSUME NEW profile \in Profiles, ApplyPolicy(profile)
      PROVE  Quiet'
  BY <1>0, <1>c, <1>1, SaveQuiet DEF ApplyPolicy, Known, cluster, node
<1>2. CASE Rearm
  <2>1. PICK ns \in Namespaces :
           /\ CellPodAt(ns)
           /\ pods' = [pods EXCEPT ![ns].profile = rearm.profile,
                                   ![ns].armed = FALSE]
    BY <1>2 DEF Rearm
  <2>2. pods[ns] # NoPod /\ pods[ns] \in Pod
    BY <2>1 DEF CellPodAt, Occupied, TypeInv, TypeOK
  <2>3. /\ pods'[ns].armed = FALSE /\ pods'[ns].phase = pods[ns].phase
        /\ \A m \in Namespaces \ {ns} : pods'[m] = pods[m]
    BY <2>1, <2>2 DEF TypeInv, TypeOK, Pod
  <2>4. PodsQuiet'
    BY <2>2, <2>3 DEF Quiet, PodsQuiet
  <2> QED BY <1>2, <1>c, <2>4
          DEF Rearm, store, node, Quiet, StoreQuiet, PostsQuiet
<1>3. CASE RearmFails
  BY <1>3, <1>c DEF RearmFails, store, cluster, node, Quiet, StoreQuiet,
                    PodsQuiet, PostsQuiet
<1>4. CASE RetainPolicy
  <2> DEFINE c == [cell EXCEPT !.status = rearm.previous]
  <2>1. cell \in Cell /\ ~cell.armed /\ rearm.previous \in Statuses
    BY <1>0, <1>4 DEF RetainPolicy, TypeInv, CallsInv
  <2>2. c \in Cell /\ ~c.armed
    BY <2>1 DEF Cell
  <2> QED BY <1>4, <1>c, <2>2, SaveQuiet DEF RetainPolicy, cluster, node
<1>5. CASE PublishPolicy
  <2> DEFINE c == [cell EXCEPT !.profile = rearm.profile, !.phase = "running",
                               !.armed = FALSE, !.status = rearm.previous]
  <2>1. /\ cell \in Cell /\ rearm.previous \in Statuses
        /\ rearm.profile \in Profiles
    BY <1>0, <1>5 DEF PublishPolicy, TypeInv, CallsInv
  <2>2. c \in Cell /\ ~c.armed
    BY <2>1 DEF Cell, Phases
  <2> QED BY <1>5, <1>c, <2>2, SaveQuiet DEF PublishPolicy, cluster, node
<1> QED BY <1>1, <1>2, <1>3, <1>4, <1>5 DEF PolicyStep

\* A call that leaves the flag as it is.
LEMMA TouchQuiet ==
    ASSUME TypeInv, Quiet, NEW kind, NEW c,
           Exists => c \in Cell /\ c.armed = cell.armed,
           Touch(kind, c)
    PROVE  Quiet'
<1>1. c \in Cell /\ ~c.armed
  BY DEF Touch, Known, Exists, Quiet, StoreQuiet, Unarmed
<1>2. CallsQuiet'
  BY DEF Touch, calls, Quiet, CallsQuiet
<1> QED BY <1>1, <1>2, SaveQuiet DEF Touch, cluster, node

\* after the sidecar's and the operator's calls,
LEMMA OperatorQuiet ==
    ASSUME TypeInv, Quiet, OperatorStep
    PROVE  Quiet'
<1> DEFINE Same(c) == c \in Cell /\ c.armed = cell.armed
<1>0. Exists => cell \in Cell /\ ~cell.armed
  BY DEF TypeInv, TypeOK, Exists, Quiet, StoreQuiet, Unarmed
<1>1. CASE Attach
  <2>1. Exists => Same([cell EXCEPT !.connected = TRUE,
                               !.status = IF /\ @ \in {"provisioning", "arming"}
                                             /\ cell.phase = "running" /\ cell.armed
                                            THEN "ready" ELSE @])
    BY <1>0 DEF Cell, Statuses
  <2> QED BY <1>1, <2>1, TouchQuiet DEF Attach
<1>2. CASE Detach
  <2>1. Exists => Same([cell EXCEPT !.connected = FALSE,
                               !.status = IF @ \in {"terminated", "failed"}
                                            THEN @ ELSE "ready"])
    BY <1>0 DEF Cell, Statuses
  <2> QED BY <1>2, <2>1, TouchQuiet DEF Detach
<1>3. ASSUME NEW report \in {"ready", "paused", "active"}, UpdateAgent(report)
      PROVE  Quiet'
  <2>1. Exists => Same([cell EXCEPT !.connected = TRUE,
                               !.status = IF @ \in {"terminated", "failed", "draining"}
                                            THEN @ ELSE report])
    BY <1>0 DEF Cell, Statuses
  <2> QED BY <1>3, <2>1, TouchQuiet DEF UpdateAgent
<1>4. CASE Heartbeat \/ Prompt
  <2>1. Exists => /\ Same([cell EXCEPT !.connected = TRUE])
                  /\ Same([cell EXCEPT !.connected = TRUE, !.status = "active"])
    BY <1>0 DEF Cell, Statuses
  <2> QED BY <1>4, <2>1, TouchQuiet DEF Heartbeat, Prompt
<1>5. CASE Pause \/ Resume \/ AcceptReview \/ RejectReview
  <2>1. \A st \in Statuses : Exists => Same([cell EXCEPT !.status = st])
    BY <1>0 DEF Cell
  <2>2. {"paused", "active", "reviewing"} \subseteq Statuses
    BY DEF Statuses
  <2> QED BY <1>5, <2>1, <2>2, TouchQuiet
          DEF Pause, Resume, AcceptReview, RejectReview
<1>6. CASE ApproveReview
  <2>1. cell \in Cell /\ ~cell.armed
    BY <1>0, <1>6 DEF ApproveReview, Known
  <2>2. ~cell'.armed
    BY <1>6, <2>1 DEF ApproveReview, Cell
  <2> QED BY <1>6, <2>2
          DEF ApproveReview, cluster, node, Quiet, StoreQuiet, Unarmed,
              CallsQuiet, PodsQuiet, PostsQuiet
<1>7. ASSUME NEW outcome \in {"active", "reviewing"}, FinishCommit(outcome)
      PROVE  Quiet'
  <2>1. cell \in Cell /\ ~cell.armed
    BY <1>0, <1>7 DEF FinishCommit, TypeInv, CallsInv
  <2>2. Same([cell EXCEPT !.status = outcome])
    BY <2>1 DEF Cell, Statuses
  <2>3. CallsQuiet'
    BY <1>7 DEF FinishCommit, Quiet, CallsQuiet
  <2> QED BY <1>7, <2>1, <2>2, <2>3, SaveQuiet DEF FinishCommit, cluster, node
<1>8. CASE PutSecret
  <2>1. CallsQuiet'
    BY <1>8 DEF PutSecret, calls, Quiet, CallsQuiet
  <2> QED BY <1>0, <1>8, <2>1, SaveQuiet DEF PutSecret, Known, cluster, node
<1> QED BY <1>1, <1>2, <1>3, <1>4, <1>5, <1>6, <1>7, <1>8 DEF OperatorStep

\* The gate does not open, and what the cluster does to a pod arms nothing.
LEMMA ClusterQuiet ==
    ASSUME TypeInv, Quiet, NEW ns \in Namespaces, ClusterStep(ns)
    PROVE  Quiet'
<1>1. ~GateOpens(ns)
  BY DEF GateOpens, ArmState, Exists, Quiet, StoreQuiet, Unarmed
<1>2. pods[ns] # NoPod => pods[ns] \in Pod
  BY DEF TypeInv, TypeOK
<1>3. /\ pods'[ns] # NoPod =>
            /\ pods[ns] # NoPod /\ pods'[ns].armed = pods[ns].armed
            /\ pods'[ns].phase \in {pods[ns].phase, "stopped", "failed"}
      /\ \A m \in Namespaces \ {ns} : pods'[m] = pods[m]
  BY <1>1, <1>2 DEF ClusterStep, PodEnds, EvictPod, PodGone, Live, TypeInv,
                    TypeOK, Pod
<1>4. PodsQuiet'
  BY <1>3 DEF Quiet, PodsQuiet
<1>5. UNCHANGED <<store, node, calls>>
  BY <1>1 DEF ClusterStep, PodEnds, EvictPod, PodGone
<1> QED BY <1>4, <1>5
        DEF store, node, calls, Quiet, StoreQuiet, CallsQuiet, PostsQuiet

\* and so after every step.
LEMMA QuietStep == TypeInv /\ QuietInv /\ [Next]_vars => QuietInv'
<1> SUFFICES ASSUME TypeInv, QuietInv, [Next]_vars, everArmed' = {}
             PROVE  Quiet'
  BY DEF QuietInv
<1>1. everArmed = {}
  <2>1. ASSUME NEW n \in Nodes, NodeStep(n)
        PROVE  everArmed \subseteq everArmed'
    BY <2>1 DEF NodeStep, AgentArm, AgentDisarm, PostFails, MarkArmed,
                FinalizePolicy, MarkArmedFinish, MarkDisarmed, AgentRestart
  <2>2. CASE \/ CreateStep \/ DestroyStep \/ Reconcile \/ ReconcileStep
             \/ GarbageCollect \/ GarbageCollectDelete \/ GarbageCollectFails
             \/ PolicyStep \/ Restart \/ UNCHANGED vars
    BY <2>2 DEF CreateStep, Create, CreateEnsure, CreateFails, CreateApply,
                DestroyStep, Destroy, DestroyDelete, DestroyDeleteFails,
                DestroyFinish, Reconcile, ReconcileStep, ReconcileObserve,
                ReconcileEnsure, ReconcileEnsureFails, ReconcileApply,
                ReconcileClean, GarbageCollect, GarbageCollectDelete,
                GarbageCollectFails, PolicyStep, ApplyPolicy, Rearm,
                RearmFails, RetainPolicy, PublishPolicy, Restart, vars, node
  <2>3. CASE OperatorStep
    BY <2>3 DEF OperatorStep, Attach, Detach, UpdateAgent, Heartbeat, Prompt,
                Pause, Resume, AcceptReview, RejectReview, Touch, ApproveReview,
                FinishCommit, PutSecret, node
  <2>4. ASSUME NEW ns \in Namespaces, ClusterStep(ns)
        PROVE  everArmed' = everArmed
    BY <2>4 DEF ClusterStep, GateOpens, PodEnds, EvictPod, PodGone, node
  <2> QED BY <2>1, <2>2, <2>3, <2>4 DEF Next
<1>2. Quiet
  BY <1>1 DEF QuietInv
<1>3. CASE Restart
  BY <1>2, <1>3 DEF Restart, cluster, NotMaking, NoRecon, IdlePost, Quiet,
                    StoreQuiet, CallsQuiet, PodsQuiet, PostsQuiet
<1>4. CASE UNCHANGED vars
  BY <1>2, <1>4 DEF vars, store, cluster, node, calls, Quiet, StoreQuiet,
                    CallsQuiet, PodsQuiet, PostsQuiet
<1> QED BY <1>2, <1>3, <1>4, CreateQuiet, DestroyQuiet, ReconcileQuiet,
           CollectQuiet, NodeQuiet, PolicyQuiet, OperatorQuiet, ClusterQuiet
        DEF Next

\* Ensure creates a pod only when there is none in the one namespace.
LEMMA EnsureLast ==
    ASSUME TypeOK, LastPod, NEW x, Namespaces = {x}, NEW profile \in Profiles,
           NEW p \in EnsureResults(profile), Ensure(profile, p), UNCHANGED node
    PROVE  LastPod'
<1>1. NamespaceOf[profile] = x
  BY LifecycleAssumption
<1>2. CASE pods[x] # NoPod
  BY <1>1, <1>2 DEF Ensure, cluster, node, LastPod
<1>3. CASE pods[x] = NoPod
  <2>1. PICK n \in Nodes : p = NewPod(profile, n)
    BY <1>1, <1>3 DEF Ensure
  <2>2. p.id = created + 1
    BY <2>1 DEF NewPod
  <2>3. pods' = [pods EXCEPT ![x] = p] /\ created' = created + 1
    BY <1>1, <1>3 DEF Ensure
  <2> QED BY <2>2, <2>3 DEF LastPod, TypeOK, node
<1> QED BY <1>2, <1>3

\* A step that creates no pod and renames none.
LEMMA SameLast ==
    ASSUME LastPod, UNCHANGED <<created, everArmed>>,
           \A ns \in Namespaces :
              pods'[ns] # NoPod => pods[ns] # NoPod /\ pods'[ns].id = pods[ns].id
    PROVE  LastPod'
BY DEF LastPod

\* Delete marks a pod and makes no other.
LEMMA DeleteLast ==
    ASSUME TypeOK, Delete
    PROVE  \A ns \in Namespaces :
              pods'[ns] # NoPod => pods[ns] # NoPod /\ pods'[ns].id = pods[ns].id
<1>1. ASSUME NEW q \in Pod
      PROVE  [q EXCEPT !.deleting = TRUE].id = q.id
  BY DEF Pod
<1> QED BY <1>1 DEF Delete, TypeOK

\* The node agent arms pods and marks them, and makes none.
LEMMA NodeLast ==
    ASSUME TypeInv, LastPod, NEW n \in Nodes, NodeStep(n)
    PROVE  LastPod'
<1>1. CASE AgentArm(n)
  <2>1. PICK p \in NodeCells(n) : everArmed' = everArmed \cup {Fingerprint(p)}
    BY <1>1 DEF AgentArm
  <2>2. PICK ns \in Namespaces : p = pods[ns] /\ pods[ns] # NoPod
    BY DEF NodeCells, Live
  <2>3. Fingerprint(p).id \in 1..created
    BY <2>2 DEF Fingerprint, LastPod, TypeInv, TypeOK
  <2> QED BY <1>1, <2>1, <2>3 DEF AgentArm, cluster, LastPod
<1>2. CASE FinalizePolicy(n)
  <2>1. PICK ns \in Namespaces :
           CellPodAt(ns) /\ pods' = [pods EXCEPT ![ns].armed = TRUE]
    BY <1>2 DEF FinalizePolicy
  <2>2. pods[ns] # NoPod /\ pods[ns] \in Pod
    BY <2>1 DEF CellPodAt, Occupied, TypeInv, TypeOK
  <2>3. /\ pods'[ns].id = pods[ns].id
        /\ \A m \in Namespaces \ {ns} : pods'[m] = pods[m]
    BY <2>1, <2>2 DEF TypeInv, TypeOK, Pod
  <2> QED BY <1>2, <2>2, <2>3, SameLast DEF FinalizePolicy
<1>3. CASE \/ AgentDisarm(n) \/ PostFails(n) \/ MarkArmed(n)
           \/ MarkArmedFinish(n) \/ MarkDisarmed(n) \/ AgentRestart(n)
  BY <1>3 DEF AgentDisarm, PostFails, MarkArmed, MarkArmedFinish, MarkDisarmed,
              AgentRestart, cluster, LastPod
<1> QED BY <1>1, <1>2, <1>3 DEF NodeStep

\* Every step keeps the pod that exists the last one created.
LEMMA LastStep ==
    ASSUME NEW x, Namespaces = {x}
    PROVE  TypeInv /\ LastPod /\ [Next]_vars => LastPod'
<1> SUFFICES ASSUME TypeInv, LastPod, [Next]_vars
             PROVE  LastPod'
  OBVIOUS
<1>1. CASE CreateEnsure
  <2>1. making.profile \in Profiles
    BY <1>1 DEF CreateEnsure, TypeInv, CallsInv
  <2> QED BY <1>1, <2>1, EnsureLast DEF CreateEnsure, TypeInv
<1>2. CASE ReconcileEnsure
  <2>1. recon.profile \in Profiles
    BY <1>2 DEF ReconcileEnsure, TypeInv, CallsInv
  <2> QED BY <1>2, <2>1, EnsureLast DEF ReconcileEnsure, TypeInv
<1>3. CASE DestroyDelete \/ ReconcileClean \/ GarbageCollectDelete
  <2>1. UNCHANGED node /\ (Delete \/ UNCHANGED cluster)
    BY <1>3 DEF DestroyDelete, ReconcileClean, GarbageCollectDelete
  <2>2. UNCHANGED <<created, everArmed>>
    BY <2>1 DEF Delete, cluster, node
  <2> QED BY <2>1, <2>2, DeleteLast, SameLast DEF cluster, TypeInv
<1>4. CASE Rearm
  <2>1. PICK ns \in Namespaces :
           /\ CellPodAt(ns)
           /\ pods' = [pods EXCEPT ![ns].profile = rearm.profile,
                                   ![ns].armed = FALSE]
    BY <1>4 DEF Rearm
  <2>2. pods[ns] # NoPod /\ pods[ns] \in Pod
    BY <2>1 DEF CellPodAt, Occupied, TypeInv, TypeOK
  <2>3. /\ pods'[ns].id = pods[ns].id
        /\ \A m \in Namespaces \ {ns} : pods'[m] = pods[m]
    BY <2>1, <2>2 DEF TypeInv, TypeOK, Pod
  <2> QED BY <1>4, <2>2, <2>3, SameLast DEF Rearm, node
<1>5. ASSUME NEW ns \in Namespaces, ClusterStep(ns)
      PROVE  LastPod'
  <2>1. pods[ns] # NoPod => pods[ns] \in Pod
    BY DEF TypeInv, TypeOK
  <2>2. /\ pods'[ns] # NoPod => /\ pods[ns] # NoPod
                                /\ pods'[ns].id = pods[ns].id
        /\ \A m \in Namespaces \ {ns} : pods'[m] = pods[m]
    BY <1>5, <2>1 DEF ClusterStep, GateOpens, PodEnds, EvictPod, PodGone, Live,
                      TypeInv, TypeOK, Pod
  <2> QED BY <1>5, <2>2, SameLast
          DEF ClusterStep, GateOpens, PodEnds, EvictPod, PodGone, node
<1>6. CASE \/ \E profile \in Profiles : Create(profile)
           \/ CreateFails \/ CreateApply \/ Destroy \/ DestroyDeleteFails
           \/ DestroyFinish \/ Reconcile \/ ReconcileObserve
           \/ ReconcileEnsureFails \/ ReconcileApply \/ GarbageCollect
           \/ GarbageCollectFails \/ Restart \/ UNCHANGED vars
           \/ \E profile \in Profiles : ApplyPolicy(profile)
           \/ RearmFails \/ RetainPolicy \/ PublishPolicy
  <2>1. UNCHANGED <<pods, created, everArmed>>
    BY <1>6 DEF Create, CreateFails, CreateApply, Destroy, DestroyDeleteFails,
                DestroyFinish, Reconcile, ReconcileObserve,
                ReconcileEnsureFails, ReconcileApply, GarbageCollect,
                GarbageCollectFails, Restart, ApplyPolicy, RearmFails,
                RetainPolicy, PublishPolicy, vars, cluster, node
  <2> QED BY <2>1 DEF LastPod
<1>7. CASE OperatorStep
  <2>1. UNCHANGED <<pods, created, everArmed>>
    BY <1>7 DEF OperatorStep, Attach, Detach, UpdateAgent, Heartbeat, Prompt,
                Pause, Resume, AcceptReview, RejectReview, Touch, ApproveReview,
                FinishCommit, PutSecret, cluster, node
  <2> QED BY <2>1 DEF LastPod
<1> QED BY <1>1, <1>2, <1>3, <1>4, <1>5, <1>6, <1>7, NodeLast
        DEF Next, CreateStep, DestroyStep, ReconcileStep, PolicyStep

\* The agent of the first pod never starts before its kernel was armed, for any
\* number of pods, nodes and profiles and whatever fails, when the profiles
\* share one namespace (FirstPodGated).  Where a policy may move a cell to
\* another namespace it does not hold: Rearm leaves the pod where it is, and
\* Ensure then makes a second one, whose receipt opens the gate of the first.
THEOREM FirstPodIsGated ==
    ASSUME NEW x, Namespaces = {x}
    PROVE  Spec => []FirstPodGated
<1>1. Init => QuietInv /\ LastPod
  BY DEF Init, QuietInv, Quiet, StoreQuiet, CallsQuiet, PodsQuiet, PostsQuiet,
         Unarmed, LastPod, NotMaking, NoRecon, IdlePost
<1>2. TypeInv /\ QuietInv /\ LastPod => FirstPodGated
  <2> SUFFICES ASSUME TypeInv, QuietInv, LastPod, NEW ns \in Namespaces,
                      pods[ns] # NoPod, pods[ns].id = 1,
                      pods[ns].phase = "running"
               PROVE  \E e \in everArmed : e.id = 1
    BY DEF FirstPodGated
  <2>1. created = 1
    BY DEF LastPod
  <2>2. everArmed # {}
    BY DEF QuietInv, Quiet, PodsQuiet
  <2> QED BY <2>1, <2>2 DEF LastPod
<1>3. TypeInv /\ LastPod /\ [Next]_vars => LastPod'
  BY LastStep
<1> QED BY <1>1, <1>2, <1>3, TypeInvariant, QuietStep, PTL DEF Spec
=============================================================================
