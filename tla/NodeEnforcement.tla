-------------------------- MODULE NodeEnforcement --------------------------
(***************************************************************************)
(* One node: the agent's reconcile loop (nodeagent agent.go), the program  *)
(* loader (loader.go, file_rules.go) and the kernel maps and gates it      *)
(* fills (programs/mercutio.hzn).                                          *)
(*                                                                         *)
(* Every class of profiles has its own collection of maps and programs.    *)
(* Arm fills the maps of a cell's class entry by entry, attaches gates,    *)
(* makes the new entry current and only then retires the one it replaces;  *)
(* an update that fails is rolled back.  The loader's lock and the single  *)
(* reconcile goroutine serialise these operations, but pods, policies and  *)
(* the processes that the gates judge move between any two map updates, so *)
(* every update is an action.  A loop of deletes, whose errors the code    *)
(* ignores, is one action for each kind of entry.                          *)
(***************************************************************************)
EXTENDS Integers, FiniteSets

CONSTANTS Cells, Pods, Cgroups, Policies, Addresses, Files,
          PodOf,      \* the pod a cgroup belongs to
          Class,      \* the class of a policy's profile
          Egress,     \* the addresses a policy's destinations may resolve to
          Family,     \* the connect hook that sees an address
          Private,    \* private, link-local and loopback addresses
          Metadata,   \* the addresses of the cloud's metadata service
          None,       \* no pod, no policy, no cell
          MaxChanges, \* bound: policy changes and evictions
          MaxFaults   \* bound: failed updates and posts, pods that
                      \* discovery skips, restarts of the agent

Classes == {"strict", "standard", "open"}
Hooks == {"connect4", "connect6"}
NetKeys == Cgroups \X Addresses
FileKeys == Cgroups \X Files

ASSUME NodeAssumption ==
    /\ PodOf \in [Cgroups -> Pods]
    /\ Class \in [Policies -> Classes]
    /\ Egress \in [Policies -> SUBSET Addresses]
    /\ Family \in [Addresses -> Hooks]
    /\ Private \subseteq Addresses /\ Metadata \subseteq Private
    /\ \A a \in Metadata : Family[a] = "connect4"
    /\ None \notin Pods \cup Policies \cup Cells
    /\ MaxChanges \in Nat /\ MaxFaults \in Nat

VARIABLES
    pod,      \* the pod of each cell on this node
    live,     \* the cgroups of the running pods
    policy,   \* the policy the control plane wants for each cell
    draining, \* the cells that were destroyed
    scope,    \* CellScope: the cell of each cgroup, by class
    net,      \* NetAllow and Net6Allow
    file,     \* FileRules with the verdict deny
    lsm,      \* execLSM and fileLSM: the LSM programs attached, by class
    loaded,   \* ProgramManager.cells
    op,       \* the loader operation or the post under way
    armed,    \* Agent.armed, the fingerprint as the listing it is made from
    pass,     \* the reconcile pass under way, or the last one
    mishaps,  \* history: what went wrong with which cell
    changes, faults

vars == <<pod, live, policy, draining, scope, net, file, lsm, loaded, op,
          armed, pass, mishaps, changes, faults>>
cluster == <<pod, live, policy, draining, changes>>
kernel == <<scope, net, file, lsm>>

(* What ListCells says of a cell, and what the loader keeps of it.         *)
NotListed == [pod |-> None, cgroups |-> {}, policy |-> None]
Listings == [pod : Pods, cgroups : SUBSET Cgroups, policy : Policies]
NotLoaded == [on |-> NotListed, links |-> {}, net |-> {}, file |-> {}]
LoadedCell == [on : Listings, links : SUBSET Hooks, net : SUBSET NetKeys,
               file : SUBSET FileKeys]

NoOp == [step |-> "none", cell |-> None, next |-> NotLoaded,
         prev |-> NotLoaded, todo |-> {}]
ArmSteps == {"scopes", "files", "lsm", "net", "links"}
Steps == ArmSteps \cup {"none", "retire", "retireScopes", "rollback",
                        "rollbackScopes", "restore", "report", "refresh",
                        "disarmScopes", "finalize"}

(* What an operation has still to do in a step.                            *)
Entries(step) ==
    CASE step \in {"scopes", "restore"} -> Cgroups
      [] step \in {"files", "refresh"} -> FileKeys
      [] step = "net" -> NetKeys
      [] step = "lsm" -> {"exec", "file"}
      [] OTHER -> {}

ClassOf(r) == Class[r.on.policy]
Gates(k) == IF k = "open" THEN {"file"} ELSE {"exec", "file"}

TypeOK ==
    /\ pod \in [Cells -> Pods \cup {None}] /\ live \subseteq Cgroups
    /\ policy \in [Cells -> Policies] /\ draining \subseteq Cells
    /\ scope \in [Classes -> [Cgroups -> Cells \cup {None}]]
    /\ net \in [Classes -> SUBSET NetKeys]
    /\ file \in [Classes -> SUBSET FileKeys]
    /\ lsm \in [Classes -> SUBSET {"exec", "file"}]
    /\ \A k \in Classes : lsm[k] \subseteq Gates(k)
    /\ loaded \in [Cells -> LoadedCell \cup {NotLoaded}]
    /\ op = [step |-> op.step, cell |-> op.cell, next |-> op.next,
             prev |-> op.prev, todo |-> op.todo]
    /\ op.step \in Steps /\ op.cell \in Cells \cup {None}
    /\ op.next \in LoadedCell \cup {NotLoaded}
    /\ op.prev \in LoadedCell \cup {NotLoaded}
    /\ op.todo \subseteq Entries(op.step)
    /\ (op.step = "none") <=> (op = NoOp)
    /\ armed \in [Cells -> Listings \cup {NotListed}]
    /\ pass \in [active : BOOLEAN, failed : BOOLEAN,
                 listed : [Cells -> Listings \cup {NotListed}],
                 todo : SUBSET Cells, gone : SUBSET Cells]
    /\ mishaps \subseteq Cells \X {"skipped", "refused", "unrestored"}
    /\ changes \in 0..MaxChanges /\ faults \in 0..MaxFaults

Init ==
    /\ pod = [c \in Cells |-> None] /\ live = {} /\ draining = {}
    /\ policy \in [Cells -> Policies]
    /\ scope = [k \in Classes |-> [g \in Cgroups |-> None]]
    /\ net = [k \in Classes |-> {}] /\ file = [k \in Classes |-> {}]
    /\ lsm = [k \in Classes |-> {}]
    /\ loaded = [c \in Cells |-> NotLoaded] /\ op = NoOp
    /\ armed = [c \in Cells |-> NotListed]
    /\ pass = [active |-> FALSE, failed |-> FALSE, todo |-> {}, gone |-> {},
               listed |-> [c \in Cells |-> NotListed]]
    /\ mishaps = {} /\ changes = 0 /\ faults = 0

Fault == faults < MaxFaults /\ faults' = faults + 1

---------------------------------------------------------------------------
(* The cluster.  A pod has a fresh UID and so do its cgroups, which appear *)
(* one by one as its containers start.                                     *)

StartPod(c, u) ==
    /\ pod[c] = None /\ c \notin draining
    /\ \A d \in Cells : pod[d] # u
    /\ \A d \in Cells : u \notin {loaded[d].on.pod, armed[d].pod,
                                  pass.listed[d].pod}
    /\ u \notin {op.next.on.pod, op.prev.on.pod}
    /\ pod' = [pod EXCEPT ![c] = u]
    /\ UNCHANGED <<live, policy, draining, changes, kernel, loaded, op, armed,
                   pass, mishaps, faults>>

\* (A container that ends while its pod lives keeps its cgroup here.)
StartCgroup(g) ==
    /\ g \notin live
    /\ \E c \in Cells : pod[c] = PodOf[g]
    /\ live' = live \cup {g}
    /\ UNCHANGED <<pod, policy, draining, changes, kernel, loaded, op, armed,
                   pass, mishaps, faults>>

StopPod(c) ==
    /\ pod[c] # None /\ changes < MaxChanges
    /\ draining' \in {draining, draining \cup {c}}
    /\ pod' = [pod EXCEPT ![c] = None]
    /\ live' = {g \in live : PodOf[g] # pod[c]}
    /\ changes' = changes + 1
    /\ UNCHANGED <<policy, kernel, loaded, op, armed, pass, mishaps, faults>>

ChangePolicy(c, p) ==
    /\ p # policy[c] /\ c \notin draining /\ changes < MaxChanges
    /\ policy' = [policy EXCEPT ![c] = p]
    /\ changes' = changes + 1
    /\ UNCHANGED <<pod, live, draining, kernel, loaded, op, armed, pass,
                   mishaps, faults>>

---------------------------------------------------------------------------
(* Agent.Reconcile.                                                        *)

LiveOf(c) == {g \in live : PodOf[g] = pod[c]}
Running == {c \in Cells : pod[c] # None /\ LiveOf(c) # {}}
Now(c) == [pod |-> pod[c], cgroups |-> LiveOf(c), policy |-> policy[c]]

(* ListCells leaves out, without an error, a pod whose cgroups or mounts   *)
(* it could not read.  A listing that fails as a whole changes nothing.    *)
ListCells ==
    /\ ~pass.active
    /\ \E seen \in {Running} \cup {Running \ {c} : c \in Running} :
        /\ IF seen = Running THEN faults' = faults ELSE Fault
        /\ pass' = [active |-> TRUE, failed |-> FALSE, todo |-> seen,
                    gone |-> {c \in Cells \ seen : armed[c] # NotListed},
                    listed |-> [c \in Cells |->
                                IF c \in seen THEN Now(c) ELSE NotListed]]
        /\ mishaps' = mishaps \cup ((Running \ seen) \X {"skipped"})
    /\ UNCHANGED <<cluster, kernel, loaded, op, armed>>

\* Mutant: the fingerprint leaves the cgroups out.
FingerprintOfPod(l) == [l EXCEPT !.cgroups = {}]

(* cellFingerprint: what must change for Arm to be called again.           *)
Fingerprint(l) == l
Known(c) == Fingerprint(armed[c]) = Fingerprint(pass.listed[c])

Due(c) == op = NoOp /\ c \in pass.todo
Handled(c) == pass' = [pass EXCEPT !.todo = @ \ {c}]
Failed(c) ==
    pass' = [pass EXCEPT !.todo = @ \ {c}, !.gone = @ \ {c}, !.failed = TRUE]

(* Control.Armed: MarkArmed refuses a receipt for a policy that it no      *)
(* longer wants.                                                           *)
ReportArmed ==
    LET c == op.cell IN
    /\ op.step = "report" /\ op.next.on.policy = policy[c]
    /\ armed' = [armed EXCEPT ![c] = op.next.on]
    /\ Handled(c) /\ op' = NoOp
    /\ UNCHANGED <<cluster, kernel, loaded, mishaps, faults>>

ReportRefused ==
    LET c == op.cell IN
    /\ op.step = "report"
    /\ IF op.next.on.policy # policy[c] THEN faults' = faults ELSE Fault
    /\ Failed(c) /\ op' = NoOp
    /\ mishaps' = mishaps \cup {<<c, "refused">>}
    /\ UNCHANGED <<cluster, kernel, loaded, armed>>

EndPass ==
    /\ pass.active /\ op = NoOp /\ pass.todo = {} /\ pass.gone = {}
    /\ pass' = [pass EXCEPT !.active = FALSE]
    /\ UNCHANGED <<cluster, kernel, loaded, op, armed, mishaps, faults>>

---------------------------------------------------------------------------
(* Arm.  A cell that is loaded exactly as listed is only reported again;   *)
(* exec rules, which no cell owns, come before any entry of the cell.      *)

\* Mutant: Arm takes a cell of the same pod and policy for armed as listed.
AlreadyArmedSamePod(c) ==
    /\ Due(c) /\ ~Known(c)
    /\ loaded[c].on.pod = pass.listed[c].pod
    /\ loaded[c].on.policy = pass.listed[c].policy
    /\ op' = [NoOp EXCEPT !.step = "report", !.cell = c,
                          !.next = [loaded[c] EXCEPT !.on = pass.listed[c]]]
    /\ UNCHANGED <<cluster, kernel, loaded, armed, pass, mishaps, faults>>

AlreadyArmed(c) ==
    /\ Due(c) /\ ~Known(c) /\ loaded[c].on = pass.listed[c]
    /\ op' = [NoOp EXCEPT !.step = "report", !.cell = c, !.next = loaded[c]]
    /\ UNCHANGED <<cluster, kernel, loaded, armed, pass, mishaps, faults>>

MustArm(c) == Due(c) /\ ~Known(c) /\ loaded[c].on # pass.listed[c]

ArmBegins(c) ==
    /\ MustArm(c)
    /\ op' = [step |-> "scopes", cell |-> c,
              next |-> [NotLoaded EXCEPT !.on = pass.listed[c]],
              prev |-> loaded[c], todo |-> pass.listed[c].cgroups]
    /\ UNCHANGED <<cluster, kernel, loaded, armed, pass, mishaps, faults>>

ExecRulesFail(c) ==
    /\ MustArm(c) /\ Fault /\ Failed(c)
    /\ UNCHANGED <<cluster, kernel, loaded, op, armed, mishaps>>

K == ClassOf(op.next)

UpdateCellScope(g) ==
    /\ op.step = "scopes" /\ g \in op.todo
    /\ scope' = [scope EXCEPT ![K][g] = op.cell]
    /\ op' = [op EXCEPT !.todo = @ \ {g}]
    /\ UNCHANGED <<cluster, net, file, lsm, loaded, armed, pass, mishaps,
                   faults>>

(* A file found in the pod is denied to every cgroup of the cell.          *)
CollectFileRules ==
    /\ op.step = "scopes" /\ op.todo = {} /\ K # "open"
    /\ \E found \in SUBSET Files :
        op' = [op EXCEPT !.step = "files",
                         !.todo = op.next.on.cgroups \X found]
    /\ UNCHANGED <<cluster, kernel, loaded, armed, pass, mishaps, faults>>

UpdateFileRule(key) ==
    /\ op.step \in {"files", "refresh"} /\ key \in op.todo
    /\ file' = [file EXCEPT ![K] = @ \cup {key}]
    /\ op' = [op EXCEPT !.todo = @ \ {key}, !.next.file = @ \cup {key}]
    /\ UNCHANGED <<cluster, scope, net, lsm, loaded, armed, pass, mishaps,
                   faults>>

\* Mutant: every class attaches both LSM programs.
NeedGatesBoth ==
    /\ \/ op.step = "files" /\ op.todo = {}
       \/ op.step = "scopes" /\ op.todo = {} /\ K = "open"
    /\ op' = [op EXCEPT !.step = "lsm", !.todo = {"exec", "file"} \ lsm[K]]
    /\ UNCHANGED <<cluster, kernel, loaded, armed, pass, mishaps, faults>>

NeedGates ==
    /\ \/ op.step = "files" /\ op.todo = {}
       \/ op.step = "scopes" /\ op.todo = {} /\ K = "open"
    /\ op' = [op EXCEPT !.step = "lsm", !.todo = Gates(K) \ lsm[K]]
    /\ UNCHANGED <<cluster, kernel, loaded, armed, pass, mishaps, faults>>

(* The exec gate comes first; LSM programs stay attached until the agent   *)
(* ends.                                                                   *)
AttachLsm(gate) ==
    /\ op.step = "lsm" /\ gate \in op.todo
    /\ gate = "file" => "exec" \notin op.todo
    /\ lsm' = [lsm EXCEPT ![K] = @ \cup {gate}]
    /\ op' = [op EXCEPT !.todo = @ \ {gate}]
    /\ UNCHANGED <<cluster, scope, net, file, loaded, armed, pass, mishaps,
                   faults>>

(* What the destinations of the policy resolve to at this moment: once for  *)
(* all cgroups, where the code asks again for each of them.                 *)
ResolveNetKeys ==
    /\ op.step = "lsm" /\ op.todo = {}
    /\ \E found \in SUBSET Egress[op.next.on.policy] :
        /\ found = {} => Egress[op.next.on.policy] = {}
        /\ op' = [op EXCEPT !.step = "net",
                            !.todo = op.next.on.cgroups \X found]
    /\ UNCHANGED <<cluster, kernel, loaded, armed, pass, mishaps, faults>>

UpdateNetAllow(key) ==
    /\ op.step = "net" /\ key \in op.todo
    /\ net' = [net EXCEPT ![K] = @ \cup {key}]
    /\ op' = [op EXCEPT !.todo = @ \ {key}, !.next.net = @ \cup {key}]
    /\ UNCHANGED <<cluster, scope, file, lsm, loaded, armed, pass, mishaps,
                   faults>>

(* A link belongs to the record that holds it: a second link of the same   *)
(* program keeps the gate in place when the first is closed.               *)
AttachConnect(hook) ==
    /\ \/ op.step = "net" /\ op.todo = {} /\ hook = "connect4"
       \/ op.step = "links" /\ hook = "connect6" /\ hook \notin op.next.links
    /\ op' = [op EXCEPT !.step = "links", !.next.links = @ \cup {hook}]
    /\ UNCHANGED <<cluster, kernel, loaded, armed, pass, mishaps, faults>>

(* The attempt becomes the loaded cell.                                    *)
Commit ==
    /\ op.step = "links" /\ op.next.links = Hooks
    /\ loaded' = [loaded EXCEPT ![op.cell] = op.next]
    /\ op' = [op EXCEPT !.step = IF op.prev = NotLoaded THEN "report"
                                 ELSE "retire"]
    /\ mishaps' = mishaps \ {<<op.cell, "unrestored">>}
    /\ UNCHANGED <<cluster, kernel, armed, pass, faults>>

(* The entries of "mine" that a record of the same collection shares.      *)
SameCollection == op.prev # NotLoaded /\ ClassOf(op.prev) = K
Kept(mine, other) == IF SameCollection THEN mine \cap other ELSE {}

RetireEntries ==
    LET k == ClassOf(op.prev) IN
    /\ op.step = "retire"
    /\ net' = [net EXCEPT ![k] =
               @ \ (op.prev.net \ Kept(op.prev.net, op.next.net))]
    /\ file' = [file EXCEPT ![k] =
                @ \ (op.prev.file \ Kept(op.prev.file, op.next.file))]
    /\ op' = [op EXCEPT !.step = "retireScopes", !.prev.links = {}]
    /\ UNCHANGED <<cluster, scope, lsm, loaded, armed, pass, mishaps, faults>>

Unscoped(k, gone) ==
    [scope EXCEPT ![k] = [g \in Cgroups |-> IF g \in gone THEN None
                                            ELSE scope[k][g]]]

\* Mutant: retireLoaded deletes scopes that the replacement shares.
RetireScopesAll ==
    /\ op.step = "retireScopes"
    /\ scope' = Unscoped(ClassOf(op.prev), op.prev.on.cgroups)
    /\ op' = [op EXCEPT !.step = "report", !.prev = NotLoaded]
    /\ UNCHANGED <<cluster, net, file, lsm, loaded, armed, pass, mishaps,
                   faults>>

RetireScopes ==
    LET old == op.prev.on.cgroups IN
    /\ op.step = "retireScopes"
    /\ scope' = Unscoped(ClassOf(op.prev),
                         old \ Kept(old, op.next.on.cgroups))
    /\ op' = [op EXCEPT !.step = "report", !.prev = NotLoaded]
    /\ UNCHANGED <<cluster, net, file, lsm, loaded, armed, pass, mishaps,
                   faults>>

---------------------------------------------------------------------------
(* rollbackArm, after any call of Arm failed.                              *)

ArmFails ==
    /\ op.step \in ArmSteps
    /\ op.step = "links" => op.next.links # Hooks
    /\ Fault
    /\ op' = [op EXCEPT !.step = "rollback", !.todo = {}]
    /\ UNCHANGED <<cluster, kernel, loaded, armed, pass, mishaps>>

\* Mutant: rollbackArm deletes entries that the previous record shares.
RollBackEntriesAll ==
    /\ op.step = "rollback"
    /\ net' = [net EXCEPT ![K] = @ \ op.next.net]
    /\ file' = [file EXCEPT ![K] = @ \ op.next.file]
    /\ op' = [op EXCEPT !.step = "rollbackScopes", !.next.links = {}]
    /\ UNCHANGED <<cluster, scope, lsm, loaded, armed, pass, mishaps, faults>>

RollBackEntries ==
    /\ op.step = "rollback"
    /\ net' = [net EXCEPT ![K] =
               @ \ (op.next.net \ Kept(op.next.net, op.prev.net))]
    /\ file' = [file EXCEPT ![K] =
                @ \ (op.next.file \ Kept(op.next.file, op.prev.file))]
    /\ op' = [op EXCEPT !.step = "rollbackScopes", !.next.links = {}]
    /\ UNCHANGED <<cluster, scope, lsm, loaded, armed, pass, mishaps, faults>>

RollBackScopes ==
    /\ op.step = "rollbackScopes"
    /\ scope' = Unscoped(K, op.next.on.cgroups)
    /\ IF SameCollection
       THEN /\ op' = [op EXCEPT !.step = "restore",
                                !.todo = op.prev.on.cgroups]
            /\ pass' = pass
       ELSE op' = NoOp /\ Failed(op.cell)
    /\ UNCHANGED <<cluster, net, file, lsm, loaded, armed, mishaps, faults>>

(* The error of an update that restores a scope is ignored.                *)
RestoreCellScope(g) ==
    LET c == op.cell IN
    /\ op.step = "restore" /\ g \in op.todo
    /\ \/ /\ scope' = [scope EXCEPT ![K][g] = c]
          /\ UNCHANGED <<mishaps, faults>>
       \/ /\ Fault
          /\ mishaps' = mishaps \cup {<<c, "unrestored">>}
          /\ UNCHANGED scope
    /\ op' = [op EXCEPT !.todo = @ \ {g}]
    /\ UNCHANGED <<cluster, net, file, lsm, loaded, armed, pass>>

Restored ==
    /\ op.step = "restore" /\ op.todo = {}
    /\ op' = NoOp /\ Failed(op.cell)
    /\ UNCHANGED <<cluster, kernel, loaded, armed, mishaps, faults>>

---------------------------------------------------------------------------
(* RefreshRules, for a cell whose listing has not changed: new files are   *)
(* added, then the rules of files that are gone are deleted.               *)

MustRefresh(c) == Due(c) /\ Known(c)
HasFileRules(c) == loaded[c] # NotLoaded /\ ClassOf(loaded[c]) # "open"

RefreshNothing(c) ==
    /\ MustRefresh(c) /\ ~HasFileRules(c) /\ Handled(c)
    /\ UNCHANGED <<cluster, kernel, loaded, op, armed, mishaps, faults>>

RefreshBegins(c) ==
    /\ MustRefresh(c) /\ HasFileRules(c)
    /\ \E found \in SUBSET Files :
        op' = [step |-> "refresh", cell |-> c,
               next |-> [loaded[c] EXCEPT !.file = {}], prev |-> loaded[c],
               todo |-> loaded[c].on.cgroups \X found]
    /\ UNCHANGED <<cluster, kernel, loaded, armed, pass, mishaps, faults>>

CollectFails(c) ==
    /\ MustRefresh(c) /\ HasFileRules(c) /\ Fault /\ Failed(c)
    /\ UNCHANGED <<cluster, kernel, loaded, op, armed, mishaps>>

RefreshFails ==
    /\ op.step = "refresh" /\ op.todo # {} /\ Fault
    /\ file' = [file EXCEPT ![K] = @ \ (op.next.file \ op.prev.file)]
    /\ op' = NoOp /\ Failed(op.cell)
    /\ UNCHANGED <<cluster, scope, net, lsm, loaded, armed, mishaps>>

RefreshEnds ==
    /\ op.step = "refresh" /\ op.todo = {}
    /\ file' = [file EXCEPT ![K] = @ \ (op.prev.file \ op.next.file)]
    /\ loaded' = [loaded EXCEPT ![op.cell].file = op.next.file]
    /\ op' = NoOp /\ Handled(op.cell)
    /\ UNCHANGED <<cluster, scope, net, lsm, armed, mishaps, faults>>

---------------------------------------------------------------------------
(* Disarm and the drain receipt, for armed cells that were not listed.     *)

MustDisarm(c) == op = NoOp /\ pass.todo = {} /\ c \in pass.gone

DisarmEntries(c) ==
    LET k == ClassOf(loaded[c]) IN
    /\ MustDisarm(c) /\ loaded[c] # NotLoaded
    /\ net' = [net EXCEPT ![k] = @ \ loaded[c].net]
    /\ file' = [file EXCEPT ![k] = @ \ loaded[c].file]
    /\ loaded' = [loaded EXCEPT ![c].links = {}]
    /\ op' = [NoOp EXCEPT !.step = "disarmScopes", !.cell = c,
                          !.prev = loaded[c]]
    /\ UNCHANGED <<cluster, scope, lsm, armed, pass, mishaps, faults>>

DisarmScopes ==
    LET c == op.cell IN
    /\ op.step = "disarmScopes"
    /\ scope' = Unscoped(ClassOf(loaded[c]), loaded[c].on.cgroups)
    /\ loaded' = [loaded EXCEPT ![c] = NotLoaded]
    /\ op' = [NoOp EXCEPT !.step = "finalize", !.cell = c]
    /\ UNCHANGED <<cluster, net, file, lsm, armed, pass, mishaps, faults>>

DisarmNothing(c) ==
    /\ MustDisarm(c) /\ loaded[c] = NotLoaded
    /\ op' = [NoOp EXCEPT !.step = "finalize", !.cell = c]
    /\ UNCHANGED <<cluster, kernel, loaded, armed, pass, mishaps, faults>>

(* MarkDisarmed refuses a cell that is not draining.                       *)
FinalizeDisarm ==
    LET c == op.cell IN
    /\ op.step = "finalize" /\ c \in draining
    /\ armed' = [armed EXCEPT ![c] = NotListed]
    /\ pass' = [pass EXCEPT !.gone = @ \ {c}] /\ op' = NoOp
    /\ UNCHANGED <<cluster, kernel, loaded, mishaps, faults>>

FinalizeRefused ==
    /\ op.step = "finalize"
    /\ IF op.cell \notin draining THEN faults' = faults ELSE Fault
    /\ Failed(op.cell) /\ op' = NoOp
    /\ UNCHANGED <<cluster, kernel, loaded, armed, mishaps>>

(* The maps, programs and links of an agent that ends go with it.          *)
AgentRestarts ==
    /\ Fault
    /\ scope' = [k \in Classes |-> [g \in Cgroups |-> None]]
    /\ net' = [k \in Classes |-> {}] /\ file' = [k \in Classes |-> {}]
    /\ lsm' = [k \in Classes |-> {}]
    /\ loaded' = [c \in Cells |-> NotLoaded] /\ op' = NoOp
    /\ armed' = [c \in Cells |-> NotListed]
    /\ pass' = [active |-> FALSE, failed |-> FALSE, todo |-> {}, gone |-> {},
                listed |-> [c \in Cells |-> NotListed]]
    /\ UNCHANGED <<cluster, mishaps>>

---------------------------------------------------------------------------
Cluster ==
    \/ \E c \in Cells, u \in Pods : StartPod(c, u)
    \/ \E g \in Cgroups : StartCgroup(g)
    \/ \E c \in Cells : StopPod(c)
    \/ \E c \in Cells, p \in Policies : ChangePolicy(c, p)

(* The steps of the agent that succeed, and what may go wrong instead.     *)
Progress ==
    \/ ListCells \/ EndPass
    \/ \E c \in Cells : \/ AlreadyArmed(c) \/ ArmBegins(c)
                        \/ RefreshNothing(c) \/ RefreshBegins(c)
                        \/ DisarmEntries(c) \/ DisarmNothing(c)
    \/ \E g \in Cgroups : UpdateCellScope(g) \/ RestoreCellScope(g)
    \/ CollectFileRules \/ \E key \in FileKeys : UpdateFileRule(key)
    \/ NeedGates \/ \E gate \in {"exec", "file"} : AttachLsm(gate)
    \/ ResolveNetKeys \/ \E key \in NetKeys : UpdateNetAllow(key)
    \/ \E hook \in Hooks : AttachConnect(hook)
    \/ Commit \/ RetireEntries \/ RetireScopes \/ ReportArmed
    \/ RollBackEntries \/ RollBackScopes \/ Restored
    \/ RefreshEnds \/ DisarmScopes \/ FinalizeDisarm

Setback ==
    \/ ReportRefused \/ ArmFails \/ RefreshFails \/ FinalizeRefused
    \/ \E c \in Cells : ExecRulesFail(c) \/ CollectFails(c)
    \/ AgentRestarts

Next == Cluster \/ Progress \/ Setback

(* The ticker and the loader never stop: the agent takes its next step.    *)
Fairness == WF_vars(Progress \/ ReportRefused \/ FinalizeRefused)

Spec == Init /\ [][Next]_vars /\ Fairness

---------------------------------------------------------------------------
(* What the gates decide for a process in cgroup g.  Gates of several      *)
(* classes may be attached to one cgroup; each has to let the call pass.   *)

Records == {loaded[c] : c \in Cells} \cup {op.next, op.prev}
Scoped(k, g) == scope[k][g] # None
Hooked(k, g, hook) ==
    \E r \in Records : /\ r # NotLoaded /\ hook \in r.links
                       /\ ClassOf(r) = k /\ r.on.pod = PodOf[g]

ConnectVerdict(k, g, a) ==
    IF k = "open" THEN "allow"
    ELSE IF a \in Metadata THEN "deny"
    ELSE IF <<g, a>> \in net[k] THEN "allow"
    ELSE IF a \notin Private /\ k = "standard" THEN "ask"
    ELSE "deny"

ConnectAllowed(g, a) ==
    \A k \in Classes : Scoped(k, g) /\ Hooked(k, g, Family[a])
                       => ConnectVerdict(k, g, a) = "allow"

OpenAllowed(g, f) ==
    \A k \in Classes \ {"open"} :
        Scoped(k, g) /\ "file" \in lsm[k] => <<g, f>> \notin file[k]

ExecGated(g) == \E k \in Classes : Scoped(k, g) /\ "exec" \in lsm[k]

---------------------------------------------------------------------------
(* Properties.                                                             *)

(* The kernel judges every process of the listing as its policy says.      *)
Enforced(c, l) ==
    LET k == Class[l.policy] IN
    /\ loaded[c].on = l
    /\ \A g \in l.cgroups : /\ scope[k][g] = c
                            /\ \A hook \in Hooks : Hooked(k, g, hook)
    /\ Gates(k) \subseteq lsm[k]
    /\ loaded[c].net \subseteq net[k] /\ loaded[c].file \subseteq file[k]

KeysOf(cgroups, keys) == {key \in keys : key[1] \in cgroups}

(* From the moment a contained cell is loaded until it is disarmed - while *)
(* it is armed again for new containers or for another policy of any       *)
(* class, while that fails and is rolled back, while its file rules are    *)
(* refreshed - its processes reach no address that neither its policy nor  *)
(* the one being installed resolved to, open no file that was found to be  *)
(* sensitive and start nothing past the exec gate (Arm, retireLoaded,      *)
(* rollbackArm, RefreshRules).  The exception is the moment in which       *)
(* rollbackArm has deleted the scopes and not yet put them back, or failed *)
(* to.                                                                     *)
Contained ==
    \A c \in Cells :
        LET r == loaded[c]
            mine == op.cell = c
            nets == IF mine THEN r.net \cup op.next.net \cup op.prev.net
                    ELSE r.net IN
        (/\ r # NotLoaded /\ ClassOf(r) # "open"
         /\ ~(mine /\ op.step \in {"restore", "disarmScopes"})
         /\ <<c, "unrestored">> \notin mishaps)
        => \A g \in r.on.cgroups :
            /\ \A a \in Addresses :
                ConnectAllowed(g, a) => <<g, a>> \in nets /\ a \notin Metadata
            /\ \A f \in Files : <<g, f>> \in r.file => ~OpenAllowed(g, f)
            /\ ExecGated(g)

(* Between two operations the maps hold what the loaded cells own and      *)
(* nothing else: no allow-list entry, file rule or scope survives a failed *)
(* arm, a replacement, a refresh or a disarm (rollbackArm, retireLoaded,   *)
(* disarmLoaded, RefreshRules).                                            *)
NothingLeftBehind ==
    op = NoOp =>
    \A k \in Classes :
        LET mine == {c \in Cells : loaded[c] # NotLoaded
                                   /\ ClassOf(loaded[c]) = k} IN
        /\ net[k] = UNION {loaded[c].net : c \in mine}
        /\ file[k] = UNION {loaded[c].file : c \in mine}
        /\ \A g \in Cgroups :
            /\ scope[k][g] # None
               => scope[k][g] \in mine /\ g \in loaded[scope[k][g]].on.cgroups
            /\ \A c \in mine : /\ g \in loaded[c].on.cgroups
                               /\ <<c, "unrestored">> \notin mishaps
                               => scope[k][g] = c

(* "The receipt is deliberately sent only after maps and links are live"   *)
(* (agent.go:77), and the drain receipt only after nothing of the cell is  *)
(* left in the kernel.                                                     *)
ReceiptsAreTrue ==
    [][\A c \in Cells :
        /\ armed'[c] # armed[c]
        /\ <<c, "unrestored">> \notin mishaps
        => IF armed'[c] # NotListed THEN Enforced(c, armed[c])'
           ELSE LET gone == armed[c].cgroups IN
                \A k \in Classes : /\ KeysOf(gone, net'[k]) = {}
                                   /\ KeysOf(gone, file'[k]) = {}
                                   /\ \A g \in Cgroups : scope'[k][g] # c
      ]_vars

(* A cell that keeps running ends up enforced with all of its containers   *)
(* and under the policy that is wanted, however often arming fails         *)
(* ("eventually consistent while the pod and cgroup appear", agent.go:33)  *)
(* - provided that discovery never skips it and that no receipt of it is   *)
(* refused: otherwise see PassEnforces.                                    *)
Converges ==
    \A c \in Cells :
        [](\A what \in {"skipped", "refused", "unrestored"} :
               <<c, what>> \notin mishaps)
        /\ <>[](c \in Running)
        => <>[](Enforced(c, Now(c)))

(* "A failed pass must not prevent later fail-closed retries"              *)
(* (agent.go:34): a pass that ends without a failure leaves every cell it  *)
(* listed enforced as listed, whatever failed before.  False: if the       *)
(* policy is changed and changed back while the first change is being      *)
(* armed, its receipt is refused, the listing is again the one that was    *)
(* last recorded as armed, and the loader keeps the other policy.          *)
PassEnforces ==
    ~pass.active /\ ~pass.failed =>
    \A c \in Cells : pass.listed[c] # NotListed
                     => loaded[c].on = pass.listed[c]

=============================================================================
