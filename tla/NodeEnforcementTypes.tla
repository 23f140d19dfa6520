----------------------- MODULE NodeEnforcementTypes -----------------------
(***************************************************************************)
(* The loader and the maps of NodeEnforcement stay typed, and the operation *)
(* in progress keeps the shape its step calls for.                          *)
(***************************************************************************)
EXTENDS NodeEnforcement, TLAPS

\* The types of the agent's bookkeeping: a pass over the listed cells and the
\* operation it is inside, by the source's own call it stands at.
Todos == Cgroups \cup FileKeys \cup NetKeys \cup {"exec", "file"}
AnyRecord == LoadedCell \cup {NotLoaded}
AnyListing == Listings \cup {NotListed}
OpType == [step : Steps, cell : Cells \cup {None}, next : AnyRecord,
           prev : AnyRecord, todo : SUBSET Todos]
PassType == [active : BOOLEAN, failed : BOOLEAN, listed : [Cells -> AnyListing],
             todo : SUBSET Cells, gone : SUBSET Cells]

\* The five parts of the typing: the cluster, the maps of the four loaded
\* collections, the agent's own tables and the operation in progress.
ClusterTypes ==
    /\ pod \in [Cells -> Pods \cup {None}] /\ live \subseteq Cgroups
    /\ policy \in [Cells -> Policies] /\ draining \subseteq Cells
    /\ changes \in 0..MaxChanges
KernelTypes ==
    /\ scope \in [Classes -> [Cgroups -> Cells \cup {None}]]
    /\ net \in [Classes -> SUBSET NetKeys]
    /\ file \in [Classes -> SUBSET FileKeys]
    /\ lsm \in [Classes -> SUBSET {"exec", "file"}]
    /\ \A k \in Classes : lsm[k] \subseteq Gates(k)
AgentTypes ==
    /\ loaded \in [Cells -> AnyRecord] /\ armed \in [Cells -> AnyListing]
    /\ pass \in PassType
    /\ mishaps \subseteq Cells \X {"skipped", "refused", "unrestored"}
    /\ faults \in 0..MaxFaults
OpTypes ==
    /\ op \in OpType /\ op.todo \subseteq Entries(op.step)
    /\ (op.step = "none") <=> (op = NoOp)

\* The steps of an arm attempt, its rollback included.
Attempting == ArmSteps \cup {"rollback", "rollbackScopes"}

\* What the operation in progress carries at each step: which record it
\* builds (next), which it replaces (prev) and what is left to write (todo).
\* This is the control state of Arm, Disarm and Refresh, which the code
\* keeps on its stack.
OpShape ==
    /\ op.step # "none" => op.cell \in Cells /\ pass.active
    /\ op.step \in Attempting \cup {"retire", "retireScopes", "restore",
                                    "report", "refresh"}
       => op.next \in LoadedCell
    /\ op.step \in {"retire", "retireScopes", "restore", "refresh"}
       => op.prev \in LoadedCell
    /\ op.step = "disarmScopes" => loaded[op.cell] \in LoadedCell
    /\ op.step = "finalize" => loaded[op.cell] = NotLoaded
    /\ op.step \in Attempting => op.prev = loaded[op.cell]
    /\ op.step \in {"restore", "refresh"} => op.prev = loaded[op.cell]
    /\ op.step \in {"retire", "retireScopes", "report"}
       => op.next = loaded[op.cell]
    /\ op.step = "restore" => ClassOf(op.prev) = K
    /\ op.step = "refresh" => /\ op.next.on = op.prev.on
                              /\ op.next.links = op.prev.links
                              /\ op.next.net = op.prev.net
    /\ op.step = "scopes" => op.todo \subseteq op.next.on.cgroups
    /\ op.step = "restore" => op.todo \subseteq op.prev.on.cgroups
    /\ op.step = "lsm" => op.todo \subseteq Gates(K)
    /\ op.step \in {"files", "refresh", "net"}
       => \A key \in op.todo : key[1] \in op.next.on.cgroups
\* A pass holds work only while it runs, and only on cells it listed.
PassShape ==
    /\ pass.todo \cup pass.gone # {} => pass.active
    /\ \A c \in pass.todo : pass.listed[c] \in Listings

Shape == OpShape /\ PassShape
Typed == ClusterTypes /\ KernelTypes /\ AgentTypes /\ OpTypes /\ Shape

\* A cell that is not loaded has no pod, no cgroup and no entry of any map.
LEMMA EmptyRecord ==
    /\ NotLoaded.on = NotListed /\ NotLoaded.links = {} /\ NotLoaded.net = {}
    /\ NotLoaded.file = {} /\ NotListed.pod = None /\ NotListed.cgroups = {}
    /\ NotListed.policy = None /\ NotLoaded \in AnyRecord
    /\ NotListed \notin Listings /\ NotLoaded \notin LoadedCell
BY NodeAssumption DEF LoadedCell, NotLoaded, NotListed, Listings, AnyRecord

\* A listed cell has a pod, cgroups and a policy with an enforcement class.
LEMMA FullListing ==
    ASSUME NEW l \in Listings
    PROVE  /\ l.pod \in Pods /\ l.pod # None /\ l.policy \in Policies
           /\ l.cgroups \subseteq Cgroups /\ l # NotListed
           /\ Class[l.policy] \in Classes
BY EmptyRecord, NodeAssumption DEF Listings

\* A loaded cell carries a listing and entries of the right maps.
LEMMA FullRecord ==
    ASSUME NEW r \in LoadedCell
    PROVE  /\ r = [on |-> r.on, links |-> r.links, net |-> r.net,
                   file |-> r.file]
           /\ r.on \in Listings /\ r.on.pod \in Pods /\ r.on.pod # None
           /\ r.on.policy \in Policies /\ r.on.cgroups \subseteq Cgroups
           /\ r.links \subseteq Hooks /\ r.net \subseteq NetKeys
           /\ r.file \subseteq FileKeys /\ r # NotLoaded
           /\ ClassOf(r) \in Classes
<1>1. r.on \in Listings
  BY DEF LoadedCell
<1>2. QED
  BY <1>1, EmptyRecord, FullListing DEF LoadedCell, ClassOf

\* Between operations nothing is carried over.
LEMMA EmptyOp ==
    /\ NoOp.step = "none" /\ NoOp.cell = None /\ NoOp.next = NotLoaded
    /\ NoOp.prev = NotLoaded /\ NoOp.todo = {} /\ NoOp \in OpType
BY DEF NoOp, OpType, AnyRecord, Steps

\* Handling a cell, or failing on it, takes it off the pass and nothing else.
LEMMA PassSteps ==
    ASSUME pass \in PassType, NEW c \in Cells, Handled(c) \/ Failed(c)
    PROVE  /\ pass' \in PassType
           /\ pass'.active = pass.active /\ pass'.listed = pass.listed
           /\ pass'.todo = pass.todo \ {c}
           /\ pass'.gone \subseteq pass.gone
<1>1. CASE Handled(c)
  BY <1>1 DEF Handled, PassType
<1>2. CASE Failed(c)
  BY <1>2 DEF Failed, PassType
<1>3. QED
  BY <1>1, <1>2

\* The bound on faults holds after one more fault.
LEMMA FaultTyped ==
    ASSUME faults \in 0..MaxFaults, Fault
    PROVE  faults' \in 0..MaxFaults
BY NodeAssumption DEF Fault

\* No step of the agent changes the cluster it watches.
LEMMA AgentFrame ==
    ASSUME Progress \/ Setback
    PROVE  UNCHANGED cluster
BY DEF Progress, Setback, ListCells, EndPass, AlreadyArmed, ArmBegins,
       RefreshNothing, RefreshBegins, DisarmEntries, DisarmNothing,
       UpdateCellScope, RestoreCellScope, CollectFileRules, UpdateFileRule,
       NeedGates, AttachLsm, ResolveNetKeys, UpdateNetAllow, AttachConnect,
       Commit, RetireEntries, RetireScopes, ReportArmed, RollBackEntries,
       RollBackScopes, Restored, RefreshEnds, DisarmScopes, FinalizeDisarm,
       ReportRefused, ArmFails, RefreshFails, FinalizeRefused, ExecRulesFail,
       CollectFails, AgentRestarts

\* No step of the cluster touches the kernel maps or the agent's tables.
LEMMA ClusterFrame ==
    ASSUME Cluster
    PROVE  UNCHANGED <<kernel, loaded, op, armed, pass, mishaps, faults>>
BY DEF Cluster, StartPod, StartCgroup, StopPod, ChangePolicy

\* The two records the proofs build: an operation by its fields, and a loaded
\* cell by its listing and the entries written for it.
Operation(step, cell, next, prev, todo) ==
    [step |-> step, cell |-> cell, next |-> next, prev |-> prev,
     todo |-> todo]
Record(on, links, nets, files) ==
    [on |-> on, links |-> links, net |-> nets, file |-> files]

\* A record built from a listing and typed entries is a loaded cell.
LEMMA RecordTyped ==
    ASSUME NEW r, NEW o \in Listings, NEW l \in SUBSET Hooks,
           NEW n \in SUBSET NetKeys, NEW f \in SUBSET FileKeys,
           r = Record(o, l, n, f)
    PROVE  r \in LoadedCell
BY DEF Record, LoadedCell

\* One lemma per action: the operation that action leaves, field by field.
\* Every later lemma reads the action from here. A cell that is already
\* armed goes straight to its receipt.
LEMMA AlreadyArmedOp ==
    ASSUME Typed, NEW c \in Cells, AlreadyArmed(c)
    PROVE  /\ op = NoOp
           /\ op' = Operation("report", c, loaded[c], NotLoaded, {})
           /\ loaded[c] \in LoadedCell /\ c \in pass.todo
           /\ pass.listed[c] \in Listings
<1>1. pass.listed[c] \in Listings /\ c \in pass.todo
  BY DEF AlreadyArmed, Due, Typed, Shape, OpShape, PassShape
<1>2. loaded[c] \in LoadedCell
  BY <1>1, EmptyRecord DEF AlreadyArmed, Typed, AgentTypes, AnyRecord
<1>3. op = NoOp /\ op' = Operation("report", c, loaded[c], NotLoaded, {})
  BY DEF AlreadyArmed, Due, NoOp, Operation
<1>4. QED
  BY <1>1, <1>2, <1>3

\* Arm starts from the listing of the pass with no entry written.
LEMMA ArmBeginsOp ==
    ASSUME Typed, NEW c \in Cells, ArmBegins(c)
    PROVE  /\ op = NoOp /\ c \in pass.todo /\ pass.listed[c] \in Listings
           /\ op' = Operation("scopes", c, op'.next, loaded[c],
                              pass.listed[c].cgroups)
           /\ op'.next = Record(pass.listed[c], {}, {}, {})
           /\ op'.next \in LoadedCell
           /\ pass.listed[c].cgroups \subseteq Cgroups
<1>1. pass.listed[c] \in Listings /\ c \in pass.todo /\ op = NoOp
  BY DEF ArmBegins, MustArm, Due, Typed, Shape, OpShape, PassShape
<1>2. /\ op' = Operation("scopes", c, op'.next, loaded[c],
                         pass.listed[c].cgroups)
      /\ op'.next = Record(pass.listed[c], {}, {}, {})
  BY DEF ArmBegins, NotLoaded, Operation, Record
<1>3. QED
  BY <1>1, <1>2, RecordTyped, FullListing

\* Writing one cell scope entry takes that cgroup off the work.
LEMMA UpdateCellScopeOp ==
    ASSUME Typed, NEW g \in Cgroups, UpdateCellScope(g)
    PROVE  op' = Operation("scopes", op.cell, op.next, op.prev, op.todo \ {g})
BY DEF UpdateCellScope, Typed, OpTypes, OpType, Operation

\* The file rules to write are those of the operation's own cgroups.
LEMMA CollectFileRulesOp ==
    ASSUME Typed, CollectFileRules
    PROVE  /\ op' = Operation("files", op.cell, op.next, op.prev, op'.todo)
           /\ op'.todo \subseteq op.next.on.cgroups \X Files
<1>1. PICK found \in SUBSET Files :
        op' = [op EXCEPT !.step = "files",
                         !.todo = op.next.on.cgroups \X found]
  BY DEF CollectFileRules
<1>2. op.next.on.cgroups \X found \subseteq op.next.on.cgroups \X Files
  OBVIOUS
<1>3. op' = Operation("files", op.cell, op.next, op.prev,
                      op.next.on.cgroups \X found)
  BY <1>1 DEF Typed, OpTypes, OpType, Operation
<1>4. QED
  BY <1>2, <1>3 DEF Operation

\* Writing one file rule adds its key to the record being built.
LEMMA UpdateFileRuleOp ==
    ASSUME Typed, NEW key \in FileKeys, UpdateFileRule(key)
    PROVE  /\ op' = Operation(op.step, op.cell, op'.next, op.prev,
                              op.todo \ {key})
           /\ op.next \in LoadedCell
           /\ op'.next = Record(op.next.on, op.next.links, op.next.net,
                                op.next.file \cup {key})
           /\ op'.next \in LoadedCell
           /\ op'.step = op.step /\ op'.cell = op.cell /\ op'.prev = op.prev
           /\ op'.next.on = op.next.on /\ op'.next.links = op.next.links
           /\ op'.next.net = op.next.net
           /\ op'.next.file = op.next.file \cup {key}
<1>1. op.next \in LoadedCell
  BY DEF UpdateFileRule, Typed, Shape, OpShape, PassShape, Attempting,
     ArmSteps
<1>2. /\ op' = Operation(op.step, op.cell, op'.next, op.prev, op.todo \ {key})
      /\ op'.next = Record(op.next.on, op.next.links, op.next.net,
                           op.next.file \cup {key})
  BY <1>1 DEF UpdateFileRule, Typed, OpTypes, OpType, LoadedCell, Operation,
              Record
<1>3. op'.step = op.step /\ op'.cell = op.cell /\ op'.prev = op.prev
  BY <1>2 DEF Operation
<1>4. op'.next = Record(op.next.on, op.next.links, op.next.net,
                         op.next.file \cup {key})
  BY <1>2
<1>5. /\ op'.next.on = op.next.on /\ op'.next.links = op.next.links
      /\ op'.next.net = op.next.net /\ op'.next.file = op.next.file \cup {key}
  BY <1>4 DEF Record
<1>6. op'.next \in LoadedCell
  BY <1>1, <1>2, RecordTyped, FullRecord
<1>7. QED
  BY <1>1, <1>2, <1>3, <1>5, <1>6

\* The LSM gates to attach are those the class needs and lacks.
LEMMA NeedGatesOp ==
    ASSUME Typed, NeedGates
    PROVE  op' = Operation("lsm", op.cell, op.next, op.prev, Gates(K) \ lsm[K])
BY DEF NeedGates, Typed, OpTypes, OpType, Operation

\* Attaching one LSM gate takes it off the work.
LEMMA AttachLsmOp ==
    ASSUME Typed, NEW gate \in {"exec", "file"}, AttachLsm(gate)
    PROVE  op' = Operation("lsm", op.cell, op.next, op.prev, op.todo \ {gate})
BY DEF AttachLsm, Typed, OpTypes, OpType, Operation

\* The addresses to allow are those of the operation's own cgroups.
LEMMA ResolveNetKeysOp ==
    ASSUME Typed, ResolveNetKeys
    PROVE  /\ op' = Operation("net", op.cell, op.next, op.prev, op'.todo)
           /\ op'.todo \subseteq op.next.on.cgroups \X Addresses
<1>1. Egress[op.next.on.policy] \subseteq Addresses
  BY NodeAssumption, FullRecord
  DEF ResolveNetKeys, Typed, Shape, OpShape, PassShape, Attempting, ArmSteps
<1>2. PICK found \in SUBSET Egress[op.next.on.policy] :
        op' = [op EXCEPT !.step = "net",
                         !.todo = op.next.on.cgroups \X found]
  BY DEF ResolveNetKeys
<1>3. op.next.on.cgroups \X found \subseteq op.next.on.cgroups \X Addresses
  BY <1>1
<1>4. op' = Operation("net", op.cell, op.next, op.prev,
                      op.next.on.cgroups \X found)
  BY <1>2 DEF Typed, OpTypes, OpType, Operation
<1>5. QED
  BY <1>3, <1>4 DEF Operation

\* Allowing one address adds its key to the record being built.
LEMMA UpdateNetAllowOp ==
    ASSUME Typed, NEW key \in NetKeys, UpdateNetAllow(key)
    PROVE  /\ op' = Operation("net", op.cell, op'.next, op.prev,
                              op.todo \ {key})
           /\ op.next \in LoadedCell
           /\ op'.next = Record(op.next.on, op.next.links,
                                op.next.net \cup {key}, op.next.file)
           /\ op'.next \in LoadedCell
           /\ op'.step = "net" /\ op'.cell = op.cell /\ op'.prev = op.prev
           /\ op'.next.on = op.next.on /\ op'.next.links = op.next.links
           /\ op'.next.net = op.next.net \cup {key}
           /\ op'.next.file = op.next.file
<1>1. op.next \in LoadedCell
  BY DEF UpdateNetAllow, Typed, Shape, OpShape, PassShape, Attempting,
     ArmSteps
<1>2. /\ op' = Operation("net", op.cell, op'.next, op.prev, op.todo \ {key})
      /\ op'.next = Record(op.next.on, op.next.links,
                           op.next.net \cup {key}, op.next.file)
  BY <1>1 DEF UpdateNetAllow, Typed, OpTypes, OpType, LoadedCell, Operation,
              Record
<1>3. op'.step = "net" /\ op'.cell = op.cell /\ op'.prev = op.prev
  BY <1>2 DEF Operation
<1>4. op'.next = Record(op.next.on, op.next.links,
                         op.next.net \cup {key}, op.next.file)
  BY <1>2
<1>5. /\ op'.next.on = op.next.on /\ op'.next.links = op.next.links
      /\ op'.next.net = op.next.net \cup {key} /\ op'.next.file = op.next.file
  BY <1>4 DEF Record
<1>6. op'.next \in LoadedCell
  BY <1>1, <1>2, RecordTyped, FullRecord
<1>7. QED
  BY <1>1, <1>2, <1>3, <1>5, <1>6

\* Attaching one connect hook adds its link to the record being built.
LEMMA AttachConnectOp ==
    ASSUME Typed, NEW hook \in Hooks, AttachConnect(hook)
    PROVE  /\ op' = Operation("links", op.cell, op'.next, op.prev, {})
           /\ op.next \in LoadedCell
           /\ op'.next = Record(op.next.on, op.next.links \cup {hook},
                                op.next.net, op.next.file)
           /\ op'.next \in LoadedCell
<1>1. op.next \in LoadedCell
  BY DEF AttachConnect, Typed, Shape, OpShape, PassShape, Attempting, ArmSteps
<1>2. op.todo = {}
  BY DEF AttachConnect, Typed, OpTypes, Entries
<1>3. /\ op' = Operation("links", op.cell, op'.next, op.prev, {})
      /\ op'.next = Record(op.next.on, op.next.links \cup {hook},
                           op.next.net, op.next.file)
  BY <1>1, <1>2 DEF AttachConnect, Typed, OpTypes, OpType, LoadedCell,
                    Operation, Record
<1>4. QED
  BY <1>1, <1>3, RecordTyped, FullRecord

\* Committing an arm goes on to retire the record it replaced, if there is one.
LEMMA CommitOp ==
    ASSUME Typed, Commit
    PROVE  /\ op.step = "links" /\ op.next \in LoadedCell
           /\ op' = Operation(op'.step, op.cell, op.next, op.prev, {})
           /\ op'.step = IF op.prev = NotLoaded THEN "report" ELSE "retire"
<1>1. op.todo = {}
  BY DEF Commit, Typed, OpTypes, Entries
<1>2. QED
  BY <1>1
  DEF Commit, Typed, OpTypes, OpType, Operation, Shape, OpShape, PassShape,
      Attempting, ArmSteps

\* Retiring closes the links of the record that was replaced.
LEMMA RetireEntriesOp ==
    ASSUME Typed, RetireEntries
    PROVE  /\ op' = Operation("retireScopes", op.cell, op.next, op'.prev, {})
           /\ op.prev \in LoadedCell
           /\ op'.prev = Record(op.prev.on, {}, op.prev.net, op.prev.file)
           /\ op'.prev \in LoadedCell
<1>1. op.prev \in LoadedCell
  BY DEF RetireEntries, Typed, Shape, OpShape, PassShape
<1>2. op.todo = {}
  BY DEF RetireEntries, Typed, OpTypes, Entries
<1>3. /\ op' = Operation("retireScopes", op.cell, op.next, op'.prev, {})
      /\ op'.prev = Record(op.prev.on, {}, op.prev.net, op.prev.file)
  BY <1>1, <1>2 DEF RetireEntries, Typed, OpTypes, OpType, LoadedCell,
                    Operation, Record
<1>4. QED
  BY <1>1, <1>3, RecordTyped, FullRecord

\* After retiring, the receipt is due.
LEMMA RetireScopesOp ==
    ASSUME Typed, RetireScopes
    PROVE  /\ op' = Operation("report", op.cell, op.next, NotLoaded, {})
           /\ op.prev \in LoadedCell
<1>1. op.todo = {}
  BY DEF RetireScopes, Typed, OpTypes, Entries
<1>2. QED
  BY <1>1
  DEF RetireScopes, Typed, OpTypes, OpType, Operation, Shape, OpShape,
      PassShape

\* A failing step of Arm turns to the rollback with what it built so far.
LEMMA ArmFailsOp ==
    ASSUME Typed, ArmFails
    PROVE  op' = Operation("rollback", op.cell, op.next, op.prev, {})
BY DEF ArmFails, Typed, OpTypes, OpType, Operation

\* The rollback closes the links of the record it built.
LEMMA RollBackEntriesOp ==
    ASSUME Typed, RollBackEntries
    PROVE  /\ op' = Operation("rollbackScopes", op.cell, op'.next, op.prev, {})
           /\ op.next \in LoadedCell
           /\ op'.next = Record(op.next.on, {}, op.next.net, op.next.file)
           /\ op'.next \in LoadedCell
<1>1. op.next \in LoadedCell
  BY DEF RollBackEntries, Typed, Shape, OpShape, PassShape, Attempting
<1>2. op.todo = {}
  BY DEF RollBackEntries, Typed, OpTypes, Entries
<1>3. /\ op' = Operation("rollbackScopes", op.cell, op'.next, op.prev, {})
      /\ op'.next = Record(op.next.on, {}, op.next.net, op.next.file)
  BY <1>1, <1>2 DEF RollBackEntries, Typed, OpTypes, OpType, LoadedCell,
                    Operation, Record
<1>4. QED
  BY <1>1, <1>3, RecordTyped, FullRecord

\* After the rollback, the scopes of a record of the same class are restored.
LEMMA RollBackScopesOp ==
    ASSUME Typed, RollBackScopes
    PROVE  \/ op' = NoOp /\ ~SameCollection
           \/ /\ op' = Operation("restore", op.cell, op.next, op.prev,
                                 op.prev.on.cgroups)
              /\ op.prev \in LoadedCell /\ ClassOf(op.prev) = K
<1>1. op.prev \in AnyRecord
  BY DEF Typed, OpTypes, OpType
<1>2. CASE SameCollection
  <2>1. op' = Operation("restore", op.cell, op.next, op.prev,
                        op.prev.on.cgroups)
    BY <1>2 DEF RollBackScopes, Typed, OpTypes, OpType, Operation
  <2>2. QED
    BY <1>1, <1>2, <2>1 DEF SameCollection, AnyRecord
<1>3. CASE ~SameCollection
  BY <1>3 DEF RollBackScopes
<1>4. QED
  BY <1>2, <1>3

\* Restoring one cell scope entry takes that cgroup off the work.
LEMMA RestoreCellScopeOp ==
    ASSUME Typed, NEW g \in Cgroups, RestoreCellScope(g)
    PROVE  op' = Operation("restore", op.cell, op.next, op.prev, op.todo \ {g})
BY DEF RestoreCellScope, Typed, OpTypes, OpType, Operation

\* Refresh keeps listing, links and addresses, and collects file rules anew.
LEMMA RefreshBeginsOp ==
    ASSUME Typed, NEW c \in Cells, RefreshBegins(c)
    PROVE  /\ op = NoOp /\ c \in pass.todo /\ loaded[c] \in LoadedCell
           /\ op' = Operation("refresh", c, op'.next, loaded[c], op'.todo)
           /\ op'.next = Record(loaded[c].on, loaded[c].links,
                                loaded[c].net, {})
           /\ op'.next \in LoadedCell
           /\ op'.todo \subseteq loaded[c].on.cgroups \X Files
<1>1. op = NoOp /\ c \in pass.todo /\ loaded[c] \in LoadedCell
  BY DEF RefreshBegins, MustRefresh, Due, HasFileRules, Typed, AgentTypes,
         AnyRecord
<1>2. PICK found \in SUBSET Files :
        op' = [step |-> "refresh", cell |-> c,
               next |-> [loaded[c] EXCEPT !.file = {}], prev |-> loaded[c],
               todo |-> loaded[c].on.cgroups \X found]
  BY DEF RefreshBegins
<1>3. /\ op' = Operation("refresh", c, op'.next, loaded[c], op'.todo)
      /\ op'.todo \subseteq loaded[c].on.cgroups \X Files
      /\ op'.next = [loaded[c] EXCEPT !.file = {}]
  BY <1>2 DEF Operation
<1>4. op'.next = Record(loaded[c].on, loaded[c].links, loaded[c].net, {})
  BY <1>1, <1>3 DEF LoadedCell, Record
<1>5. QED
  BY <1>1, <1>3, <1>4, RecordTyped, FullRecord

\* Disarm closes the links of the loaded record in place.
LEMMA DisarmEntriesOp ==
    ASSUME Typed, NEW c \in Cells, DisarmEntries(c)
    PROVE  /\ op = NoOp /\ c \in pass.gone /\ loaded[c] \in LoadedCell
           /\ op' = Operation("disarmScopes", c, NotLoaded, loaded[c], {})
           /\ loaded' = [loaded EXCEPT ![c] = loaded'[c]]
           /\ loaded'[c] = Record(loaded[c].on, {}, loaded[c].net,
                                  loaded[c].file)
           /\ loaded'[c] \in LoadedCell
<1>1. op = NoOp /\ c \in pass.gone /\ loaded[c] \in LoadedCell
  BY DEF DisarmEntries, MustDisarm, Typed, AgentTypes, AnyRecord
<1>2. op' = Operation("disarmScopes", c, NotLoaded, loaded[c], {})
  BY DEF DisarmEntries, NoOp, Operation
<1>3. /\ loaded' = [loaded EXCEPT ![c] = loaded'[c]]
      /\ loaded'[c] = Record(loaded[c].on, {}, loaded[c].net, loaded[c].file)
  BY <1>1 DEF DisarmEntries, Typed, AgentTypes, LoadedCell, Record
<1>4. QED
  BY <1>1, <1>2, <1>3, RecordTyped, FullRecord

\* Disarming a cell that is not loaded goes straight to its final report.
LEMMA DisarmNothingOp ==
    ASSUME Typed, NEW c \in Cells, DisarmNothing(c)
    PROVE  /\ op = NoOp /\ c \in pass.gone /\ loaded[c] = NotLoaded
           /\ op' = Operation("finalize", c, NotLoaded, NotLoaded, {})
BY DEF DisarmNothing, MustDisarm, NoOp, Operation

\* After the scopes are deleted the final report is due.
LEMMA DisarmScopesOp ==
    ASSUME Typed, DisarmScopes
    PROVE  op' = Operation("finalize", op.cell, NotLoaded, NotLoaded, {})
BY DEF DisarmScopes, NoOp, Operation

\* Every step keeps the kernel maps typed.
LEMMA KernelTyped ==
    ASSUME Typed, [Next]_vars
    PROVE  KernelTypes'
<1> USE EmptyRecord, FullRecord
    DEF Typed, KernelTypes, OpTypes, Shape, OpShape, PassShape, OpType,
        AnyRecord, Unscoped, K
<1>1. ASSUME NEW g \in Cgroups, UpdateCellScope(g) PROVE KernelTypes'
  BY <1>1 DEF UpdateCellScope, Attempting, ArmSteps
<1>2. ASSUME NEW g \in Cgroups, RestoreCellScope(g) PROVE KernelTypes'
  <2>1. op.cell \in Cells /\ K \in Classes
    BY <1>2 DEF RestoreCellScope
  <2>2. QED
    BY <1>2, <2>1 DEF RestoreCellScope
<1>3. ASSUME NEW key \in FileKeys, UpdateFileRule(key) PROVE KernelTypes'
  <2>1. K \in Classes
    BY <1>3 DEF UpdateFileRule, Attempting, ArmSteps
  <2>2. QED
    BY <1>3, <2>1 DEF UpdateFileRule
<1>4. ASSUME NEW gate \in {"exec", "file"}, AttachLsm(gate)
      PROVE  KernelTypes'
  <2>1. K \in Classes /\ gate \in Gates(K)
    BY <1>4 DEF AttachLsm, Attempting, ArmSteps
  <2>2. QED
    BY <1>4, <2>1 DEF AttachLsm, Gates
<1>5. ASSUME NEW key \in NetKeys, UpdateNetAllow(key) PROVE KernelTypes'
  BY <1>5 DEF UpdateNetAllow, Attempting, ArmSteps
<1>6. CASE RetireEntries
  BY <1>6 DEF RetireEntries
<1>7. CASE RetireScopes
  BY <1>7 DEF RetireScopes
<1>8. CASE RollBackEntries
  BY <1>8 DEF RollBackEntries, Attempting, ArmSteps
<1>9. CASE RollBackScopes
  BY <1>9 DEF RollBackScopes, Attempting, ArmSteps
<1>10. CASE RefreshFails
  BY <1>10 DEF RefreshFails
<1>11. CASE RefreshEnds
  BY <1>11 DEF RefreshEnds
<1>12. ASSUME NEW c \in Cells, DisarmEntries(c) PROVE KernelTypes'
  BY <1>12 DEF DisarmEntries, AgentTypes
<1>13. CASE DisarmScopes
  BY <1>13 DEF DisarmScopes, AgentTypes
<1>14. CASE AgentRestarts
  BY <1>14 DEF AgentRestarts
<1>15. CASE UNCHANGED kernel
  BY <1>15 DEF kernel
<1>16. QED
  BY <1>1, <1>2, <1>3, <1>4, <1>5, <1>6, <1>7, <1>8, <1>9, <1>10, <1>11,
     <1>12, <1>13, <1>14, <1>15
  DEF Next, Cluster, Progress, Setback, vars, kernel, StartPod, StartCgroup,
      StopPod, ChangePolicy, ListCells, EndPass, AlreadyArmed, ArmBegins,
      RefreshNothing, RefreshBegins, DisarmNothing, CollectFileRules,
      NeedGates, ResolveNetKeys, AttachConnect, Commit, ReportArmed,
      Restored, FinalizeDisarm, ReportRefused, ArmFails, FinalizeRefused,
      ExecRulesFail, CollectFails

\* Every step keeps the cluster typed, and the changes within their bound.
LEMMA ClusterTyped ==
    ASSUME Typed, [Next]_vars
    PROVE  ClusterTypes'
<1> USE NodeAssumption DEF Typed, ClusterTypes
<1>1. ASSUME NEW c \in Cells, NEW u \in Pods, StartPod(c, u)
      PROVE  ClusterTypes'
  BY <1>1 DEF StartPod
<1>2. ASSUME NEW g \in Cgroups, StartCgroup(g) PROVE ClusterTypes'
  BY <1>2 DEF StartCgroup
<1>3. ASSUME NEW c \in Cells, StopPod(c) PROVE ClusterTypes'
  BY <1>3 DEF StopPod
<1>4. ASSUME NEW c \in Cells, NEW p \in Policies, ChangePolicy(c, p)
      PROVE  ClusterTypes'
  BY <1>4 DEF ChangePolicy
<1>5. CASE UNCHANGED cluster
  BY <1>5 DEF cluster
<1>6. QED
  BY <1>1, <1>2, <1>3, <1>4, <1>5, AgentFrame
  DEF Next, Cluster, vars, cluster

\* Every step keeps the agent's tables typed, and the faults within their
\* bound.
LEMMA AgentTyped ==
    ASSUME Typed, [Next]_vars
    PROVE  AgentTypes'
<1> USE EmptyRecord, FullRecord, EmptyOp, PassSteps, FaultTyped
    DEF Typed, AgentTypes, OpTypes, Shape, OpShape, PassShape, OpType,
        AnyRecord, AnyListing
<1>1. CASE ListCells
  <2>1. /\ pass' \in PassType
        /\ mishaps' \subseteq Cells \X {"skipped", "refused", "unrestored"}
    BY <1>1 DEF ListCells, PassType, Now, Running, LiveOf, ClusterTypes,
                Listings
  <2>2. faults' \in 0..MaxFaults
    BY <1>1 DEF ListCells
  <2>3. QED
    BY <1>1, <2>1, <2>2 DEF ListCells
<1>2. CASE ReportArmed
  BY <1>2 DEF ReportArmed
<1>3. CASE ReportRefused
  BY <1>3 DEF ReportRefused
<1>4. CASE EndPass
  BY <1>4 DEF EndPass, PassType
<1>5. ASSUME NEW c \in Cells,
             ExecRulesFail(c) \/ RefreshNothing(c) \/ CollectFails(c)
      PROVE  AgentTypes'
  BY <1>5 DEF ExecRulesFail, RefreshNothing, CollectFails
<1>6. CASE Commit
  BY <1>6 DEF Commit, Attempting, ArmSteps
<1>7. CASE ArmFails
  BY <1>7 DEF ArmFails
<1>8. CASE RollBackScopes
  BY <1>8 DEF RollBackScopes
<1>9. ASSUME NEW g \in Cgroups, RestoreCellScope(g) PROVE AgentTypes'
  BY <1>9 DEF RestoreCellScope
<1>10. CASE Restored
  BY <1>10 DEF Restored
<1>11. CASE RefreshFails
  BY <1>11 DEF RefreshFails
<1>12. CASE RefreshEnds
  BY <1>12 DEF RefreshEnds, LoadedCell
<1>13. ASSUME NEW c \in Cells, DisarmEntries(c) PROVE AgentTypes'
  BY <1>13 DEF DisarmEntries, LoadedCell
<1>14. CASE DisarmScopes
  BY <1>14 DEF DisarmScopes
<1>15. CASE FinalizeDisarm
  BY <1>15 DEF FinalizeDisarm, PassType
<1>16. CASE FinalizeRefused
  BY <1>16 DEF FinalizeRefused
<1>17. CASE AgentRestarts
  BY <1>17 DEF AgentRestarts, PassType
<1>18. CASE UNCHANGED <<loaded, armed, pass, mishaps, faults>>
  BY <1>18
<1>19. QED
  BY <1>1, <1>2, <1>3, <1>4, <1>5, <1>6, <1>7, <1>8, <1>9, <1>10, <1>11,
     <1>12, <1>13, <1>14, <1>15, <1>16, <1>17, <1>18, ClusterFrame
  DEF Next, Progress, Setback, vars, AlreadyArmed, ArmBegins, RefreshBegins,
      DisarmNothing, UpdateCellScope, CollectFileRules, UpdateFileRule,
      NeedGates, AttachLsm, ResolveNetKeys, UpdateNetAllow, AttachConnect,
      RetireEntries, RetireScopes, RollBackEntries

\* An operation built from typed fields is typed and is not the empty one.
LEMMA OpBuilt ==
    ASSUME op' = Operation(op'.step, op'.cell, op'.next, op'.prev, op'.todo),
           op'.step \in Steps \ {"none"}, op'.cell \in Cells,
           op'.next \in AnyRecord, op'.prev \in AnyRecord,
           op'.todo \subseteq Entries(op'.step)
    PROVE  OpTypes'
<1>1. op'.todo \subseteq Todos
  BY DEF Entries, Todos
<1>2. op' \in OpType
  BY <1>1 DEF Operation, OpType
<1>3. op' # NoOp
  BY EmptyOp
<1>4. QED
  BY <1>2, <1>3 DEF OpTypes

\* Every step leaves a typed operation.
LEMMA OpTyped ==
    ASSUME Typed, [Next]_vars
    PROVE  OpTypes'
<1> USE OpBuilt, EmptyRecord, FullRecord
    DEF Typed, OpTypes, OpType, AnyRecord, Entries, Steps, ArmSteps, Operation
<1>1. ASSUME NEW c \in Cells, AlreadyArmed(c) PROVE OpTypes'
  BY <1>1, AlreadyArmedOp DEF AgentTypes
<1>2. ASSUME NEW c \in Cells, ArmBegins(c) PROVE OpTypes'
  BY <1>2, ArmBeginsOp DEF AgentTypes
<1>3. ASSUME NEW c \in Cells, RefreshBegins(c) PROVE OpTypes'
  <2>1. op'.todo \subseteq FileKeys
    BY <1>3, RefreshBeginsOp DEF FileKeys
  <2>2. QED
    BY <1>3, <2>1, RefreshBeginsOp, OpBuilt
<1>4. ASSUME NEW c \in Cells, DisarmEntries(c) PROVE OpTypes'
  BY <1>4, DisarmEntriesOp DEF AgentTypes
<1>5. ASSUME NEW c \in Cells, DisarmNothing(c) PROVE OpTypes'
  BY <1>5, DisarmNothingOp DEF AgentTypes
<1>6. ASSUME NEW g \in Cgroups, UpdateCellScope(g) PROVE OpTypes'
  BY <1>6, UpdateCellScopeOp DEF UpdateCellScope, Shape, OpShape, PassShape
<1>7. ASSUME NEW g \in Cgroups, RestoreCellScope(g) PROVE OpTypes'
  BY <1>7, RestoreCellScopeOp DEF RestoreCellScope, Shape, OpShape, PassShape
<1>8. CASE CollectFileRules
  BY <1>8, CollectFileRulesOp
  DEF CollectFileRules, Shape, OpShape, PassShape, Attempting, NetKeys,
      FileKeys
<1>9. ASSUME NEW key \in FileKeys, UpdateFileRule(key) PROVE OpTypes'
  BY <1>9, UpdateFileRuleOp
  DEF UpdateFileRule, Shape, OpShape, PassShape, Attempting, NetKeys, FileKeys
<1>10. CASE NeedGates
  BY <1>10, NeedGatesOp
  DEF NeedGates, Shape, OpShape, PassShape, Attempting, NetKeys, FileKeys,
      Gates
<1>11. ASSUME NEW gate \in {"exec", "file"}, AttachLsm(gate) PROVE OpTypes'
  BY <1>11, AttachLsmOp DEF AttachLsm, Shape, OpShape, PassShape
<1>12. CASE ResolveNetKeys
  BY <1>12, ResolveNetKeysOp
  DEF ResolveNetKeys, Shape, OpShape, PassShape, Attempting, NetKeys, FileKeys
<1>13. ASSUME NEW key \in NetKeys, UpdateNetAllow(key) PROVE OpTypes'
  BY <1>13, UpdateNetAllowOp
  DEF UpdateNetAllow, Shape, OpShape, PassShape, Attempting, NetKeys, FileKeys
<1>14. ASSUME NEW hook \in Hooks, AttachConnect(hook) PROVE OpTypes'
  BY <1>14, AttachConnectOp DEF AttachConnect, Shape, OpShape, PassShape
<1>15. CASE Commit
  BY <1>15, CommitOp DEF Commit, Shape, OpShape, PassShape
<1>16. CASE RetireEntries
  BY <1>16, RetireEntriesOp DEF RetireEntries, Shape, OpShape, PassShape
<1>17. CASE RetireScopes
  BY <1>17, RetireScopesOp DEF RetireScopes, Shape, OpShape, PassShape
<1>18. CASE RollBackEntries
  BY <1>18, RollBackEntriesOp DEF RollBackEntries, Shape, OpShape, PassShape
<1>19. CASE RollBackScopes
  <2>1. CASE op' = NoOp
    BY <2>1, EmptyOp
  <2>2. CASE op' # NoOp
    BY <1>19, <2>2, RollBackScopesOp
    DEF RollBackScopes, Shape, OpShape, PassShape, Attempting
  <2>3. QED
    BY <2>1, <2>2
<1>20. CASE DisarmScopes
  BY <1>20, DisarmScopesOp DEF DisarmScopes, Shape, OpShape, PassShape
<1>21. CASE ArmFails
  BY <1>21, ArmFailsOp DEF ArmFails, Shape, OpShape, PassShape
<1>22. CASE op' = NoOp
  BY <1>22, EmptyOp
<1>23. CASE UNCHANGED op
  BY <1>23
<1>24. QED
  BY <1>1, <1>2, <1>3, <1>4, <1>5, <1>6, <1>7, <1>8, <1>9, <1>10, <1>11,
     <1>12, <1>13, <1>14, <1>15, <1>16, <1>17, <1>18, <1>19, <1>20, <1>21,
     <1>22, <1>23, ClusterFrame
  DEF Next, Progress, Setback, vars, ListCells, EndPass, RefreshNothing,
      ReportArmed, Restored, RefreshEnds, FinalizeDisarm, ReportRefused,
      RefreshFails, FinalizeRefused, ExecRulesFail, CollectFails,
      AgentRestarts, RollBackScopes

\* Every step leaves an operation of the shape its step calls for.
LEMMA OpShapeKept ==
    ASSUME Typed, [Next]_vars
    PROVE  OpShape'
<1> USE DEF OpShape, Attempting, ArmSteps
<1>a. /\ OpShape /\ PassShape /\ op \in OpType
      /\ \A c \in Cells : loaded[c] \in AnyRecord
  BY DEF Typed, Shape, OpTypes, AgentTypes
<1>1. ASSUME NEW c \in Cells, AlreadyArmed(c) PROVE OpShape'
  <2>1. /\ op'.step = "report" /\ op'.cell = c /\ op'.next = loaded[c]
        /\ UNCHANGED <<pass, loaded>> /\ loaded[c] \in LoadedCell
        /\ pass.active
    BY <1>1, <1>a, AlreadyArmedOp DEF AlreadyArmed, Operation, PassShape
  <2>2. QED
    BY <2>1
<1>2. ASSUME NEW c \in Cells, ArmBegins(c) PROVE OpShape'
  <2>1. /\ op'.step = "scopes" /\ op'.cell = c /\ op'.prev = loaded[c]
        /\ UNCHANGED <<pass, loaded>> /\ op'.next \in LoadedCell
        /\ pass.active /\ op'.todo = op'.next.on.cgroups
    BY <1>2, <1>a, ArmBeginsOp DEF ArmBegins, Operation, PassShape, Record
  <2>2. QED
    BY <2>1
<1>3. ASSUME NEW c \in Cells, RefreshBegins(c) PROVE OpShape'
  <2>1. /\ op'.step = "refresh" /\ op'.cell = c /\ op'.prev = loaded[c]
        /\ op'.next \in LoadedCell /\ loaded[c] \in LoadedCell
        /\ pass.active
    BY <1>3, <1>a, RefreshBeginsOp DEF Operation, PassShape
  <2>5. UNCHANGED <<pass, loaded>>
    BY <1>3 DEF RefreshBegins
  <2>a. op'.next = Record(loaded[c].on, loaded[c].links, loaded[c].net, {})
    BY <1>3, RefreshBeginsOp
  <2>2. /\ op'.next.on = loaded[c].on /\ op'.next.links = loaded[c].links
        /\ op'.next.net = loaded[c].net
    BY <2>a DEF Record
  <2>3. \A key \in op'.todo : key[1] \in op'.next.on.cgroups
    BY <1>3, <2>2, RefreshBeginsOp
  <2>4. QED
    BY <2>1, <2>2, <2>3, <2>5
<1>4. ASSUME NEW c \in Cells, DisarmEntries(c) PROVE OpShape'
  <2>1. /\ op'.step = "disarmScopes" /\ op'.cell = c /\ UNCHANGED pass
        /\ loaded'[c] \in LoadedCell /\ pass.active
    BY <1>4, <1>a, DisarmEntriesOp DEF DisarmEntries, Operation, PassShape
  <2>2. QED
    BY <2>1
<1>5. ASSUME NEW c \in Cells, DisarmNothing(c) PROVE OpShape'
  <2>1. /\ op'.step = "finalize" /\ op'.cell = c /\ UNCHANGED <<pass, loaded>>
        /\ loaded[c] = NotLoaded /\ pass.active
    BY <1>5, <1>a, DisarmNothingOp DEF DisarmNothing, Operation, PassShape
  <2>2. QED
    BY <2>1
<1>6. ASSUME NEW g \in Cgroups, UpdateCellScope(g) PROVE OpShape'
  BY <1>6, <1>a, UpdateCellScopeOp DEF UpdateCellScope, Operation
<1>7. ASSUME NEW g \in Cgroups, RestoreCellScope(g) PROVE OpShape'
  BY <1>7, <1>a, RestoreCellScopeOp DEF RestoreCellScope, Operation, K
<1>8. CASE CollectFileRules
  BY <1>8, <1>a, CollectFileRulesOp DEF CollectFileRules, Operation
<1>9. ASSUME NEW key \in FileKeys, UpdateFileRule(key) PROVE OpShape'
  <2>1. /\ op.step \in {"files", "refresh"} /\ UNCHANGED <<pass, loaded>>
        /\ op'.step = op.step /\ op'.cell = op.cell /\ op'.prev = op.prev
        /\ op'.todo = op.todo \ {key} /\ op'.next \in LoadedCell
    BY <1>9, UpdateFileRuleOp DEF UpdateFileRule, Operation
  <2>a. op'.next = Record(op.next.on, op.next.links, op.next.net,
                          op.next.file \cup {key})
    BY <1>9, UpdateFileRuleOp
  <2>2. /\ op'.next.on = op.next.on /\ op'.next.links = op.next.links
        /\ op'.next.net = op.next.net
    BY <2>a DEF Record
  <2>3. QED
    BY <1>a, <2>1, <2>2
<1>10. CASE NeedGates
  BY <1>10, <1>a, NeedGatesOp DEF NeedGates, Operation, K
<1>11. ASSUME NEW gate \in {"exec", "file"}, AttachLsm(gate) PROVE OpShape'
  BY <1>11, <1>a, AttachLsmOp DEF AttachLsm, Operation, K
<1>12. CASE ResolveNetKeys
  BY <1>12, <1>a, ResolveNetKeysOp DEF ResolveNetKeys, Operation
<1>13. ASSUME NEW key \in NetKeys, UpdateNetAllow(key) PROVE OpShape'
  <2>1. /\ op.step = "net" /\ UNCHANGED <<pass, loaded>>
        /\ op'.step = "net" /\ op'.cell = op.cell /\ op'.prev = op.prev
        /\ op'.todo = op.todo \ {key} /\ op'.next \in LoadedCell
    BY <1>13, UpdateNetAllowOp DEF UpdateNetAllow, Operation
  <2>a. op'.next = Record(op.next.on, op.next.links, op.next.net \cup {key},
                          op.next.file)
    BY <1>13, UpdateNetAllowOp
  <2>2. op'.next.on = op.next.on
    BY <2>a DEF Record
  <2>3. QED
    BY <1>a, <2>1, <2>2
<1>14. ASSUME NEW hook \in Hooks, AttachConnect(hook) PROVE OpShape'
  <2>1. /\ op.step \in {"net", "links"} /\ UNCHANGED <<pass, loaded>>
        /\ op'.step = "links" /\ op'.cell = op.cell /\ op'.prev = op.prev
        /\ op'.next \in LoadedCell
    BY <1>14, AttachConnectOp DEF AttachConnect, Operation
  <2>2. QED
    BY <1>a, <2>1
<1>15. CASE Commit
  <2>1. /\ op.step = "links" /\ UNCHANGED pass /\ op'.next = op.next
        /\ op'.step \in {"report", "retire"} /\ op'.cell = op.cell
        /\ op'.prev = op.prev
        /\ op'.step = "retire" => op.prev # NotLoaded
    BY <1>15, CommitOp DEF Commit, Operation
  <2>2. loaded'[op.cell] = op.next
    BY <1>15, <1>a, <2>1 DEF Commit, Typed, AgentTypes
  <2>3. op.prev \in AnyRecord
    BY <1>a DEF OpType
  <2>4. QED
    BY <1>a, <2>1, <2>2, <2>3 DEF AnyRecord
<1>16. CASE RetireEntries
  BY <1>16, <1>a, RetireEntriesOp DEF RetireEntries, Operation
<1>17. CASE RetireScopes
  BY <1>17, <1>a, RetireScopesOp DEF RetireScopes, Operation
<1>18. CASE RollBackEntries
  BY <1>18, <1>a, RollBackEntriesOp DEF RollBackEntries, Operation
<1>19. CASE op' # NoOp /\ RollBackScopes
  BY <1>19, <1>a, RollBackScopesOp, EmptyOp DEF RollBackScopes, Operation, K
<1>20. CASE DisarmScopes
  <2>1. /\ op.step = "disarmScopes" /\ UNCHANGED pass
        /\ op'.step = "finalize" /\ op'.cell = op.cell
    BY <1>20, DisarmScopesOp DEF DisarmScopes, Operation
  <2>2. loaded'[op.cell] = NotLoaded
    BY <1>20, <1>a, <2>1 DEF DisarmScopes, Typed, AgentTypes
  <2>3. QED
    BY <1>a, <2>1, <2>2
<1>21. CASE ArmFails
  BY <1>21, <1>a, ArmFailsOp DEF ArmFails, Operation
<1>22. CASE op' = NoOp
  BY <1>22, EmptyOp
<1>23. CASE UNCHANGED <<op, loaded>> /\ pass'.active = pass.active
  BY <1>23, <1>a DEF K
<1>24. CASE op = NoOp /\ UNCHANGED op
  BY <1>24, EmptyOp
<1>25. QED
  <2>1. ASSUME NEW c \in Cells, RefreshNothing(c) PROVE op = NoOp /\ op' = op
    BY <2>1 DEF RefreshNothing, MustRefresh, Due
  <2>2. ASSUME NEW c \in Cells, CollectFails(c) PROVE op = NoOp /\ op' = op
    BY <2>2 DEF CollectFails, MustRefresh, Due
  <2>3. ASSUME NEW c \in Cells, ExecRulesFail(c) PROVE op = NoOp /\ op' = op
    BY <2>3 DEF ExecRulesFail, MustArm, Due
  <2>4. CASE ListCells
    BY <2>4, <1>a, <1>24, EmptyOp DEF ListCells, OpTypes, Typed
  <2>5. CASE EndPass
    BY <2>5, <1>24 DEF EndPass
  <2>6. CASE Cluster \/ UNCHANGED vars
    BY <2>6, <1>23, ClusterFrame DEF vars
  <2>7. CASE Progress
    BY <2>7, <2>1, <2>4, <2>5, <1>1, <1>2, <1>3, <1>4, <1>5, <1>6, <1>7,
       <1>8, <1>9, <1>10, <1>11, <1>12, <1>13, <1>14, <1>15, <1>16, <1>17,
       <1>18, <1>19, <1>20, <1>22, <1>24
    DEF Progress, ReportArmed, Restored, RefreshEnds, FinalizeDisarm
  <2>8. CASE Setback
    BY <2>8, <2>2, <2>3, <1>21, <1>22, <1>24
    DEF Setback, ReportRefused, RefreshFails, FinalizeRefused, AgentRestarts
  <2>9. QED
    BY <2>6, <2>7, <2>8 DEF Next

\* Every step leaves a pass of the right shape.
LEMMA PassShapeKept ==
    ASSUME Typed, [Next]_vars
    PROVE  PassShape'
<1> USE PassSteps DEF PassShape
<1>a. PassShape /\ OpShape /\ pass \in PassType
  BY DEF Typed, Shape, AgentTypes
<1>1. CASE ListCells
  <2>1. \A c \in Running : Now(c) \in Listings
    BY DEF Running, Now, LiveOf, Listings, Typed, ClusterTypes
  <2>2. QED
    BY <1>1, <2>1 DEF ListCells, Running
<1>2. CASE EndPass
  BY <1>2, <1>a DEF EndPass, PassType
<1>3. CASE FinalizeDisarm
  BY <1>3, <1>a DEF FinalizeDisarm, PassType
<1>4. CASE AgentRestarts
  BY <1>4 DEF AgentRestarts
<1>5. ASSUME NEW c \in Cells, Handled(c) \/ Failed(c) PROVE PassShape'
  BY <1>5, <1>a
<1>6. CASE UNCHANGED pass
  BY <1>6, <1>a
<1>7. op.step # "none" => op.cell \in Cells
  BY <1>a DEF OpShape
<1>8. QED
  BY <1>1, <1>2, <1>3, <1>4, <1>5, <1>6, <1>7, ClusterFrame
  DEF Next, Progress, Setback, vars, AlreadyArmed, ArmBegins, RefreshBegins,
      DisarmEntries, DisarmNothing, UpdateCellScope, RestoreCellScope,
      CollectFileRules, UpdateFileRule, NeedGates, AttachLsm, ResolveNetKeys,
      UpdateNetAllow, AttachConnect, Commit, RetireEntries, RetireScopes,
      RollBackEntries, DisarmScopes, ArmFails, RefreshNothing, CollectFails,
      ExecRulesFail, ReportArmed, ReportRefused, RollBackScopes, Restored,
      RefreshFails, RefreshEnds, FinalizeRefused, ArmSteps

\* The agent starts typed: nothing loaded, no operation, no pass.
LEMMA TypedInitially ==
    Init => Typed
<1> SUFFICES ASSUME Init PROVE Typed
  OBVIOUS
<1>1. op = NoOp /\ OpTypes
  BY EmptyOp DEF Init, OpTypes
<1>2. OpShape
  BY <1>1, EmptyOp DEF OpShape, Attempting, ArmSteps
<1>3. PassShape
  BY DEF Init, PassShape
<1>4. ClusterTypes /\ AgentTypes
  BY NodeAssumption, EmptyRecord
  DEF Init, ClusterTypes, AgentTypes, PassType, AnyListing
<1>5. KernelTypes
  BY DEF Init, KernelTypes
<1>6. QED
  BY <1>1, <1>2, <1>3, <1>4, <1>5 DEF Typed, Shape

\* The typing with its shapes is inductive.
LEMMA TypedKept ==
    Typed /\ [Next]_vars => Typed'
BY ClusterTyped, KernelTyped, AgentTyped, OpTyped, OpShapeKept, PassShapeKept
DEF Typed, Shape

\* The inductive typing implies the type invariant the runs check.
LEMMA TypedIsTypeOK ==
    Typed => TypeOK
BY DEF Typed, ClusterTypes, KernelTypes, AgentTypes, OpTypes, OpType,
   PassType, AnyRecord, AnyListing, TypeOK
===========================================================================
