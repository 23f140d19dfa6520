----------------------- MODULE NodeEnforcementProofs ----------------------
(***************************************************************************)
(* What the agent loads into the kernel is what the loaded cells own.       *)
(*                                                                          *)
(* The argument: every entry a record lists is for a cgroup of its own pod  *)
(* (KeysOwned) and no pod is claimed for two cells (PodsApart), so the      *)
(* entries of two cells never meet (KeysApart). Each map then splits by     *)
(* owner (NetInv, FileInv, ScopeInv), and deleting the entries of one owner *)
(* leaves those of the others; GateInv adds the attached programs.  ArmedInv *)
(* does the same for the listings that were reported, which outlive records.*)
(***************************************************************************)
EXTENDS NodeEnforcementTypes

\* Every listing names the cgroups of its own pod, and every entry of a
\* record is for a cgroup of that record's listing: what buildPodListing and
\* the loops of Arm over cell.Cgroups establish.
OwnCgroups(l) == \A g \in l.cgroups : PodOf[g] = l.pod
OwnKeys(r) ==
    /\ OwnCgroups(r.on)
    /\ \A key \in r.net : key[1] \in r.on.cgroups
    /\ \A key \in r.file : key[1] \in r.on.cgroups

KeysOwned ==
    /\ \A c \in Cells : OwnKeys(loaded[c]) /\ OwnCgroups(pass.listed[c])
    /\ OwnKeys(op.next) /\ OwnKeys(op.prev)

\* The pods a cell stands for, anywhere in the agent. No pod is ever claimed
\* for two cells, since pods are not renamed: this is why two cells never
\* share a key.
Claims(c, p) ==
    \/ p \in {pod[c], loaded[c].on.pod, pass.listed[c].pod}
    \/ op.cell = c /\ p \in {op.next.on.pod, op.prev.on.pod}
PodsApart ==
    \A c, d \in Cells, p \in Pods : Claims(c, p) /\ Claims(d, p) => c = d

\* The steps that move no record between loaded, the pass and the operation,
\* and those that do.
SameRecords ==
    /\ loaded' = loaded /\ pass'.listed = pass.listed
    /\ op'.cell = op.cell /\ op'.next = op.next /\ op'.prev = op.prev
OpEnds == op' = NoOp /\ loaded' = loaded /\ pass'.listed = pass.listed

Handling ==
    \/ ListCells \/ AgentRestarts \/ Commit \/ RetireEntries \/ RetireScopes
    \/ RollBackEntries \/ RefreshEnds \/ DisarmScopes
    \/ \E c \in Cells : \/ AlreadyArmed(c) \/ ArmBegins(c)
                        \/ RefreshBegins(c)
                        \/ DisarmEntries(c) \/ DisarmNothing(c)
    \/ \E key \in FileKeys : UpdateFileRule(key)
    \/ \E key \in NetKeys : UpdateNetAllow(key)
    \/ \E hook \in Hooks : AttachConnect(hook)

\* Every step is one or the other.
LEMMA RecordSteps ==
    ASSUME Typed, [Next]_vars
    PROVE  SameRecords \/ OpEnds \/ Handling
<1> USE PassSteps DEF SameRecords, OpEnds
<1>a. op.step # "none" => op.cell \in Cells
  BY DEF Typed, Shape, OpShape
<1>b. pass \in PassType
  BY DEF Typed, AgentTypes
<1>1. ASSUME NEW g \in Cgroups, UpdateCellScope(g) PROVE SameRecords
  BY <1>1, UpdateCellScopeOp DEF UpdateCellScope, Operation
<1>2. ASSUME NEW g \in Cgroups, RestoreCellScope(g) PROVE SameRecords
  BY <1>2, RestoreCellScopeOp DEF RestoreCellScope, Operation
<1>3. CASE CollectFileRules
  BY <1>3, CollectFileRulesOp DEF CollectFileRules, Operation
<1>4. CASE NeedGates
  BY <1>4, NeedGatesOp DEF NeedGates, Operation
<1>5. ASSUME NEW gate \in {"exec", "file"}, AttachLsm(gate)
      PROVE  SameRecords
  BY <1>5, AttachLsmOp DEF AttachLsm, Operation
<1>6. CASE ResolveNetKeys
  BY <1>6, ResolveNetKeysOp DEF ResolveNetKeys, Operation
<1>7. CASE ArmFails
  BY <1>7, ArmFailsOp DEF ArmFails, Operation
<1>8. CASE RollBackScopes
  BY <1>8, <1>a, <1>b, RollBackScopesOp DEF RollBackScopes, Operation
<1>9. ASSUME NEW c \in Cells,
             ExecRulesFail(c) \/ RefreshNothing(c) \/ CollectFails(c)
      PROVE  SameRecords
  BY <1>9, <1>b DEF ExecRulesFail, RefreshNothing, CollectFails
<1>10. CASE EndPass
  BY <1>10, <1>b DEF EndPass, PassType
<1>11. CASE ReportArmed \/ ReportRefused \/ Restored
  BY <1>11, <1>a, <1>b DEF ReportArmed, ReportRefused, Restored
<1>12. CASE RefreshFails \/ FinalizeRefused
  BY <1>12, <1>a, <1>b DEF RefreshFails, FinalizeRefused
<1>13. CASE FinalizeDisarm
  BY <1>13, <1>b DEF FinalizeDisarm, PassType
<1>14. CASE Cluster \/ UNCHANGED vars
  BY <1>14, ClusterFrame DEF vars
<1>15. QED
  BY <1>1, <1>2, <1>3, <1>4, <1>5, <1>6, <1>7, <1>8, <1>9, <1>10, <1>11,
     <1>12, <1>13, <1>14
  DEF Next, Progress, Setback, Handling

\* Every step keeps each entry with the pod its cell runs in.
LEMMA KeysOwnedKept ==
    ASSUME Typed, KeysOwned, [Next]_vars
    PROVE  KeysOwned'
<1> USE DEF KeysOwned, OwnKeys
<1>a. loaded \in [Cells -> AnyRecord] /\ OwnKeys(NotLoaded)
  BY EmptyRecord DEF Typed, AgentTypes, OwnCgroups
<1>1. CASE ListCells
  <2>1. \A c \in Cells : OwnCgroups(Now(c))
    BY DEF OwnCgroups, Now, LiveOf
  <2>2. \A c \in Cells : OwnCgroups(pass'.listed[c])
    BY <1>1, <2>1, EmptyRecord DEF ListCells, OwnCgroups
  <2>3. QED
    BY <1>1, <2>2 DEF ListCells
<1>2. ASSUME NEW c \in Cells, AlreadyArmed(c) PROVE KeysOwned'
  <2>1. op'.next = loaded[c] /\ op'.prev = NotLoaded
    BY <1>2, AlreadyArmedOp DEF Operation
  <2>2. QED
    BY <1>2, <1>a, <2>1 DEF AlreadyArmed
<1>3. ASSUME NEW c \in Cells, ArmBegins(c) PROVE KeysOwned'
  <2>1. /\ op'.next = Record(pass.listed[c], {}, {}, {})
        /\ op'.prev = loaded[c]
    BY <1>3, ArmBeginsOp DEF Operation
  <2>2. OwnKeys(op'.next)
    BY <2>1 DEF Record
  <2>3. QED
    BY <1>3, <2>1, <2>2 DEF ArmBegins
<1>4. ASSUME NEW c \in Cells, RefreshBegins(c) PROVE KeysOwned'
  <2>1. /\ op'.next = Record(loaded[c].on, loaded[c].links, loaded[c].net, {})
        /\ op'.prev = loaded[c]
    BY <1>4, RefreshBeginsOp DEF Operation
  <2>2. OwnKeys(op'.next)
    BY <2>1 DEF Record
  <2>3. QED
    BY <1>4, <2>1, <2>2 DEF RefreshBegins
<1>5. ASSUME NEW c \in Cells, DisarmEntries(c) PROVE KeysOwned'
  <2>1. /\ op'.next = NotLoaded /\ op'.prev = loaded[c]
        /\ loaded' = [loaded EXCEPT ![c] = loaded'[c]]
        /\ loaded'[c] = Record(loaded[c].on, {}, loaded[c].net,
                               loaded[c].file)
    BY <1>5, DisarmEntriesOp DEF Operation
  <2>2. OwnKeys(loaded[c])'
    BY <2>1 DEF Record
  <2>3. QED
    BY <1>5, <1>a, <2>1, <2>2 DEF DisarmEntries
<1>6. ASSUME NEW c \in Cells, DisarmNothing(c) PROVE KeysOwned'
  <2>1. op'.next = NotLoaded /\ op'.prev = NotLoaded
    BY <1>6, DisarmNothingOp DEF Operation
  <2>2. QED
    BY <1>6, <1>a, <2>1 DEF DisarmNothing
<1>7. ASSUME NEW key \in FileKeys, UpdateFileRule(key) PROVE KeysOwned'
  <2>1. /\ op'.next = Record(op.next.on, op.next.links, op.next.net,
                             op.next.file \cup {key})
        /\ op'.prev = op.prev
    BY <1>7, UpdateFileRuleOp DEF Operation
  <2>2. key[1] \in op.next.on.cgroups
    BY <1>7 DEF UpdateFileRule, Typed, Shape, OpShape
  <2>3. OwnKeys(op'.next)
    BY <2>1, <2>2 DEF Record
  <2>4. QED
    BY <1>7, <2>1, <2>3 DEF UpdateFileRule
<1>8. ASSUME NEW key \in NetKeys, UpdateNetAllow(key) PROVE KeysOwned'
  <2>1. /\ op'.next = Record(op.next.on, op.next.links,
                             op.next.net \cup {key}, op.next.file)
        /\ op'.prev = op.prev
    BY <1>8, UpdateNetAllowOp DEF Operation
  <2>2. key[1] \in op.next.on.cgroups
    BY <1>8 DEF UpdateNetAllow, Typed, Shape, OpShape
  <2>3. OwnKeys(op'.next)
    BY <2>1, <2>2 DEF Record
  <2>4. QED
    BY <1>8, <2>1, <2>3 DEF UpdateNetAllow
<1>9. ASSUME NEW hook \in Hooks, AttachConnect(hook) PROVE KeysOwned'
  <2>1. /\ op'.next = Record(op.next.on, op.next.links \cup {hook},
                             op.next.net, op.next.file)
        /\ op'.prev = op.prev
    BY <1>9, AttachConnectOp DEF Operation
  <2>2. OwnKeys(op'.next)
    BY <2>1 DEF Record
  <2>3. QED
    BY <1>9, <2>1, <2>2 DEF AttachConnect
<1>10. CASE Commit
  <2>1. op'.next = op.next /\ op'.prev = op.prev
    BY <1>10, CommitOp DEF Operation
  <2>2. QED
    BY <1>10, <1>a, <2>1 DEF Commit
<1>11. CASE RetireEntries
  <2>1. /\ op'.prev = Record(op.prev.on, {}, op.prev.net, op.prev.file)
        /\ op'.next = op.next
    BY <1>11, RetireEntriesOp DEF Operation
  <2>2. OwnKeys(op'.prev)
    BY <2>1 DEF Record
  <2>3. QED
    BY <1>11, <2>1, <2>2 DEF RetireEntries
<1>12. CASE RetireScopes
  <2>1. op'.next = op.next /\ op'.prev = NotLoaded
    BY <1>12, RetireScopesOp DEF Operation
  <2>2. QED
    BY <1>12, <1>a, <2>1 DEF RetireScopes
<1>13. CASE RollBackEntries
  <2>1. /\ op'.next = Record(op.next.on, {}, op.next.net, op.next.file)
        /\ op'.prev = op.prev
    BY <1>13, RollBackEntriesOp DEF Operation
  <2>2. OwnKeys(op'.next)
    BY <2>1 DEF Record
  <2>3. QED
    BY <1>13, <2>1, <2>2 DEF RollBackEntries
<1>14. CASE RefreshEnds
  <2>1. /\ op.cell \in Cells /\ loaded[op.cell] \in LoadedCell
        /\ op.next.on = loaded[op.cell].on
    BY <1>14 DEF RefreshEnds, Typed, Shape, OpShape
  <2>2. /\ loaded' = [loaded EXCEPT ![op.cell] = loaded'[op.cell]]
        /\ loaded'[op.cell] = Record(loaded[op.cell].on,
                                     loaded[op.cell].links,
                                     loaded[op.cell].net, op.next.file)
    BY <1>14, <1>a, <2>1 DEF RefreshEnds, LoadedCell, Record
  <2>3. OwnKeys(loaded'[op.cell])
    BY <2>1, <2>2 DEF Record
  <2>4. pass'.listed = pass.listed /\ op' = NoOp
    BY <1>14, <2>1, PassSteps DEF RefreshEnds, Typed, AgentTypes
  <2>5. QED
    BY <1>a, <2>1, <2>2, <2>3, <2>4, EmptyOp
<1>15. CASE DisarmScopes
  <2>1. op'.next = NotLoaded /\ op'.prev = NotLoaded
    BY <1>15, DisarmScopesOp DEF Operation
  <2>2. QED
    BY <1>15, <1>a, <2>1 DEF DisarmScopes
<1>16. CASE AgentRestarts
  BY <1>16, <1>a, EmptyOp, EmptyRecord DEF AgentRestarts, OwnCgroups
<1>17. CASE SameRecords
  BY <1>17 DEF SameRecords
<1>18. CASE OpEnds
  BY <1>18, <1>a, EmptyOp DEF OpEnds
<1>19. QED
  BY <1>1, <1>2, <1>3, <1>4, <1>5, <1>6, <1>7, <1>8, <1>9, <1>10, <1>11,
     <1>12, <1>13, <1>14, <1>15, <1>16, <1>17, <1>18, RecordSteps
  DEF Handling

\* A claim on a pod is inherited from an earlier claim, or from a pod that
\* starts.
LEMMA ClaimsPassOn ==
    ASSUME Typed, [Next]_vars, NEW c \in Cells, NEW p \in Pods, Claims(c, p)',
           pod'[c] = p => pod[c] = p
    PROVE  Claims(c, p)
<1> USE DEF Claims
<1>a. p # None /\ p # NotLoaded.on.pod /\ p # NotListed.pod
  BY NodeAssumption, EmptyRecord
<1>b. loaded \in [Cells -> AnyRecord]
  BY DEF Typed, AgentTypes
<1>1. CASE ListCells
  <2>1. pass'.listed[c].pod = p => pod[c] = p
    BY <1>1, <1>a DEF ListCells, Now
  <2>2. QED
    BY <1>1, <2>1 DEF ListCells
<1>2. ASSUME NEW d \in Cells, AlreadyArmed(d) PROVE Claims(c, p)
  <2>1. op'.next = loaded[d] /\ op'.prev = NotLoaded /\ op'.cell = d
    BY <1>2, AlreadyArmedOp DEF Operation
  <2>2. QED
    BY <1>2, <1>a, <2>1 DEF AlreadyArmed
<1>3. ASSUME NEW d \in Cells, ArmBegins(d) PROVE Claims(c, p)
  <2>1. /\ op'.next = Record(pass.listed[d], {}, {}, {})
        /\ op'.prev = loaded[d] /\ op'.cell = d
    BY <1>3, ArmBeginsOp DEF Operation
  <2>2. op'.next.on = pass.listed[d]
    BY <2>1 DEF Record
  <2>3. QED
    BY <1>3, <2>1, <2>2 DEF ArmBegins
<1>4. ASSUME NEW d \in Cells, RefreshBegins(d) PROVE Claims(c, p)
  <2>1. /\ op'.next = Record(loaded[d].on, loaded[d].links, loaded[d].net, {})
        /\ op'.prev = loaded[d] /\ op'.cell = d
    BY <1>4, RefreshBeginsOp DEF Operation
  <2>2. op'.next.on = loaded[d].on
    BY <2>1 DEF Record
  <2>3. QED
    BY <1>4, <2>1, <2>2 DEF RefreshBegins
<1>5. ASSUME NEW d \in Cells, DisarmEntries(d) PROVE Claims(c, p)
  <2>1. /\ op'.next = NotLoaded /\ op'.prev = loaded[d] /\ op'.cell = d
        /\ loaded' = [loaded EXCEPT ![d] = loaded'[d]]
        /\ loaded'[d] = Record(loaded[d].on, {}, loaded[d].net,
                               loaded[d].file)
    BY <1>5, DisarmEntriesOp DEF Operation
  <2>2. loaded'[d].on = loaded[d].on
    BY <2>1 DEF Record
  <2>3. QED
    BY <1>5, <1>a, <1>b, <2>1, <2>2 DEF DisarmEntries
<1>6. ASSUME NEW d \in Cells, DisarmNothing(d) PROVE Claims(c, p)
  <2>1. op'.next = NotLoaded /\ op'.prev = NotLoaded
    BY <1>6, DisarmNothingOp DEF Operation
  <2>2. QED
    BY <1>6, <1>a, <2>1 DEF DisarmNothing
<1>7. ASSUME NEW key \in FileKeys, UpdateFileRule(key) PROVE Claims(c, p)
  <2>1. /\ op'.next = Record(op.next.on, op.next.links, op.next.net,
                             op.next.file \cup {key})
        /\ op'.prev = op.prev /\ op'.cell = op.cell
    BY <1>7, UpdateFileRuleOp DEF Operation
  <2>2. op'.next.on = op.next.on
    BY <2>1 DEF Record
  <2>3. QED
    BY <1>7, <2>1, <2>2 DEF UpdateFileRule
<1>8. ASSUME NEW key \in NetKeys, UpdateNetAllow(key) PROVE Claims(c, p)
  <2>1. /\ op'.next = Record(op.next.on, op.next.links,
                             op.next.net \cup {key}, op.next.file)
        /\ op'.prev = op.prev /\ op'.cell = op.cell
    BY <1>8, UpdateNetAllowOp DEF Operation
  <2>2. op'.next.on = op.next.on
    BY <2>1 DEF Record
  <2>3. QED
    BY <1>8, <2>1, <2>2 DEF UpdateNetAllow
<1>9. ASSUME NEW hook \in Hooks, AttachConnect(hook) PROVE Claims(c, p)
  <2>1. /\ op'.next = Record(op.next.on, op.next.links \cup {hook},
                             op.next.net, op.next.file)
        /\ op'.prev = op.prev /\ op'.cell = op.cell
    BY <1>9, AttachConnectOp DEF Operation
  <2>2. op'.next.on = op.next.on
    BY <2>1 DEF Record
  <2>3. QED
    BY <1>9, <2>1, <2>2 DEF AttachConnect
<1>10. CASE Commit
  <2>1. op'.next = op.next /\ op'.prev = op.prev /\ op'.cell = op.cell
    BY <1>10, CommitOp DEF Operation
  <2>2. QED
    BY <1>10, <1>b, <2>1 DEF Commit
<1>11. CASE RetireEntries
  <2>1. /\ op'.prev = Record(op.prev.on, {}, op.prev.net, op.prev.file)
        /\ op'.next = op.next /\ op'.cell = op.cell
    BY <1>11, RetireEntriesOp DEF Operation
  <2>2. op'.prev.on = op.prev.on
    BY <2>1 DEF Record
  <2>3. QED
    BY <1>11, <2>1, <2>2 DEF RetireEntries
<1>12. CASE RetireScopes
  <2>1. op'.next = op.next /\ op'.prev = NotLoaded /\ op'.cell = op.cell
    BY <1>12, RetireScopesOp DEF Operation
  <2>2. QED
    BY <1>12, <1>a, <2>1 DEF RetireScopes
<1>13. CASE RollBackEntries
  <2>1. /\ op'.next = Record(op.next.on, {}, op.next.net, op.next.file)
        /\ op'.prev = op.prev /\ op'.cell = op.cell
    BY <1>13, RollBackEntriesOp DEF Operation
  <2>2. op'.next.on = op.next.on
    BY <2>1 DEF Record
  <2>3. QED
    BY <1>13, <2>1, <2>2 DEF RollBackEntries
<1>14. CASE RefreshEnds
  <2>1. op.cell \in Cells /\ loaded[op.cell] \in LoadedCell
    BY <1>14 DEF RefreshEnds, Typed, Shape, OpShape
  <2>2. loaded'[c].on = loaded[c].on
    BY <1>14, <1>b, <2>1 DEF RefreshEnds, LoadedCell
  <2>3. pass'.listed = pass.listed /\ op' = NoOp
    BY <1>14, <2>1, PassSteps DEF RefreshEnds, Typed, AgentTypes
  <2>4. QED
    BY <1>a, <2>2, <2>3, EmptyOp
<1>15. CASE DisarmScopes
  <2>1. op'.next = NotLoaded /\ op'.prev = NotLoaded
    BY <1>15, DisarmScopesOp DEF Operation
  <2>2. QED
    BY <1>15, <1>a, <1>b, <2>1 DEF DisarmScopes
<1>16. CASE AgentRestarts
  BY <1>16, <1>a, EmptyOp DEF AgentRestarts
<1>17. CASE SameRecords
  BY <1>17 DEF SameRecords
<1>18. CASE OpEnds
  BY <1>18, <1>a, EmptyOp DEF OpEnds
<1>19. QED
  BY <1>1, <1>2, <1>3, <1>4, <1>5, <1>6, <1>7, <1>8, <1>9, <1>10, <1>11,
     <1>12, <1>13, <1>14, <1>15, <1>16, <1>17, <1>18, RecordSteps
  DEF Handling

\* No step makes two cells claim one pod.
LEMMA PodsApartKept ==
    ASSUME Typed, PodsApart, [Next]_vars
    PROVE  PodsApart'
<1> SUFFICES ASSUME NEW c \in Cells, NEW d \in Cells, NEW p \in Pods,
                    Claims(c, p)', Claims(d, p)'
             PROVE  c = d
  BY DEF PodsApart
<1>1. CASE \E e \in Cells : StartPod(e, p)
  <2>1. PICK e \in Cells : StartPod(e, p)
    BY <1>1
  <2>2. UNCHANGED <<loaded, pass, op>> /\ pod' = [pod EXCEPT ![e] = p]
        /\ p \notin {op.next.on.pod, op.prev.on.pod}
        /\ \A f \in Cells : /\ pod[f] # p
                            /\ p \notin {loaded[f].on.pod, pass.listed[f].pod}
    BY <2>1 DEF StartPod
  <2>3. pod \in [Cells -> Pods \cup {None}]
    BY DEF Typed, ClusterTypes
  <2>4. \A f \in Cells : Claims(f, p)' => f = e
    BY <2>2, <2>3 DEF Claims
  <2>5. QED
    BY <2>4
<1>2. CASE ~\E e \in Cells : StartPod(e, p)
  <2>1. \A e \in Cells : pod'[e] = p => pod[e] = p
    <3>1. pod \in [Cells -> Pods \cup {None}] /\ p # None
      BY NodeAssumption DEF Typed, ClusterTypes
    <3>2. ASSUME NEW e \in Cells, NEW u \in Pods, StartPod(e, u)
          PROVE  \A f \in Cells : pod'[f] = p => pod[f] = p
      BY <1>2, <3>1, <3>2 DEF StartPod
    <3>3. ASSUME NEW e \in Cells, StopPod(e)
          PROVE  \A f \in Cells : pod'[f] = p => pod[f] = p
      BY <3>1, <3>3 DEF StopPod
    <3>4. CASE UNCHANGED pod
      BY <3>4
    <3>5. QED
      BY <3>2, <3>3, <3>4, AgentFrame
      DEF Next, Cluster, vars, cluster, StartCgroup, ChangePolicy
  <2>2. Claims(c, p) /\ Claims(d, p)
    BY <2>1, ClaimsPassOn
  <2>3. QED
    BY <2>2 DEF PodsApart
<1>3. QED
  BY <1>1, <1>2

\* Two cells share neither a cgroup nor a key of a map: deleting the entries of
\* one cell never deletes those of another.
LEMMA KeysApart ==
    ASSUME Typed, KeysOwned, PodsApart, NEW c \in Cells, NEW d \in Cells,
           c # d
    PROVE  /\ \A g \in loaded[c].on.cgroups :
                /\ g \notin loaded[d].on.cgroups
                /\ d = op.cell => g \notin op.next.on.cgroups
                                  /\ g \notin op.prev.on.cgroups
           /\ \A key \in loaded[c].net :
                /\ key \notin loaded[d].net
                /\ d = op.cell => key \notin op.next.net \cup op.prev.net
           /\ \A key \in loaded[c].file :
                /\ key \notin loaded[d].file
                /\ d = op.cell => key \notin op.next.file \cup op.prev.file
<1>1. ASSUME NEW r \in AnyRecord, NEW g \in r.on.cgroups
      PROVE  r.on.pod \in Pods
  BY <1>1, EmptyRecord, FullRecord DEF AnyRecord
<1>2. /\ loaded[c] \in AnyRecord /\ loaded[d] \in AnyRecord
      /\ op.next \in AnyRecord /\ op.prev \in AnyRecord
  BY DEF Typed, AgentTypes, OpTypes, OpType
<1>3. \A g \in loaded[c].on.cgroups :
        /\ g \notin loaded[d].on.cgroups
        /\ d = op.cell => g \notin op.next.on.cgroups
                          /\ g \notin op.prev.on.cgroups
  <2> SUFFICES ASSUME NEW g \in loaded[c].on.cgroups,
                      NEW r \in {loaded[d], op.next, op.prev},
                      r # loaded[d] => d = op.cell, g \in r.on.cgroups
               PROVE  FALSE
    OBVIOUS
  <2>1. PodOf[g] = loaded[c].on.pod /\ PodOf[g] = r.on.pod
    BY DEF KeysOwned, OwnKeys, OwnCgroups
  <2>2. PodOf[g] \in Pods
    BY <1>1, <1>2, <2>1
  <2>3. Claims(c, PodOf[g]) /\ Claims(d, PodOf[g])
    BY <2>1 DEF Claims
  <2>4. QED
    BY <2>2, <2>3 DEF PodsApart
<1>4. QED
  BY <1>3 DEF KeysOwned, OwnKeys

\* Refresh replaces the file rules of its own cell and nothing else.
LEMMA RefreshedRecord ==
    ASSUME Typed, RefreshEnds
    PROVE  \A c \in Cells :
              /\ loaded'[c].on = loaded[c].on
              /\ loaded'[c].links = loaded[c].links
              /\ loaded'[c].net = loaded[c].net
              /\ loaded'[c].file = IF c = op.cell THEN op.next.file
                                                  ELSE loaded[c].file
              /\ loaded'[c] # NotLoaded <=> loaded[c] # NotLoaded
<1>1. /\ op.cell \in Cells /\ loaded[op.cell] \in LoadedCell
      /\ loaded \in [Cells -> AnyRecord] /\ op.next \in LoadedCell
  BY DEF RefreshEnds, Typed, Shape, OpShape, AgentTypes
<1>2. \A c \in Cells :
         loaded'[c] = IF c = op.cell
                      THEN Record(loaded[c].on, loaded[c].links,
                                  loaded[c].net, op.next.file)
                      ELSE loaded[c]
  BY <1>1 DEF RefreshEnds, LoadedCell, Record
<1>3. loaded'[op.cell] \in LoadedCell
  BY <1>1, <1>2, RecordTyped, FullRecord
<1>4. loaded'[op.cell] # NotLoaded /\ loaded[op.cell] # NotLoaded
  BY <1>1, <1>3, FullRecord
<1>5. ASSUME NEW c \in Cells, c # op.cell PROVE loaded'[c] = loaded[c]
  BY <1>2, <1>5
<1>6. loaded'[op.cell] = Record(loaded[op.cell].on, loaded[op.cell].links,
                                loaded[op.cell].net, op.next.file)
  BY <1>1, <1>2
<1>7. /\ loaded'[op.cell].on = loaded[op.cell].on
      /\ loaded'[op.cell].links = loaded[op.cell].links
      /\ loaded'[op.cell].net = loaded[op.cell].net
      /\ loaded'[op.cell].file = op.next.file
  BY <1>6 DEF Record
<1>8. QED
  BY <1>4, <1>5, <1>7

\* Who may own an entry of a class's map at any point of an operation: a loaded
\* cell whose entries are not being deleted, the attempt that is writing it, or
\* the replaced record that is still to be retired.
Holds(c, k) ==
    /\ loaded[c] # NotLoaded /\ ClassOf(loaded[c]) = k
    /\ ~(op.step = "disarmScopes" /\ op.cell = c)
Attempt(k) == op.step \in ArmSteps \cup {"rollback", "refresh"} /\ k = K
Retired(k) == op.step = "retire" /\ k = ClassOf(op.prev)

\* The addresses allowed by a class are those of such owners, and every
\* owner's addresses are there: arm writes before it commits, and retire
\* deletes only what the new record does not keep.
NetInv ==
    \A k \in Classes :
        /\ \A key \in net[k] :
              \/ \E c \in Cells : Holds(c, k) /\ key \in loaded[c].net
              \/ Attempt(k) /\ key \in op.next.net
              \/ Retired(k) /\ key \in op.prev.net
        /\ \A c \in Cells : Holds(c, k) => loaded[c].net \subseteq net[k]
        /\ Attempt(k) => op.next.net \subseteq net[k]

\* The steps that touch neither the net nor the file map.
Resting == {"none", "report", "finalize", "retireScopes",
            "rollbackScopes", "restore"}

EntriesStay ==
    /\ UNCHANGED <<net, file, loaded>>
    /\ \/ op.step \in Resting /\ op'.step \in Resting
       \/ op' = op
       \/ /\ op.step \in ArmSteps /\ op'.step \in ArmSteps \cup {"rollback"}
          /\ op'.next.on = op.next.on /\ op'.next.net = op.next.net
          /\ op'.next.file = op.next.file

\* The steps that do, or that change who owns an entry.
EntriesMove ==
    \/ AgentRestarts \/ Commit \/ RetireEntries \/ RollBackEntries
    \/ RefreshFails \/ RefreshEnds \/ DisarmScopes
    \/ \E c \in Cells : ArmBegins(c) \/ RefreshBegins(c) \/ DisarmEntries(c)
    \/ \E key \in FileKeys : UpdateFileRule(key)
    \/ \E key \in NetKeys : UpdateNetAllow(key)

\* Every step is one or the other.
LEMMA EntrySteps ==
    ASSUME Typed, [Next]_vars
    PROVE  EntriesStay \/ EntriesMove
<1> USE EmptyOp DEF EntriesStay, ArmSteps, Resting, kernel
<1>1. ASSUME NEW g \in Cgroups, UpdateCellScope(g)
      PROVE  EntriesStay
  BY <1>1, UpdateCellScopeOp DEF UpdateCellScope, Operation
<1>2. CASE CollectFileRules
  BY <1>2, CollectFileRulesOp DEF CollectFileRules, Operation
<1>3. CASE NeedGates
  BY <1>3, NeedGatesOp DEF NeedGates, Operation
<1>4. ASSUME NEW gate \in {"exec", "file"}, AttachLsm(gate)
      PROVE  EntriesStay
  BY <1>4, AttachLsmOp DEF AttachLsm, Operation
<1>5. CASE ResolveNetKeys
  BY <1>5, ResolveNetKeysOp DEF ResolveNetKeys, Operation
<1>6. CASE ArmFails
  BY <1>6, ArmFailsOp DEF ArmFails, Operation
<1>7. ASSUME NEW c \in Cells, AlreadyArmed(c)
      PROVE  EntriesStay
  BY <1>7, AlreadyArmedOp DEF AlreadyArmed, Operation
<1>8. ASSUME NEW c \in Cells, DisarmNothing(c)
      PROVE  EntriesStay
  BY <1>8, DisarmNothingOp DEF DisarmNothing, Operation
<1>9. ASSUME NEW g \in Cgroups, RestoreCellScope(g)
      PROVE  EntriesStay
  BY <1>9, RestoreCellScopeOp DEF RestoreCellScope, Operation
<1>10. CASE RetireScopes
  BY <1>10, RetireScopesOp DEF RetireScopes, Operation
<1>11. ASSUME NEW hook \in Hooks, AttachConnect(hook) PROVE EntriesStay
  <2>1. /\ op.step \in {"net", "links"} /\ op'.step = "links"
        /\ UNCHANGED <<net, file, loaded>>
        /\ op'.next = Record(op.next.on, op.next.links \cup {hook},
                             op.next.net, op.next.file)
    BY <1>11, AttachConnectOp DEF AttachConnect, Operation
  <2>2. QED
    BY <2>1 DEF Record
<1>12. CASE RollBackScopes
  BY <1>12, RollBackScopesOp DEF RollBackScopes, Operation
<1>13. CASE ReportArmed \/ ReportRefused \/ Restored
  BY <1>13 DEF ReportArmed, ReportRefused, Restored
<1>14. CASE FinalizeDisarm \/ FinalizeRefused
  BY <1>14 DEF FinalizeDisarm, FinalizeRefused
<1>15. ASSUME NEW c \in Cells,
              ExecRulesFail(c) \/ RefreshNothing(c) \/ CollectFails(c)
       PROVE  EntriesStay
  BY <1>15 DEF ExecRulesFail, RefreshNothing, CollectFails
<1>16. CASE ListCells \/ EndPass
  BY <1>16 DEF ListCells, EndPass
<1>17. CASE Cluster \/ UNCHANGED vars
  BY <1>17, ClusterFrame DEF vars
<1>18. QED
  BY <1>1, <1>2, <1>3, <1>4, <1>5, <1>6, <1>7, <1>8, <1>9, <1>10, <1>11,
     <1>12, <1>13, <1>14, <1>15, <1>16, <1>17
  DEF Next, Progress, Setback, EntriesMove

\* Every step keeps the addresses with their owners.
LEMMA NetKept ==
    ASSUME Typed, KeysOwned, PodsApart, NetInv, [Next]_vars
    PROVE  NetInv'
<1> USE DEF Holds, Attempt, Retired, K, ClassOf, ArmSteps, NetInv
<1>a. /\ loaded \in [Cells -> AnyRecord] /\ OpShape /\ PassShape
      /\ net \in [Classes -> SUBSET NetKeys]
      /\ net' \in [Classes -> SUBSET NetKeys]
      /\ op.step # "none" => op.cell \in Cells
  BY KernelTyped DEF Typed, Shape, OpShape, AgentTypes, KernelTypes
<1>1. CASE EntriesStay
  BY <1>1 DEF EntriesStay, Resting
<1>2. ASSUME NEW key \in FileKeys, UpdateFileRule(key) PROVE NetInv'
  <2>1. /\ op'.step = op.step /\ op'.cell = op.cell /\ op'.prev = op.prev
        /\ op'.next.net = op.next.net /\ op'.next.on = op.next.on
    BY <1>2, UpdateFileRuleOp
  <2>2. UNCHANGED <<net, loaded>>
    BY <1>2 DEF UpdateFileRule
  <2>3. QED
    BY <2>1, <2>2
<1>4. ASSUME NEW c \in Cells, ArmBegins(c) PROVE NetInv'
  <2>1. /\ op.step = "none" /\ op'.step = "scopes"
        /\ op'.next = Record(pass.listed[c], {}, {}, {})
    BY <1>4, ArmBeginsOp, EmptyOp DEF Operation
  <2>2. op'.next.net = {}
    BY <2>1 DEF Record
  <2>3. UNCHANGED <<net, loaded>>
    BY <1>4 DEF ArmBegins, kernel
  <2>4. QED
    BY <2>1, <2>2, <2>3
<1>5. ASSUME NEW c \in Cells, RefreshBegins(c) PROVE NetInv'
  <2>1. /\ op.step = "none" /\ op'.step = "refresh"
        /\ op'.next = Record(loaded[c].on, loaded[c].links, loaded[c].net, {})
        /\ loaded[c] # NotLoaded
    BY <1>5, RefreshBeginsOp, EmptyOp, FullRecord DEF Operation
  <2>2. op'.next.net = loaded[c].net /\ op'.next.on = loaded[c].on
    BY <2>1 DEF Record
  <2>3. UNCHANGED <<net, loaded>>
    BY <1>5 DEF RefreshBegins, kernel
  <2>4. QED
    BY <2>1, <2>2, <2>3
<1>6. ASSUME NEW key \in NetKeys, UpdateNetAllow(key) PROVE NetInv'
  <2>1. /\ op'.step = "net" /\ op'.cell = op.cell /\ op'.next.on = op.next.on
        /\ op'.next.net = op.next.net \cup {key}
    BY <1>6, UpdateNetAllowOp
  <2>2. /\ op.step = "net" /\ UNCHANGED loaded
        /\ net' = [net EXCEPT ![K] = @ \cup {key}]
    BY <1>6 DEF UpdateNetAllow
  <2>3. \A k \in Classes : net'[k] = IF k = K THEN net[k] \cup {key}
                                              ELSE net[k]
    BY <1>a, <2>2
  <2>4. \A k \in Classes : /\ Attempt(k) <=> k = K
                           /\ Attempt(k)' <=> k = K
    BY <2>1, <2>2
  <2>5. \A k \in Classes : ~Retired(k) /\ ~Retired(k)'
    BY <2>1, <2>2
  <2>6. \A k \in Classes, c \in Cells : Holds(c, k)' <=> Holds(c, k)
    BY <2>1, <2>2
  <2>7. ASSUME NEW k \in Classes, NEW x \in net'[k]
        PROVE  \/ \E c \in Cells : Holds(c, k)' /\ x \in loaded'[c].net
               \/ Attempt(k)' /\ x \in op'.next.net
    BY <2>1, <2>2, <2>3, <2>4, <2>5, <2>6, <2>7
  <2>8. ASSUME NEW k \in Classes, NEW c \in Cells, Holds(c, k)'
        PROVE  loaded'[c].net \subseteq net'[k]
    <3>1. loaded[c].net \subseteq net[k] /\ loaded' = loaded
      BY <2>2, <2>6, <2>8
    <3>2. QED
      BY <2>3, <3>1
  <2>9. ASSUME NEW k \in Classes, Attempt(k)'
        PROVE  op'.next.net \subseteq net'[k]
    <3>1. op.next.net \subseteq net[k] /\ k = K
      BY <2>4, <2>9
    <3>2. QED
      BY <2>1, <2>3, <3>1
  <2>10. QED
    BY <2>7, <2>8, <2>9
<1>7. CASE Commit
  <2>1. /\ op.step = "links" /\ op.next \in LoadedCell /\ op.cell \in Cells
        /\ op.prev = loaded[op.cell] /\ op'.prev = op.prev
        /\ op'.step = IF op.prev = NotLoaded THEN "report" ELSE "retire"
        /\ op'.next = op.next
    BY <1>7, <1>a, CommitOp DEF Operation, OpShape, Attempting
  <2>2. /\ net' = net
        /\ \A c \in Cells : loaded'[c] = IF c = op.cell THEN op.next
                                                        ELSE loaded[c]
    BY <1>7, <1>a, <2>1 DEF Commit, kernel
  <2>3. op.next # NotLoaded
    BY <2>1, FullRecord
  <2>4. QED
    BY <2>1, <2>2, <2>3
<1>8. CASE RetireEntries
  <2>1. /\ op.step = "retire" /\ op.prev \in LoadedCell /\ op.cell \in Cells
        /\ op.next = loaded[op.cell] /\ op'.step = "retireScopes"
        /\ op.next \in LoadedCell
    BY <1>8, <1>a, RetireEntriesOp DEF Operation, OpShape, RetireEntries
  <2>2. op.next # NotLoaded /\ op.prev # NotLoaded
    BY <2>1, FullRecord
  <2>3. /\ UNCHANGED loaded
        /\ \A k \in Classes, key \in NetKeys :
              key \in net'[k] <=>
              /\ key \in net[k]
              /\ ~ /\ k = ClassOf(op.prev) /\ key \in op.prev.net
                   /\ k = K => key \notin op.next.net
    BY <1>8, <1>a, <2>2 DEF RetireEntries, Kept, SameCollection
  <2>4. \A c \in Cells, key \in NetKeys :
           c # op.cell /\ key \in loaded[c].net => key \notin op.prev.net
    BY <2>1, KeysApart
  <2>5. ASSUME NEW k \in Classes, NEW key \in net'[k]
        PROVE  \E c \in Cells : Holds(c, k)' /\ key \in loaded'[c].net
    <3>1. key \in NetKeys /\ key \in net[k]
      BY <1>a, <2>3, <2>5
    <3>2. CASE k = K /\ key \in op.next.net
      BY <2>1, <2>2, <2>3, <3>2
    <3>3. CASE ~(k = K /\ key \in op.next.net)
      BY <2>1, <2>3, <2>5, <3>1, <3>3
    <3>4. QED
      BY <3>2, <3>3
  <2>6. ASSUME NEW k \in Classes, NEW c \in Cells, Holds(c, k)'
        PROVE  loaded'[c].net \subseteq net'[k]
    BY <1>a, <2>1, <2>2, <2>3, <2>4, <2>6
  <2>7. QED
    BY <2>1, <2>5, <2>6
<1>9. CASE RollBackEntries
  <2>1. /\ op.step = "rollback" /\ op.next \in LoadedCell /\ op.cell \in Cells
        /\ op.prev = loaded[op.cell] /\ op'.step = "rollbackScopes"
    BY <1>9, <1>a, RollBackEntriesOp
    DEF Operation, OpShape, RollBackEntries, Attempting
  <2>2. /\ UNCHANGED loaded
        /\ \A k \in Classes, key \in NetKeys :
              key \in net'[k] <=>
              /\ key \in net[k]
              /\ ~ /\ k = K /\ key \in op.next.net
                   /\ op.prev # NotLoaded /\ k = ClassOf(op.prev)
                      => key \notin op.prev.net
    BY <1>9, <1>a DEF RollBackEntries, Kept, SameCollection
  <2>3. \A c \in Cells, key \in NetKeys :
           c # op.cell /\ key \in loaded[c].net => key \notin op.next.net
    BY <2>1, KeysApart
  <2>4. ASSUME NEW k \in Classes, NEW key \in net'[k]
        PROVE  \E c \in Cells : Holds(c, k)' /\ key \in loaded'[c].net
    <3>1. key \in NetKeys /\ key \in net[k]
      BY <1>a, <2>2, <2>4
    <3>2. CASE /\ op.prev # NotLoaded /\ k = ClassOf(op.prev)
               /\ key \in op.prev.net
      BY <2>1, <2>2, <3>2
    <3>3. CASE ~ /\ op.prev # NotLoaded /\ k = ClassOf(op.prev)
                 /\ key \in op.prev.net
      BY <2>1, <2>2, <2>4, <3>1, <3>3
    <3>4. QED
      BY <3>2, <3>3
  <2>5. ASSUME NEW k \in Classes, NEW c \in Cells, Holds(c, k)'
        PROVE  loaded'[c].net \subseteq net'[k]
    BY <1>a, <2>1, <2>2, <2>3, <2>5
  <2>6. QED
    BY <2>1, <2>4, <2>5
<1>10. CASE RefreshFails \/ RefreshEnds
  <2>1. /\ op.step = "refresh" /\ op.cell \in Cells /\ op.prev = loaded[op.cell]
        /\ op.prev \in LoadedCell /\ op.next.on = op.prev.on
        /\ op.next.net = op.prev.net
    BY <1>10, <1>a DEF RefreshFails, RefreshEnds, OpShape
  <2>2. net' = net /\ op' = NoOp
    BY <1>10 DEF RefreshFails, RefreshEnds
  <2>3. \A c \in Cells : /\ loaded'[c].on = loaded[c].on
                         /\ loaded'[c].net = loaded[c].net
                         /\ loaded'[c] # NotLoaded <=> loaded[c] # NotLoaded
    BY <1>10, <2>1, RefreshedRecord DEF RefreshFails
  <2>4. QED
    BY <2>1, <2>2, <2>3, EmptyOp, FullRecord
<1>11. ASSUME NEW c \in Cells, DisarmEntries(c) PROVE NetInv'
  <2>1. /\ op.step = "none" /\ op'.step = "disarmScopes" /\ op'.cell = c
        /\ loaded[c] # NotLoaded
        /\ loaded' = [loaded EXCEPT ![c] = loaded'[c]]
    BY <1>11, DisarmEntriesOp, EmptyOp, FullRecord DEF Operation
  <2>2. \A k \in Classes, key \in NetKeys :
           key \in net'[k] <=>
           key \in net[k] /\ ~(k = ClassOf(loaded[c]) /\ key \in loaded[c].net)
    BY <1>11, <1>a DEF DisarmEntries
  <2>3. \A d \in Cells, key \in NetKeys :
           d # c /\ key \in loaded[d].net => key \notin loaded[c].net
    BY KeysApart
  <2>4. ASSUME NEW k \in Classes, NEW key \in net'[k]
        PROVE  \E d \in Cells : Holds(d, k)' /\ key \in loaded'[d].net
    <3>1. key \in NetKeys /\ key \in net[k]
      BY <1>a, <2>2, <2>4
    <3>2. PICK d \in Cells : Holds(d, k) /\ key \in loaded[d].net
      BY <2>1, <3>1
    <3>3. d # c
      BY <2>2, <2>4, <3>1, <3>2
    <3>4. QED
      BY <1>a, <2>1, <3>2, <3>3
  <2>5. ASSUME NEW k \in Classes, NEW d \in Cells, Holds(d, k)'
        PROVE  loaded'[d].net \subseteq net'[k]
    <3>1. d # c /\ loaded'[d] = loaded[d] /\ Holds(d, k)
      BY <1>a, <2>1, <2>5
    <3>2. QED
      BY <1>a, <2>2, <2>3, <3>1
  <2>6. QED
    BY <2>1, <2>4, <2>5
<1>12. CASE DisarmScopes
  <2>1. /\ op.step = "disarmScopes" /\ op'.step = "finalize" /\ net' = net
        /\ \A c \in Cells : loaded'[c] = IF c = op.cell THEN NotLoaded
                                                        ELSE loaded[c]
    BY <1>12, <1>a, DisarmScopesOp DEF DisarmScopes, Operation
  <2>2. QED
    BY <2>1
<1>13. CASE AgentRestarts
  BY <1>13, EmptyOp DEF AgentRestarts
<1>14. QED
  BY <1>1, <1>2, <1>4, <1>5, <1>6, <1>7, <1>8, <1>9, <1>10, <1>11,
     <1>12, <1>13, EntrySteps
  DEF EntriesMove

\* The same of the file rules.
FileInv ==
    \A k \in Classes :
        /\ \A key \in file[k] :
              \/ \E c \in Cells : Holds(c, k) /\ key \in loaded[c].file
              \/ Attempt(k) /\ key \in op.next.file
              \/ Retired(k) /\ key \in op.prev.file
        /\ \A c \in Cells : Holds(c, k) => loaded[c].file \subseteq file[k]
        /\ Attempt(k) => op.next.file \subseteq file[k]

\* Every step keeps the file rules with their owners; Refresh swaps them one
\* key at a time and deletes the old ones only after the new ones are
\* written.
LEMMA FileKept ==
    ASSUME Typed, KeysOwned, PodsApart, FileInv, [Next]_vars
    PROVE  FileInv'
<1> USE DEF Holds, Attempt, Retired, K, ClassOf, ArmSteps, FileInv
<1>a. /\ loaded \in [Cells -> AnyRecord] /\ OpShape /\ PassShape
      /\ file \in [Classes -> SUBSET FileKeys]
      /\ file' \in [Classes -> SUBSET FileKeys]
      /\ op.step # "none" => op.cell \in Cells
  BY KernelTyped DEF Typed, Shape, OpShape, AgentTypes, KernelTypes
<1>1. CASE EntriesStay
  BY <1>1 DEF EntriesStay, Resting
<1>2. ASSUME NEW key \in NetKeys, UpdateNetAllow(key) PROVE FileInv'
  <2>1. /\ op'.step = "net" /\ op'.cell = op.cell /\ op'.prev = op.prev
        /\ op'.next.file = op.next.file /\ op'.next.on = op.next.on
    BY <1>2, UpdateNetAllowOp
  <2>2. op.step = "net" /\ UNCHANGED <<file, loaded>>
    BY <1>2 DEF UpdateNetAllow
  <2>3. QED
    BY <2>1, <2>2
<1>4. ASSUME NEW c \in Cells, ArmBegins(c) PROVE FileInv'
  <2>1. /\ op.step = "none" /\ op'.step = "scopes"
        /\ op'.next = Record(pass.listed[c], {}, {}, {})
    BY <1>4, ArmBeginsOp, EmptyOp DEF Operation
  <2>2. op'.next.file = {}
    BY <2>1 DEF Record
  <2>3. UNCHANGED <<file, loaded>>
    BY <1>4 DEF ArmBegins, kernel
  <2>4. QED
    BY <2>1, <2>2, <2>3
<1>5. ASSUME NEW c \in Cells, RefreshBegins(c) PROVE FileInv'
  <2>1. /\ op.step = "none" /\ op'.step = "refresh"
        /\ op'.next = Record(loaded[c].on, loaded[c].links, loaded[c].net, {})
        /\ loaded[c] # NotLoaded
    BY <1>5, RefreshBeginsOp, EmptyOp, FullRecord DEF Operation
  <2>2. op'.next.file = {}
    BY <2>1 DEF Record
  <2>3. UNCHANGED <<file, loaded>>
    BY <1>5 DEF RefreshBegins, kernel
  <2>4. QED
    BY <2>1, <2>2, <2>3
<1>6. ASSUME NEW key \in FileKeys, UpdateFileRule(key) PROVE FileInv'
  <2>1. /\ op'.step = op.step /\ op'.cell = op.cell /\ op'.next.on = op.next.on
        /\ op'.next.file = op.next.file \cup {key}
    BY <1>6, UpdateFileRuleOp
  <2>2. /\ op.step \in {"files", "refresh"} /\ UNCHANGED loaded
        /\ file' = [file EXCEPT ![K] = @ \cup {key}]
    BY <1>6 DEF UpdateFileRule
  <2>3. \A k \in Classes : file'[k] = IF k = K THEN file[k] \cup {key}
                                              ELSE file[k]
    BY <1>a, <2>2
  <2>4. \A k \in Classes : /\ Attempt(k) <=> k = K
                           /\ Attempt(k)' <=> k = K
    BY <2>1, <2>2
  <2>5. \A k \in Classes : ~Retired(k) /\ ~Retired(k)'
    BY <2>1, <2>2
  <2>6. \A k \in Classes, c \in Cells : Holds(c, k)' <=> Holds(c, k)
    BY <2>1, <2>2
  <2>7. ASSUME NEW k \in Classes, NEW x \in file'[k]
        PROVE  \/ \E c \in Cells : Holds(c, k)' /\ x \in loaded'[c].file
               \/ Attempt(k)' /\ x \in op'.next.file
    BY <2>1, <2>2, <2>3, <2>4, <2>5, <2>6, <2>7
  <2>8. ASSUME NEW k \in Classes, NEW c \in Cells, Holds(c, k)'
        PROVE  loaded'[c].file \subseteq file'[k]
    <3>1. loaded[c].file \subseteq file[k] /\ loaded' = loaded
      BY <2>2, <2>6, <2>8
    <3>2. QED
      BY <2>3, <3>1
  <2>9. ASSUME NEW k \in Classes, Attempt(k)'
        PROVE  op'.next.file \subseteq file'[k]
    <3>1. op.next.file \subseteq file[k] /\ k = K
      BY <2>4, <2>9
    <3>2. QED
      BY <2>1, <2>3, <3>1
  <2>10. QED
    BY <2>7, <2>8, <2>9
<1>7. CASE Commit
  <2>1. /\ op.step = "links" /\ op.next \in LoadedCell /\ op.cell \in Cells
        /\ op.prev = loaded[op.cell] /\ op'.prev = op.prev
        /\ op'.step = IF op.prev = NotLoaded THEN "report" ELSE "retire"
        /\ op'.next = op.next
    BY <1>7, <1>a, CommitOp DEF Operation, OpShape, Attempting
  <2>2. /\ file' = file
        /\ \A c \in Cells : loaded'[c] = IF c = op.cell THEN op.next
                                                        ELSE loaded[c]
    BY <1>7, <1>a, <2>1 DEF Commit, kernel
  <2>3. op.next # NotLoaded
    BY <2>1, FullRecord
  <2>4. QED
    BY <2>1, <2>2, <2>3
<1>8. CASE RetireEntries
  <2>1. /\ op.step = "retire" /\ op.prev \in LoadedCell /\ op.cell \in Cells
        /\ op.next = loaded[op.cell] /\ op'.step = "retireScopes"
        /\ op.next \in LoadedCell
    BY <1>8, <1>a, RetireEntriesOp DEF Operation, OpShape, RetireEntries
  <2>2. op.next # NotLoaded /\ op.prev # NotLoaded
    BY <2>1, FullRecord
  <2>3. /\ UNCHANGED loaded
        /\ \A k \in Classes, key \in FileKeys :
              key \in file'[k] <=>
              /\ key \in file[k]
              /\ ~ /\ k = ClassOf(op.prev) /\ key \in op.prev.file
                   /\ k = K => key \notin op.next.file
    BY <1>8, <1>a, <2>2 DEF RetireEntries, Kept, SameCollection
  <2>4. \A c \in Cells, key \in FileKeys :
           c # op.cell /\ key \in loaded[c].file => key \notin op.prev.file
    BY <2>1, KeysApart
  <2>5. ASSUME NEW k \in Classes, NEW key \in file'[k]
        PROVE  \E c \in Cells : Holds(c, k)' /\ key \in loaded'[c].file
    <3>1. key \in FileKeys /\ key \in file[k]
      BY <1>a, <2>3, <2>5
    <3>2. CASE k = K /\ key \in op.next.file
      BY <2>1, <2>2, <2>3, <3>2
    <3>3. CASE ~(k = K /\ key \in op.next.file)
      BY <2>1, <2>3, <2>5, <3>1, <3>3
    <3>4. QED
      BY <3>2, <3>3
  <2>6. ASSUME NEW k \in Classes, NEW c \in Cells, Holds(c, k)'
        PROVE  loaded'[c].file \subseteq file'[k]
    BY <1>a, <2>1, <2>2, <2>3, <2>4, <2>6
  <2>7. QED
    BY <2>1, <2>5, <2>6
<1>9. CASE RollBackEntries
  <2>1. /\ op.step = "rollback" /\ op.next \in LoadedCell /\ op.cell \in Cells
        /\ op.prev = loaded[op.cell] /\ op'.step = "rollbackScopes"
    BY <1>9, <1>a, RollBackEntriesOp
    DEF Operation, OpShape, RollBackEntries, Attempting
  <2>2. /\ UNCHANGED loaded
        /\ \A k \in Classes, key \in FileKeys :
              key \in file'[k] <=>
              /\ key \in file[k]
              /\ ~ /\ k = K /\ key \in op.next.file
                   /\ op.prev # NotLoaded /\ k = ClassOf(op.prev)
                      => key \notin op.prev.file
    BY <1>9, <1>a DEF RollBackEntries, Kept, SameCollection
  <2>3. \A c \in Cells, key \in FileKeys :
           c # op.cell /\ key \in loaded[c].file => key \notin op.next.file
    BY <2>1, KeysApart
  <2>4. ASSUME NEW k \in Classes, NEW key \in file'[k]
        PROVE  \E c \in Cells : Holds(c, k)' /\ key \in loaded'[c].file
    <3>1. key \in FileKeys /\ key \in file[k]
      BY <1>a, <2>2, <2>4
    <3>2. CASE /\ op.prev # NotLoaded /\ k = ClassOf(op.prev)
               /\ key \in op.prev.file
      BY <2>1, <2>2, <3>2
    <3>3. CASE ~ /\ op.prev # NotLoaded /\ k = ClassOf(op.prev)
                 /\ key \in op.prev.file
      BY <2>1, <2>2, <2>4, <3>1, <3>3
    <3>4. QED
      BY <3>2, <3>3
  <2>5. ASSUME NEW k \in Classes, NEW c \in Cells, Holds(c, k)'
        PROVE  loaded'[c].file \subseteq file'[k]
    BY <1>a, <2>1, <2>2, <2>3, <2>5
  <2>6. QED
    BY <2>1, <2>4, <2>5
<1>10. CASE RefreshFails
  <2>1. /\ op.step = "refresh" /\ op.cell \in Cells /\ op.prev = loaded[op.cell]
        /\ op.prev # NotLoaded /\ op.next.on = op.prev.on
    BY <1>10, <1>a, FullRecord DEF RefreshFails, OpShape
  <2>2. op'.step = "none" /\ UNCHANGED loaded
    BY <1>10, EmptyOp DEF RefreshFails
  <2>3. \A k \in Classes, key \in FileKeys :
           key \in file'[k] <=>
           key \in file[k]
           /\ ~(k = K /\ key \in op.next.file /\ key \notin op.prev.file)
    BY <1>10, <1>a DEF RefreshFails
  <2>4. ASSUME NEW k \in Classes, NEW key \in file'[k]
        PROVE  \E c \in Cells : Holds(c, k)' /\ key \in loaded'[c].file
    <3>1. key \in FileKeys /\ key \in file[k]
      BY <1>a, <2>3, <2>4
    <3>2. CASE k = K /\ key \in op.prev.file
      BY <2>1, <2>2, <3>2
    <3>3. CASE ~(k = K /\ key \in op.prev.file)
      BY <2>1, <2>2, <2>3, <2>4, <3>1, <3>3
    <3>4. QED
      BY <3>2, <3>3
  <2>5. \A c \in Cells, key \in FileKeys :
           c # op.cell /\ key \in loaded[c].file => key \notin op.next.file
    BY <2>1, KeysApart
  <2>6. ASSUME NEW k \in Classes, NEW c \in Cells, Holds(c, k)'
        PROVE  loaded'[c].file \subseteq file'[k]
    BY <1>a, <2>1, <2>2, <2>3, <2>5, <2>6
  <2>7. QED
    BY <2>2, <2>4, <2>6
<1>15. CASE RefreshEnds
  <2>1. /\ op.step = "refresh" /\ op.cell \in Cells /\ op.prev = loaded[op.cell]
        /\ op.prev # NotLoaded /\ op.next.on = op.prev.on
    BY <1>15, <1>a, FullRecord DEF RefreshEnds, OpShape
  <2>2. op'.step = "none"
    BY <1>15, EmptyOp DEF RefreshEnds
  <2>3. \A k \in Classes, key \in FileKeys :
           key \in file'[k] <=>
           key \in file[k]
           /\ ~(k = K /\ key \in op.prev.file /\ key \notin op.next.file)
    BY <1>15, <1>a DEF RefreshEnds
  <2>4. \A c \in Cells : /\ loaded'[c].on = loaded[c].on
                         /\ loaded'[c].file = IF c = op.cell THEN op.next.file
                                                           ELSE loaded[c].file
                         /\ loaded'[c] # NotLoaded <=> loaded[c] # NotLoaded
    BY <1>15, RefreshedRecord
  <2>5. ASSUME NEW k \in Classes, NEW key \in file'[k]
        PROVE  \E c \in Cells : Holds(c, k)' /\ key \in loaded'[c].file
    <3>1. key \in FileKeys /\ key \in file[k]
      BY <1>a, <2>3, <2>5
    <3>2. CASE k = K /\ key \in op.next.file
      BY <2>1, <2>2, <2>4, <3>2
    <3>3. CASE ~(k = K /\ key \in op.next.file)
      <4>1. PICK c \in Cells : Holds(c, k) /\ key \in loaded[c].file
        BY <2>1, <3>1, <3>3
      <4>2. c # op.cell
        BY <2>1, <2>3, <2>5, <3>1, <3>3, <4>1
      <4>3. QED
        BY <2>2, <2>4, <4>1, <4>2
    <3>4. QED
      BY <3>2, <3>3
  <2>6. \A c \in Cells, key \in FileKeys :
           c # op.cell /\ key \in loaded[c].file => key \notin op.prev.file
    BY <2>1, KeysApart
  <2>7. ASSUME NEW k \in Classes, NEW c \in Cells, Holds(c, k)'
        PROVE  loaded'[c].file \subseteq file'[k]
    <3>1. Holds(c, k)
      BY <2>1, <2>2, <2>4, <2>7
    <3>2. CASE c = op.cell
      <4>1. k = K /\ loaded'[c].file = op.next.file
        BY <2>1, <2>4, <3>1, <3>2
      <4>2. op.next.file \subseteq file[K] /\ op.next.file \subseteq FileKeys
        BY <1>a, <2>1, <4>1
      <4>3. QED
        BY <2>3, <4>1, <4>2
    <3>3. CASE c # op.cell
      BY <1>a, <2>3, <2>4, <2>6, <3>1, <3>3
    <3>4. QED
      BY <3>2, <3>3
  <2>8. QED
    BY <2>2, <2>5, <2>7
<1>11. ASSUME NEW c \in Cells, DisarmEntries(c) PROVE FileInv'
  <2>1. /\ op.step = "none" /\ op'.step = "disarmScopes" /\ op'.cell = c
        /\ loaded[c] # NotLoaded
        /\ loaded' = [loaded EXCEPT ![c] = loaded'[c]]
    BY <1>11, DisarmEntriesOp, EmptyOp, FullRecord DEF Operation
  <2>2. \A k \in Classes, key \in FileKeys :
           key \in file'[k] <=>
           key \in file[k] /\ ~(k = ClassOf(loaded[c]) /\ key \in loaded[c].file)
    BY <1>11, <1>a DEF DisarmEntries
  <2>3. \A d \in Cells, key \in FileKeys :
           d # c /\ key \in loaded[d].file => key \notin loaded[c].file
    BY KeysApart
  <2>4. ASSUME NEW k \in Classes, NEW key \in file'[k]
        PROVE  \E d \in Cells : Holds(d, k)' /\ key \in loaded'[d].file
    <3>1. key \in FileKeys /\ key \in file[k]
      BY <1>a, <2>2, <2>4
    <3>2. PICK d \in Cells : Holds(d, k) /\ key \in loaded[d].file
      BY <2>1, <3>1
    <3>3. d # c
      BY <2>2, <2>4, <3>1, <3>2
    <3>4. QED
      BY <1>a, <2>1, <3>2, <3>3
  <2>5. ASSUME NEW k \in Classes, NEW d \in Cells, Holds(d, k)'
        PROVE  loaded'[d].file \subseteq file'[k]
    <3>1. d # c /\ loaded'[d] = loaded[d] /\ Holds(d, k)
      BY <1>a, <2>1, <2>5
    <3>2. QED
      BY <1>a, <2>2, <2>3, <3>1
  <2>6. QED
    BY <2>1, <2>4, <2>5
<1>12. CASE DisarmScopes
  <2>1. /\ op.step = "disarmScopes" /\ op'.step = "finalize" /\ file' = file
        /\ \A c \in Cells : loaded'[c] = IF c = op.cell THEN NotLoaded
                                                        ELSE loaded[c]
    BY <1>12, <1>a, DisarmScopesOp DEF DisarmScopes, Operation
  <2>2. QED
    BY <2>1
<1>13. CASE AgentRestarts
  BY <1>13, EmptyOp DEF AgentRestarts
<1>14. QED
  BY <1>1, <1>2, <1>4, <1>5, <1>6, <1>7, <1>8, <1>9, <1>10, <1>11,
     <1>12, <1>13, <1>15, EntrySteps
  DEF EntriesMove

\* A cell whose scope a failed re-arm could not write back is known to be so.
Unrestored(c) == <<c, "unrestored">> \in mishaps

\* A cgroup's scope entry names the cell that owns it, and a loaded cell has
\* the scope of each of its cgroups unless a failed restore lost it.
ScopeInv ==
    \A k \in Classes, g \in Cgroups :
        /\ scope[k][g] # None
           => \/ /\ loaded[scope[k][g]] # NotLoaded
                 /\ ClassOf(loaded[scope[k][g]]) = k
                 /\ g \in loaded[scope[k][g]].on.cgroups
              \/ /\ scope[k][g] = op.cell /\ op.step \in Attempting /\ k = K
                 /\ g \in op.next.on.cgroups
              \/ /\ scope[k][g] = op.cell
                 /\ op.step \in {"retire", "retireScopes"}
                 /\ k = ClassOf(op.prev) /\ g \in op.prev.on.cgroups
        /\ \A c \in Cells :
              /\ loaded[c] # NotLoaded /\ ClassOf(loaded[c]) = k
              /\ g \in loaded[c].on.cgroups /\ ~Unrestored(c)
              => \/ scope[k][g] = c
                 \/ op.cell = c /\ op.step = "restore" /\ g \in op.todo
        /\ /\ op.step \in ArmSteps /\ k = K /\ g \in op.next.on.cgroups
           /\ ~(op.step = "scopes" /\ g \in op.todo)
           => scope[k][g] = op.cell

\* The steps that leave the scope map alone.
Unscoping == {"none", "report", "refresh", "disarmScopes", "finalize"}

OwnersStay ==
    \A c \in Cells : /\ loaded'[c].on = loaded[c].on
                     /\ loaded'[c] # NotLoaded <=> loaded[c] # NotLoaded
                     /\ Unrestored(c)' <=> Unrestored(c)
ScopesStay ==
    /\ scope' = scope /\ OwnersStay
    /\ \/ op.step \in Unscoping /\ op'.step \in Unscoping
       \/ op' = op
       \/ /\ op.step \in ArmSteps
          /\ op.step = "scopes" => op.todo = {}
          /\ op'.step \in ArmSteps \ {"scopes"}
          /\ op'.cell = op.cell /\ op'.next.on = op.next.on
       \/ /\ op.step \in Attempting
          /\ op'.step \in {"rollback", "rollbackScopes"}
          /\ op'.cell = op.cell /\ op'.next.on = op.next.on
       \/ /\ op.step = "retire" /\ op'.step = "retireScopes"
          /\ op'.cell = op.cell /\ op'.prev.on = op.prev.on
       \/ op.step = "restore" /\ op.todo = {} /\ op'.step \in Unscoping

\* The steps that write it, or that change who owns an entry.
ScopesMove ==
    \/ RetireScopes \/ RollBackScopes \/ DisarmScopes \/ AgentRestarts
    \/ Commit
    \/ \E c \in Cells : ArmBegins(c)
    \/ \E g \in Cgroups : UpdateCellScope(g) \/ RestoreCellScope(g)

\* Every step is one or the other.
LEMMA ScopeSteps ==
    ASSUME Typed, [Next]_vars
    PROVE  ScopesStay \/ ScopesMove
<1> USE EmptyOp DEF ScopesStay, OwnersStay, Unrestored, ArmSteps, Unscoping,
                    Attempting, kernel
<1>1. ASSUME NEW c \in Cells,
             ExecRulesFail(c) \/ RefreshNothing(c) \/ CollectFails(c)
      PROVE  ScopesStay
  BY <1>1 DEF ExecRulesFail, RefreshNothing, CollectFails
<1>2. ASSUME NEW c \in Cells, AlreadyArmed(c) PROVE ScopesStay
  BY <1>2, AlreadyArmedOp DEF AlreadyArmed, Operation
<1>3. ASSUME NEW c \in Cells, RefreshBegins(c) PROVE ScopesStay
  <2>1. op.step = "none" /\ op'.step = "refresh"
    BY <1>3, RefreshBeginsOp DEF Operation
  <2>2. UNCHANGED <<scope, loaded, mishaps>>
    BY <1>3 DEF RefreshBegins
  <2>3. QED
    BY <2>1, <2>2
<1>4. ASSUME NEW c \in Cells, DisarmEntries(c) PROVE ScopesStay
  <2>1. /\ op.step = "none" /\ op'.step = "disarmScopes"
        /\ loaded' = [loaded EXCEPT ![c] = loaded'[c]]
        /\ loaded'[c] = Record(loaded[c].on, {}, loaded[c].net,
                               loaded[c].file)
        /\ loaded[c] # NotLoaded /\ loaded'[c] # NotLoaded
    BY <1>4, DisarmEntriesOp, FullRecord DEF Operation
  <2>2. loaded'[c].on = loaded[c].on
    BY <2>1 DEF Record
  <2>3. \A d \in Cells \ {c} : loaded'[d] = loaded[d]
    BY <2>1 DEF Typed, AgentTypes
  <2>4. scope' = scope /\ mishaps' = mishaps
    BY <1>4 DEF DisarmEntries
  <2>5. QED
    BY <2>1, <2>2, <2>3, <2>4
<1>5. ASSUME NEW c \in Cells, DisarmNothing(c) PROVE ScopesStay
  BY <1>5, DisarmNothingOp DEF DisarmNothing, Operation
<1>6. CASE CollectFileRules
  BY <1>6, CollectFileRulesOp DEF CollectFileRules, Operation
<1>7. ASSUME NEW key \in FileKeys, UpdateFileRule(key) PROVE ScopesStay
  <2>1. /\ op'.step = op.step /\ op'.cell = op.cell
        /\ op'.next.on = op.next.on
    BY <1>7, UpdateFileRuleOp
  <2>2. op.step \in {"files", "refresh"} /\ UNCHANGED <<scope, loaded, mishaps>>
    BY <1>7 DEF UpdateFileRule
  <2>3. QED
    BY <2>1, <2>2
<1>8. CASE NeedGates
  BY <1>8, NeedGatesOp DEF NeedGates, Operation
<1>9. ASSUME NEW gate \in {"exec", "file"}, AttachLsm(gate) PROVE ScopesStay
  BY <1>9, AttachLsmOp DEF AttachLsm, Operation
<1>10. CASE ResolveNetKeys
  BY <1>10, ResolveNetKeysOp DEF ResolveNetKeys, Operation
<1>11. ASSUME NEW key \in NetKeys, UpdateNetAllow(key) PROVE ScopesStay
  <2>1. /\ op'.step = "net" /\ op'.cell = op.cell
        /\ op'.next.on = op.next.on
    BY <1>11, UpdateNetAllowOp
  <2>2. op.step = "net" /\ UNCHANGED <<scope, loaded, mishaps>>
    BY <1>11 DEF UpdateNetAllow
  <2>3. QED
    BY <2>1, <2>2
<1>12. ASSUME NEW hook \in Hooks, AttachConnect(hook) PROVE ScopesStay
  <2>1. /\ op.step \in {"net", "links"} /\ op'.step = "links"
        /\ UNCHANGED <<scope, loaded, mishaps>> /\ op'.cell = op.cell
        /\ op'.next = Record(op.next.on, op.next.links \cup {hook},
                             op.next.net, op.next.file)
    BY <1>12, AttachConnectOp DEF AttachConnect, Operation
  <2>2. QED
    BY <2>1 DEF Record
<1>13. CASE RetireEntries
  <2>1. /\ op.step = "retire" /\ op'.step = "retireScopes"
        /\ UNCHANGED <<scope, loaded, mishaps>> /\ op'.cell = op.cell
        /\ op'.prev = Record(op.prev.on, {}, op.prev.net, op.prev.file)
    BY <1>13, RetireEntriesOp DEF RetireEntries, Operation
  <2>2. QED
    BY <2>1 DEF Record
<1>14. CASE RollBackEntries
  <2>1. /\ op.step = "rollback" /\ op'.step = "rollbackScopes"
        /\ UNCHANGED <<scope, loaded, mishaps>> /\ op'.cell = op.cell
        /\ op'.next = Record(op.next.on, {}, op.next.net, op.next.file)
    BY <1>14, RollBackEntriesOp DEF RollBackEntries, Operation
  <2>2. QED
    BY <2>1 DEF Record
<1>15. CASE ArmFails
  BY <1>15, ArmFailsOp DEF ArmFails, Operation
<1>16. CASE Restored
  BY <1>16 DEF Restored
<1>17. CASE ReportArmed \/ ReportRefused
  BY <1>17 DEF ReportArmed, ReportRefused
<1>18. CASE FinalizeDisarm \/ FinalizeRefused
  BY <1>18 DEF FinalizeDisarm, FinalizeRefused
<1>19. CASE RefreshFails
  BY <1>19 DEF RefreshFails
<1>20. CASE RefreshEnds
  BY <1>20, RefreshedRecord DEF RefreshEnds
<1>21. CASE ListCells \/ EndPass
  BY <1>21 DEF ListCells, EndPass
<1>22. CASE Cluster \/ UNCHANGED vars
  BY <1>22, ClusterFrame DEF vars
<1>23. QED
  BY <1>1, <1>2, <1>3, <1>4, <1>5, <1>6, <1>7, <1>8, <1>9, <1>10, <1>11,
     <1>12, <1>13, <1>14, <1>15, <1>16, <1>17, <1>18, <1>19, <1>20, <1>21,
     <1>22
  DEF Next, Progress, Setback, ScopesMove

\* Every step keeps the scope entries with their owners.
LEMMA ScopeKept ==
    ASSUME Typed, KeysOwned, PodsApart, ScopeInv, [Next]_vars
    PROVE  ScopeInv'
<1> USE DEF ScopeInv, K, ClassOf, ArmSteps, Attempting
<1>a. /\ loaded \in [Cells -> AnyRecord] /\ OpShape
      /\ scope \in [Classes -> [Cgroups -> Cells \cup {None}]]
      /\ op.step # "none" => op.cell \in Cells
      /\ None \notin Cells
  BY NodeAssumption DEF Typed, Shape, OpShape, AgentTypes, KernelTypes
<1>1. CASE ScopesStay
  <2>1. \A k \in Classes, g \in Cgroups : scope'[k][g] = scope[k][g]
    BY <1>1 DEF ScopesStay
  <2>2. \A c \in Cells :
          /\ loaded'[c].on = loaded[c].on
          /\ loaded'[c] # NotLoaded <=> loaded[c] # NotLoaded
          /\ Unrestored(c)' <=> Unrestored(c)
    BY <1>1 DEF ScopesStay, OwnersStay
  <2>3. \A k \in Classes, g \in Cgroups :
          scope[k][g] # None => scope[k][g] \in Cells
    BY <1>a
  <2>4. CASE op.step \in Unscoping /\ op'.step \in Unscoping
    BY <2>1, <2>2, <2>3, <2>4 DEF Unscoping
  <2>5. CASE op' = op
    BY <2>1, <2>2, <2>3, <2>5
  <2>6. CASE /\ op.step \in ArmSteps
             /\ op.step = "scopes" => op.todo = {}
             /\ op'.step \in ArmSteps \ {"scopes"}
             /\ op'.cell = op.cell /\ op'.next.on = op.next.on
    <3>1. K' = K
      BY <2>6
    <3>2. ASSUME NEW k \in Classes, NEW g \in Cgroups, scope'[k][g] # None
          PROVE  \/ /\ loaded'[scope'[k][g]] # NotLoaded
                    /\ ClassOf(loaded'[scope'[k][g]]) = k
                    /\ g \in loaded'[scope'[k][g]].on.cgroups
                 \/ /\ scope'[k][g] = op'.cell /\ k = K'
                    /\ g \in op'.next.on.cgroups
      BY <2>1, <2>2, <2>3, <2>6, <3>1, <3>2
    <3>3. ASSUME NEW k \in Classes, NEW g \in Cgroups, NEW c \in Cells,
                 loaded'[c] # NotLoaded, ClassOf(loaded'[c]) = k,
                 g \in loaded'[c].on.cgroups, ~Unrestored(c)'
          PROVE  scope'[k][g] = c
      BY <2>1, <2>2, <2>6, <3>3
    <3>4. ASSUME NEW k \in Classes, NEW g \in Cgroups, k = K',
                 g \in op'.next.on.cgroups
          PROVE  scope'[k][g] = op'.cell
      BY <2>1, <2>6, <3>1, <3>4
    <3>5. QED
      BY <2>6, <3>2, <3>3, <3>4
  <2>7. CASE /\ op.step \in Attempting
             /\ op'.step \in {"rollback", "rollbackScopes"}
             /\ op'.cell = op.cell /\ op'.next.on = op.next.on
    BY <2>1, <2>2, <2>3, <2>7
  <2>8. CASE /\ op.step = "retire" /\ op'.step = "retireScopes"
             /\ op'.cell = op.cell /\ op'.prev.on = op.prev.on
    BY <2>1, <2>2, <2>3, <2>8
  <2>9. CASE op.step = "restore" /\ op.todo = {} /\ op'.step \in Unscoping
    BY <2>1, <2>2, <2>3, <2>9 DEF Unscoping
  <2>10. QED
    BY <1>1, <2>4, <2>5, <2>6, <2>7, <2>8, <2>9 DEF ScopesStay
<1>2. CASE RetireScopes
  <2>1. /\ op.step = "retireScopes" /\ op.prev \in LoadedCell
        /\ op.cell \in Cells /\ op.next = loaded[op.cell]
        /\ op.next \in LoadedCell /\ op'.step = "report"
        /\ UNCHANGED <<loaded, mishaps>>
    BY <1>2, <1>a, RetireScopesOp DEF RetireScopes, Operation, OpShape
  <2>2. op.next # NotLoaded /\ op.prev # NotLoaded
    BY <2>1, FullRecord
  <2>3. \A k \in Classes, g \in Cgroups :
          scope'[k][g] = IF /\ k = ClassOf(op.prev)
                            /\ g \in op.prev.on.cgroups
                            /\ k = K => g \notin op.next.on.cgroups
                         THEN None ELSE scope[k][g]
    BY <1>2, <1>a, <2>2 DEF RetireScopes, Unscoped, Kept, SameCollection
  <2>4. \A c \in Cells, g \in Cgroups :
          c # op.cell /\ g \in loaded[c].on.cgroups
          => g \notin op.prev.on.cgroups
    BY <2>1, KeysApart
  <2>5. ASSUME NEW k \in Classes, NEW g \in Cgroups, scope'[k][g] # None
        PROVE  /\ loaded'[scope'[k][g]] # NotLoaded
               /\ ClassOf(loaded'[scope'[k][g]]) = k
               /\ g \in loaded'[scope'[k][g]].on.cgroups
    BY <1>a, <2>1, <2>2, <2>3, <2>5
  <2>6. ASSUME NEW k \in Classes, NEW g \in Cgroups, NEW c \in Cells,
               loaded'[c] # NotLoaded, ClassOf(loaded'[c]) = k,
               g \in loaded'[c].on.cgroups, ~Unrestored(c)'
        PROVE  scope'[k][g] = c
    BY <1>a, <2>1, <2>2, <2>3, <2>4, <2>6 DEF Unrestored
  <2>7. QED
    BY <2>1, <2>5, <2>6
<1>3. CASE RollBackScopes
  <2>1. /\ op.step = "rollbackScopes" /\ op.next \in LoadedCell
        /\ op.cell \in Cells /\ op.prev = loaded[op.cell]
        /\ UNCHANGED <<loaded, mishaps>>
    BY <1>3, <1>a DEF RollBackScopes, OpShape
  <2>2. \/ op'.step = "none" /\ ~SameCollection
        \/ /\ op'.step = "restore" /\ op'.cell = op.cell
           /\ op'.todo = op.prev.on.cgroups
    BY <1>3, RollBackScopesOp, EmptyOp DEF Operation
  <2>3. \A k \in Classes, g \in Cgroups :
          scope'[k][g] = IF k = K /\ g \in op.next.on.cgroups THEN None
                                                          ELSE scope[k][g]
    BY <1>3, <1>a DEF RollBackScopes, Unscoped
  <2>4. \A c \in Cells, g \in Cgroups :
          c # op.cell /\ g \in loaded[c].on.cgroups
          => g \notin op.next.on.cgroups
    BY <2>1, KeysApart
  <2>5. ASSUME NEW k \in Classes, NEW g \in Cgroups, scope'[k][g] # None
        PROVE  /\ loaded'[scope'[k][g]] # NotLoaded
               /\ ClassOf(loaded'[scope'[k][g]]) = k
               /\ g \in loaded'[scope'[k][g]].on.cgroups
    BY <1>a, <2>1, <2>3, <2>5
  <2>6. ASSUME NEW k \in Classes, NEW g \in Cgroups, NEW c \in Cells,
               loaded'[c] # NotLoaded, ClassOf(loaded'[c]) = k,
               g \in loaded'[c].on.cgroups, ~Unrestored(c)'
        PROVE  \/ scope'[k][g] = c
               \/ op'.cell = c /\ op'.step = "restore" /\ g \in op'.todo
    <3>1. scope[k][g] = c
      BY <2>1, <2>6 DEF Unrestored
    <3>2. CASE c # op.cell
      BY <2>1, <2>3, <2>4, <2>6, <3>1, <3>2
    <3>3. CASE c = op.cell
      BY <2>1, <2>2, <2>3, <2>6, <3>1, <3>3 DEF SameCollection
    <3>4. QED
      BY <3>2, <3>3
  <2>7. op'.step \notin ArmSteps
    BY <2>2
  <2>8. QED
    BY <2>5, <2>6, <2>7
<1>4. CASE DisarmScopes
  <2>1. /\ op.step = "disarmScopes" /\ op'.step = "finalize"
        /\ op.cell \in Cells /\ loaded[op.cell] \in LoadedCell
        /\ mishaps' = mishaps
        /\ \A c \in Cells : loaded'[c] = IF c = op.cell THEN NotLoaded
                                                        ELSE loaded[c]
    BY <1>4, <1>a, DisarmScopesOp DEF DisarmScopes, Operation, OpShape
  <2>2. \A k \in Classes, g \in Cgroups :
          scope'[k][g] = IF /\ k = ClassOf(loaded[op.cell])
                            /\ g \in loaded[op.cell].on.cgroups
                         THEN None ELSE scope[k][g]
    BY <1>4, <1>a DEF DisarmScopes, Unscoped
  <2>3. \A c \in Cells, g \in Cgroups :
          c # op.cell /\ g \in loaded[c].on.cgroups
          => g \notin loaded[op.cell].on.cgroups
    BY <2>1, KeysApart
  <2>4. ASSUME NEW k \in Classes, NEW g \in Cgroups, scope'[k][g] # None
        PROVE  /\ loaded'[scope'[k][g]] # NotLoaded
               /\ ClassOf(loaded'[scope'[k][g]]) = k
               /\ g \in loaded'[scope'[k][g]].on.cgroups
    BY <1>a, <2>1, <2>2, <2>4
  <2>5. ASSUME NEW k \in Classes, NEW g \in Cgroups, NEW c \in Cells,
               loaded'[c] # NotLoaded, ClassOf(loaded'[c]) = k,
               g \in loaded'[c].on.cgroups, ~Unrestored(c)'
        PROVE  scope'[k][g] = c
    BY <1>a, <2>1, <2>2, <2>3, <2>5 DEF Unrestored
  <2>6. QED
    BY <2>1, <2>4, <2>5
<1>5. CASE Commit
  <2>1. /\ op.step = "links" /\ op.next \in LoadedCell /\ op.cell \in Cells
        /\ op.prev = loaded[op.cell] /\ op'.prev = op.prev
        /\ op'.cell = op.cell
        /\ op'.step = IF op.prev = NotLoaded THEN "report" ELSE "retire"
    BY <1>5, <1>a, CommitOp DEF Operation, OpShape
  <2>2. /\ scope' = scope
        /\ \A c \in Cells : /\ loaded'[c] = IF c = op.cell THEN op.next
                                                           ELSE loaded[c]
                            /\ c # op.cell => Unrestored(c)' = Unrestored(c)
    BY <1>5, <1>a, <2>1 DEF Commit, kernel, Unrestored
  <2>3. op.next # NotLoaded
    BY <2>1, FullRecord
  <2>4. ASSUME NEW k \in Classes, NEW g \in Cgroups, scope'[k][g] # None
        PROVE  \/ /\ loaded'[scope'[k][g]] # NotLoaded
                  /\ ClassOf(loaded'[scope'[k][g]]) = k
                  /\ g \in loaded'[scope'[k][g]].on.cgroups
               \/ /\ scope'[k][g] = op'.cell /\ op'.step = "retire"
                  /\ k = ClassOf(op'.prev) /\ g \in op'.prev.on.cgroups
    BY <1>a, <2>1, <2>2, <2>3, <2>4
  <2>5. ASSUME NEW k \in Classes, NEW g \in Cgroups, NEW c \in Cells,
               loaded'[c] # NotLoaded, ClassOf(loaded'[c]) = k,
               g \in loaded'[c].on.cgroups, ~Unrestored(c)'
        PROVE  scope'[k][g] = c
    BY <2>1, <2>2, <2>5
  <2>6. QED
    BY <2>1, <2>4, <2>5
<1>6. ASSUME NEW c \in Cells, ArmBegins(c) PROVE ScopeInv'
  <2>1. /\ op.step = "none" /\ op'.step = "scopes" /\ op'.cell = c
        /\ op'.next = Record(pass.listed[c], {}, {}, {})
        /\ op'.todo = pass.listed[c].cgroups
    BY <1>6, ArmBeginsOp, EmptyOp DEF Operation
  <2>2. op'.next.on = pass.listed[c]
    BY <2>1 DEF Record
  <2>3. UNCHANGED <<scope, loaded, mishaps>>
    BY <1>6 DEF ArmBegins, kernel
  <2>4. QED
    BY <2>1, <2>2, <2>3 DEF Unrestored
<1>7. ASSUME NEW h \in Cgroups, UpdateCellScope(h) PROVE ScopeInv'
  <2>1. /\ op.step = "scopes" /\ op'.step = "scopes" /\ op'.cell = op.cell
        /\ op'.next = op.next /\ op'.todo = op.todo \ {h} /\ h \in op.todo
        /\ UNCHANGED <<loaded, mishaps>> /\ op.next \in LoadedCell
        /\ h \in op.next.on.cgroups /\ op.cell \in Cells
    BY <1>7, <1>a, UpdateCellScopeOp DEF UpdateCellScope, Operation, OpShape
  <2>2. \A k \in Classes, g \in Cgroups :
          scope'[k][g] = IF k = K /\ g = h THEN op.cell ELSE scope[k][g]
    BY <1>7, <1>a DEF UpdateCellScope
  <2>3. \A c \in Cells : c # op.cell => h \notin loaded[c].on.cgroups
    BY <2>1, KeysApart
  <2>4. ASSUME NEW k \in Classes, NEW g \in Cgroups, scope'[k][g] # None
        PROVE  \/ /\ loaded'[scope'[k][g]] # NotLoaded
                  /\ ClassOf(loaded'[scope'[k][g]]) = k
                  /\ g \in loaded'[scope'[k][g]].on.cgroups
               \/ /\ scope'[k][g] = op'.cell /\ k = K'
                  /\ g \in op'.next.on.cgroups
    BY <2>1, <2>2, <2>4
  <2>5. ASSUME NEW k \in Classes, NEW g \in Cgroups, NEW c \in Cells,
               loaded'[c] # NotLoaded, ClassOf(loaded'[c]) = k,
               g \in loaded'[c].on.cgroups, ~Unrestored(c)'
        PROVE  scope'[k][g] = c
    BY <2>1, <2>2, <2>3, <2>5 DEF Unrestored
  <2>6. ASSUME NEW k \in Classes, NEW g \in Cgroups,
               k = K', g \in op'.next.on.cgroups, g \notin op'.todo
        PROVE  scope'[k][g] = op'.cell
    BY <2>1, <2>2, <2>6
  <2>7. QED
    BY <2>1, <2>4, <2>5, <2>6
<1>8. ASSUME NEW h \in Cgroups, RestoreCellScope(h) PROVE ScopeInv'
  <2>a. op.step = "restore" /\ h \in op.todo /\ loaded' = loaded
    BY <1>8 DEF RestoreCellScope
  <2>b. /\ op'.step = "restore" /\ op'.cell = op.cell
        /\ op'.todo = op.todo \ {h}
    BY <1>8, RestoreCellScopeOp DEF Operation
  <2>c. /\ op.next \in LoadedCell /\ op.prev \in LoadedCell
        /\ op.prev = loaded[op.cell] /\ ClassOf(op.prev) = K
        /\ op.todo \subseteq op.prev.on.cgroups /\ op.cell \in Cells
    BY <1>a, <2>a DEF OpShape
  <2>2. loaded[op.cell] # NotLoaded
    BY <2>a, <2>b, <2>c, FullRecord
  <2>3. \A c \in Cells : c # op.cell => h \notin loaded[c].on.cgroups
    BY <2>a, <2>b, <2>c, KeysApart
  <2>4. \A c \in Cells : Unrestored(c) => Unrestored(c)'
    BY <1>8 DEF RestoreCellScope, Unrestored
  <2>d. \/ scope' = scope /\ Unrestored(op.cell)'
        \/ scope' = [scope EXCEPT ![K][h] = op.cell]
    BY <1>8 DEF RestoreCellScope, Unrestored
  <2>5. CASE scope' = scope /\ Unrestored(op.cell)'
    <3>1. ASSUME NEW k \in Classes, NEW g \in Cgroups, NEW c \in Cells,
                 loaded'[c] # NotLoaded, ClassOf(loaded'[c]) = k,
                 g \in loaded'[c].on.cgroups, ~Unrestored(c)'
          PROVE  scope'[k][g] = c
      BY <2>a, <2>b, <2>c, <2>4, <2>5, <3>1
    <3>2. QED
      BY <2>a, <2>b, <2>c, <2>5, <3>1
  <2>6. CASE scope' = [scope EXCEPT ![K][h] = op.cell]
    <3>1. \A k \in Classes, g \in Cgroups :
            scope'[k][g] = IF k = K /\ g = h THEN op.cell ELSE scope[k][g]
      BY <1>a, <2>6
    <3>2. ASSUME NEW k \in Classes, NEW g \in Cgroups, scope'[k][g] # None
          PROVE  /\ loaded'[scope'[k][g]] # NotLoaded
                 /\ ClassOf(loaded'[scope'[k][g]]) = k
                 /\ g \in loaded'[scope'[k][g]].on.cgroups
      BY <2>a, <2>b, <2>c, <2>2, <3>1, <3>2
    <3>3. ASSUME NEW k \in Classes, NEW g \in Cgroups, NEW c \in Cells,
                 loaded'[c] # NotLoaded, ClassOf(loaded'[c]) = k,
                 g \in loaded'[c].on.cgroups, ~Unrestored(c)'
          PROVE  \/ scope'[k][g] = c
                 \/ op'.cell = c /\ g \in op'.todo
      BY <2>a, <2>b, <2>c, <2>3, <2>4, <3>1, <3>3
    <3>4. QED
      BY <2>a, <2>b, <2>c, <3>2, <3>3
  <2>7. QED
    BY <2>5, <2>6, <2>d
<1>9. CASE AgentRestarts
  BY <1>9, EmptyOp DEF AgentRestarts
<1>10. QED
  BY <1>1, <1>2, <1>3, <1>4, <1>5, <1>6, <1>7, <1>8, <1>9, ScopeSteps
  DEF ScopesMove

\* A loaded cell has its LSM gates attached for its class and both connect
\* hooks, until Disarm closes them.
GateInv ==
    /\ \A c \in Cells :
        loaded[c] # NotLoaded
        => /\ Gates(ClassOf(loaded[c])) \subseteq lsm[ClassOf(loaded[c])]
           /\ \/ loaded[c].links = Hooks
              \/ op.step = "disarmScopes" /\ op.cell = c
    /\ op.step = "lsm" => Gates(K) \subseteq lsm[K] \cup op.todo
    /\ op.step \in {"net", "links"} => Gates(K) \subseteq lsm[K]

\* The steps that neither attach a program nor change a record's links.
GatesStay ==
    /\ lsm' = lsm
    /\ \A c \in Cells : /\ loaded'[c].on = loaded[c].on
                        /\ loaded'[c].links = loaded[c].links
                        /\ loaded'[c] # NotLoaded => loaded[c] # NotLoaded
    /\ \/ op.step # "disarmScopes" /\ op'.step \notin {"lsm", "net", "links"}
       \/ op' = op

\* The steps that do.
GatesMove ==
    \/ AgentRestarts \/ Commit \/ DisarmScopes \/ NeedGates \/ ResolveNetKeys
    \/ \E c \in Cells : DisarmEntries(c)
    \/ \E gate \in {"exec", "file"} : AttachLsm(gate)
    \/ \E key \in NetKeys : UpdateNetAllow(key)
    \/ \E hook \in Hooks : AttachConnect(hook)

\* Every step is one or the other.
LEMMA GateSteps ==
    ASSUME Typed, [Next]_vars
    PROVE  GatesStay \/ GatesMove
<1> USE EmptyOp DEF GatesStay, kernel
<1>1. ASSUME NEW c \in Cells,
             ExecRulesFail(c) \/ RefreshNothing(c) \/ CollectFails(c)
      PROVE  GatesStay
  BY <1>1 DEF ExecRulesFail, RefreshNothing, CollectFails
<1>2. ASSUME NEW c \in Cells, AlreadyArmed(c) PROVE GatesStay
  BY <1>2, AlreadyArmedOp DEF AlreadyArmed, Operation
<1>3. ASSUME NEW c \in Cells, RefreshBegins(c) PROVE GatesStay
  <2>1. op.step = "none" /\ op'.step = "refresh"
    BY <1>3, RefreshBeginsOp DEF Operation
  <2>2. UNCHANGED <<lsm, loaded>>
    BY <1>3 DEF RefreshBegins
  <2>3. QED
    BY <2>1, <2>2
<1>4. ASSUME NEW c \in Cells, ArmBegins(c) PROVE GatesStay
  <2>1. op.step = "none" /\ op'.step = "scopes"
    BY <1>4, ArmBeginsOp DEF Operation
  <2>2. UNCHANGED <<lsm, loaded>>
    BY <1>4 DEF ArmBegins
  <2>3. QED
    BY <2>1, <2>2
<1>5. ASSUME NEW c \in Cells, DisarmNothing(c) PROVE GatesStay
  BY <1>5, DisarmNothingOp DEF DisarmNothing, Operation
<1>6. CASE CollectFileRules
  BY <1>6, CollectFileRulesOp DEF CollectFileRules, Operation
<1>7. ASSUME NEW key \in FileKeys, UpdateFileRule(key) PROVE GatesStay
  <2>1. op'.step = op.step
    BY <1>7, UpdateFileRuleOp
  <2>2. op.step \in {"files", "refresh"} /\ UNCHANGED <<lsm, loaded>>
    BY <1>7 DEF UpdateFileRule
  <2>3. QED
    BY <2>1, <2>2
<1>8. ASSUME NEW g \in Cgroups, UpdateCellScope(g) PROVE GatesStay
  BY <1>8, UpdateCellScopeOp DEF UpdateCellScope, Operation
<1>9. ASSUME NEW g \in Cgroups, RestoreCellScope(g) PROVE GatesStay
  <2>1. op'.step = "restore"
    BY <1>9, RestoreCellScopeOp DEF Operation
  <2>2. op.step = "restore" /\ UNCHANGED <<lsm, loaded>>
    BY <1>9 DEF RestoreCellScope
  <2>3. QED
    BY <2>1, <2>2
<1>10. CASE RetireEntries
  BY <1>10, RetireEntriesOp DEF RetireEntries, Operation
<1>11. CASE RetireScopes
  BY <1>11, RetireScopesOp DEF RetireScopes, Operation
<1>12. CASE RollBackEntries
  BY <1>12, RollBackEntriesOp DEF RollBackEntries, Operation
<1>13. CASE RollBackScopes
  BY <1>13, RollBackScopesOp DEF RollBackScopes, Operation
<1>14. CASE ArmFails
  BY <1>14, ArmFailsOp DEF ArmFails, Operation, ArmSteps
<1>15. CASE ReportArmed \/ ReportRefused \/ Restored
  BY <1>15 DEF ReportArmed, ReportRefused, Restored
<1>16. CASE FinalizeDisarm \/ FinalizeRefused
  BY <1>16 DEF FinalizeDisarm, FinalizeRefused
<1>17. CASE RefreshFails
  BY <1>17 DEF RefreshFails
<1>18. CASE RefreshEnds
  BY <1>18, RefreshedRecord DEF RefreshEnds
<1>19. CASE ListCells \/ EndPass
  BY <1>19 DEF ListCells, EndPass
<1>20. CASE Cluster \/ UNCHANGED vars
  BY <1>20, ClusterFrame DEF vars
<1>21. QED
  BY <1>1, <1>2, <1>3, <1>4, <1>5, <1>6, <1>7, <1>8, <1>9, <1>10, <1>11,
     <1>12, <1>13, <1>14, <1>15, <1>16, <1>17, <1>18, <1>19, <1>20
  DEF Next, Progress, Setback, GatesMove

\* Every step keeps the programs attached that a loaded cell relies on.
LEMMA GateKept ==
    ASSUME Typed, GateInv, [Next]_vars
    PROVE  GateInv'
<1> USE DEF GateInv, K, ClassOf
<1>a. /\ loaded \in [Cells -> AnyRecord] /\ OpShape
      /\ lsm \in [Classes -> SUBSET {"exec", "file"}]
      /\ op.step # "none" => op.cell \in Cells
  BY DEF Typed, Shape, OpShape, AgentTypes, KernelTypes
<1>b. \A c \in Cells : loaded[c] # NotLoaded => ClassOf(loaded[c]) \in Classes
  BY <1>a, FullRecord DEF AnyRecord
<1>1. CASE GatesStay
  BY <1>1 DEF GatesStay
<1>2. CASE NeedGates
  <2>1. /\ op'.step = "lsm" /\ op'.next = op.next
        /\ op'.todo = Gates(K) \ lsm[K]
    BY <1>2, NeedGatesOp DEF Operation
  <2>2. /\ op.step \in {"files", "scopes"} /\ UNCHANGED <<lsm, loaded>>
    BY <1>2 DEF NeedGates, kernel
  <2>3. QED
    BY <2>1, <2>2
<1>3. ASSUME NEW gate \in {"exec", "file"}, AttachLsm(gate) PROVE GateInv'
  <2>1. /\ op'.step = "lsm" /\ op'.next = op.next /\ op'.cell = op.cell
        /\ op'.todo = op.todo \ {gate}
    BY <1>3, AttachLsmOp DEF Operation
  <2>2. /\ op.step = "lsm" /\ UNCHANGED loaded
        /\ lsm' = [lsm EXCEPT ![K] = @ \cup {gate}]
    BY <1>3 DEF AttachLsm
  <2>3. K \in Classes
    BY <1>a, <2>2, FullRecord DEF OpShape, Attempting, ArmSteps
  <2>4. /\ \A k \in Classes : lsm[k] \subseteq lsm'[k]
        /\ lsm'[K] = lsm[K] \cup {gate}
    BY <1>a, <2>2, <2>3
  <2>5. QED
    BY <1>b, <2>1, <2>2, <2>3, <2>4
<1>4. CASE ResolveNetKeys
  <2>1. op'.step = "net" /\ op'.next = op.next
    BY <1>4, ResolveNetKeysOp DEF Operation
  <2>2. op.step = "lsm" /\ op.todo = {} /\ UNCHANGED <<lsm, loaded>>
    BY <1>4 DEF ResolveNetKeys, kernel
  <2>3. QED
    BY <2>1, <2>2
<1>5. ASSUME NEW key \in NetKeys, UpdateNetAllow(key) PROVE GateInv'
  <2>1. op'.step = "net" /\ op'.next.on = op.next.on
    BY <1>5, UpdateNetAllowOp
  <2>2. op.step = "net" /\ UNCHANGED <<lsm, loaded>>
    BY <1>5 DEF UpdateNetAllow
  <2>3. QED
    BY <2>1, <2>2
<1>6. ASSUME NEW hook \in Hooks, AttachConnect(hook) PROVE GateInv'
  <2>1. /\ op.step \in {"net", "links"} /\ op'.step = "links"
        /\ UNCHANGED <<lsm, loaded>>
        /\ op'.next = Record(op.next.on, op.next.links \cup {hook},
                             op.next.net, op.next.file)
    BY <1>6, AttachConnectOp DEF AttachConnect, Operation, kernel
  <2>2. op'.next.on = op.next.on
    BY <2>1 DEF Record
  <2>3. QED
    BY <2>1, <2>2
<1>7. CASE Commit
  <2>1. /\ op.step = "links" /\ op.next.links = Hooks /\ lsm' = lsm
        /\ \A c \in Cells : loaded'[c] = IF c = op.cell THEN op.next
                                                        ELSE loaded[c]
    BY <1>7, <1>a DEF Commit, kernel
  <2>2. op'.step \in {"report", "retire"}
    BY <1>7, CommitOp DEF Operation
  <2>3. QED
    BY <2>1, <2>2
<1>8. ASSUME NEW c \in Cells, DisarmEntries(c) PROVE GateInv'
  <2>1. /\ op.step = "none" /\ op'.step = "disarmScopes" /\ op'.cell = c
        /\ loaded' = [loaded EXCEPT ![c] = loaded'[c]]
        /\ loaded'[c] = Record(loaded[c].on, {}, loaded[c].net,
                               loaded[c].file)
        /\ loaded[c] # NotLoaded
    BY <1>8, DisarmEntriesOp, EmptyOp, FullRecord DEF Operation
  <2>2. loaded'[c].on = loaded[c].on
    BY <2>1 DEF Record
  <2>3. lsm' = lsm /\ \A d \in Cells \ {c} : loaded'[d] = loaded[d]
    BY <1>8, <1>a, <2>1 DEF DisarmEntries
  <2>4. QED
    BY <2>1, <2>2, <2>3
<1>9. CASE DisarmScopes
  <2>1. /\ op.step = "disarmScopes" /\ op'.step = "finalize" /\ lsm' = lsm
        /\ \A c \in Cells : loaded'[c] = IF c = op.cell THEN NotLoaded
                                                        ELSE loaded[c]
    BY <1>9, <1>a, DisarmScopesOp DEF DisarmScopes, Operation
  <2>2. QED
    BY <2>1
<1>10. CASE AgentRestarts
  BY <1>10, EmptyOp DEF AgentRestarts
<1>11. QED
  BY <1>1, <1>2, <1>3, <1>4, <1>5, <1>6, <1>7, <1>8, <1>9, <1>10, GateSteps
  DEF GatesMove

\* What the agent has reported: every fingerprint names the cgroups of its own
\* pod, and that pod is claimed for no other cell while the fingerprint is
\* kept. A drain receipt needs it: nothing that the other cells own is for a
\* cgroup of the cell that is gone.
ArmedInv ==
    /\ \A c \in Cells : OwnCgroups(armed[c])
    /\ \A c, d \in Cells, p \in Pods :
          armed[c].pod = p /\ Claims(d, p) => c = d

\* Only the two receipts and the end of the agent change a fingerprint.
LEMMA ArmedUntouched ==
    ASSUME [Next]_vars, ~ReportArmed, ~FinalizeDisarm, ~AgentRestarts
    PROVE  UNCHANGED armed
<1>1. CASE Cluster \/ UNCHANGED vars
  BY <1>1, ClusterFrame DEF vars
<1>2. CASE Progress
  BY <1>2
  DEF Progress, ListCells, EndPass, AlreadyArmed, ArmBegins,
      RefreshNothing, RefreshBegins, DisarmEntries, DisarmNothing,
      UpdateCellScope, RestoreCellScope, CollectFileRules, UpdateFileRule,
      NeedGates, AttachLsm, ResolveNetKeys, UpdateNetAllow, AttachConnect,
      Commit, RetireEntries, RetireScopes, RollBackEntries, RollBackScopes,
      Restored, RefreshEnds, DisarmScopes
<1>3. CASE Setback
  BY <1>3
  DEF Setback, ReportRefused, ArmFails, RefreshFails, FinalizeRefused,
      ExecRulesFail, CollectFails
<1>4. QED
  BY <1>1, <1>2, <1>3 DEF Next

\* Only an accepted receipt adds a fingerprint.
LEMMA ArmedSteps ==
    ASSUME Typed, [Next]_vars, ~ReportArmed
    PROVE  \A c \in Cells : armed'[c] \in {armed[c], NotListed}
<1>a. armed \in [Cells -> AnyListing]
  BY DEF Typed, AgentTypes
<1>1. CASE FinalizeDisarm
  BY <1>1, <1>a DEF FinalizeDisarm
<1>2. CASE AgentRestarts
  BY <1>2 DEF AgentRestarts
<1>3. CASE ~FinalizeDisarm /\ ~AgentRestarts
  BY <1>3, ArmedUntouched
<1>4. QED
  BY <1>1, <1>2, <1>3

\* A step other than the start of the pod claims it for nobody new.
LEMMA ClaimsAreOld ==
    ASSUME Typed, [Next]_vars, NEW p \in Pods,
           ~\E e \in Cells : StartPod(e, p), NEW c \in Cells, Claims(c, p)'
    PROVE  Claims(c, p)
<1>1. pod \in [Cells -> Pods \cup {None}] /\ p # None
  BY NodeAssumption DEF Typed, ClusterTypes
<1>2. ASSUME NEW e \in Cells, NEW u \in Pods, StartPod(e, u)
      PROVE  pod'[c] = p => pod[c] = p
  BY <1>1, <1>2 DEF StartPod
<1>3. ASSUME NEW e \in Cells, StopPod(e)
      PROVE  pod'[c] = p => pod[c] = p
  BY <1>1, <1>3 DEF StopPod
<1>4. pod'[c] = p => pod[c] = p
  BY <1>2, <1>3, AgentFrame
  DEF Next, Cluster, vars, cluster, StartCgroup, ChangePolicy
<1>5. QED
  BY <1>4, ClaimsPassOn

\* Every step keeps the fingerprints with the pods of their own cells.
LEMMA ArmedKept ==
    ASSUME Typed, KeysOwned, PodsApart, ArmedInv, [Next]_vars
    PROVE  ArmedInv'
<1> USE DEF ArmedInv
<1>a. armed \in [Cells -> AnyListing]
  BY DEF Typed, AgentTypes
<1>1. CASE ReportArmed
  <2>1. /\ op.cell \in Cells /\ op.next = loaded[op.cell]
        /\ \A c \in Cells : armed'[c] = IF c = op.cell THEN op.next.on
                                                       ELSE armed[c]
        /\ \A e \in Cells, p \in Pods : ~StartPod(e, p)
    BY <1>1, <1>a, EmptyOp
    DEF ReportArmed, StartPod, Typed, Shape, OpShape
  <2>2. \A c \in Cells : OwnCgroups(armed'[c])
    BY <2>1 DEF KeysOwned, OwnKeys
  <2>3. ASSUME NEW c \in Cells, NEW d \in Cells, NEW p \in Pods,
               armed'[c].pod = p, Claims(d, p)'
        PROVE  c = d
    <3>1. Claims(d, p)
      BY <2>1, <2>3, ClaimsAreOld
    <3>2. CASE c = op.cell
      <4>1. Claims(c, p)
        BY <2>1, <2>3, <3>2 DEF Claims
      <4>2. QED
        BY <3>1, <4>1 DEF PodsApart
    <3>3. CASE c # op.cell
      BY <2>1, <2>3, <3>1, <3>3
    <3>4. QED
      BY <3>2, <3>3
  <2>4. QED
    BY <2>2, <2>3 DEF OwnCgroups
<1>2. CASE ~ReportArmed
  <2>1. \A c \in Cells : armed'[c] \in {armed[c], NotListed}
    BY <1>2, ArmedSteps
  <2>2. \A c \in Cells : OwnCgroups(armed'[c])
    BY <2>1, EmptyRecord DEF OwnCgroups
  <2>3. ASSUME NEW c \in Cells, NEW d \in Cells, NEW p \in Pods,
               armed'[c].pod = p, Claims(d, p)'
        PROVE  c = d
    <3>1. armed[c].pod = p
      BY <2>1, <2>3, EmptyRecord, NodeAssumption
    <3>2. ~\E e \in Cells : StartPod(e, p)
      BY <3>1 DEF StartPod
    <3>3. Claims(d, p)
      BY <2>3, <3>2, ClaimsAreOld
    <3>4. QED
      BY <3>1, <3>3
  <2>4. QED
    BY <2>2, <2>3 DEF OwnCgroups
<1>3. QED
  BY <1>1, <1>2

\* The inductive invariant.
IndInv ==
    /\ Typed /\ KeysOwned /\ PodsApart /\ ArmedInv
    /\ NetInv /\ FileInv /\ ScopeInv /\ GateInv

\* It holds when the agent starts with empty maps.
LEMMA IndInvInitially ==
    Init => IndInv
<1> SUFFICES ASSUME Init PROVE IndInv
  OBVIOUS
<1>1. Typed
  BY TypedInitially
<1>2. /\ op = NoOp /\ op.step = "none" /\ op.next = NotLoaded
      /\ op.prev = NotLoaded
      /\ \A c \in Cells : /\ pod[c] = None /\ loaded[c] = NotLoaded
                          /\ pass.listed[c] = NotListed
  BY EmptyOp DEF Init
<1>3. KeysOwned
  BY <1>2, EmptyRecord DEF KeysOwned, OwnKeys, OwnCgroups
<1>4. PodsApart
  BY <1>2, EmptyRecord, NodeAssumption DEF PodsApart, Claims
<1>5. NetInv /\ FileInv
  BY <1>2 DEF Init, NetInv, FileInv, Holds, Attempt, Retired, ArmSteps
<1>6. ScopeInv
  BY <1>2 DEF Init, ScopeInv, ArmSteps
<1>7. GateInv
  BY <1>2 DEF GateInv
<1>8. ArmedInv
  BY EmptyRecord, NodeAssumption DEF Init, ArmedInv, OwnCgroups
<1>9. QED
  BY <1>1, <1>3, <1>4, <1>5, <1>6, <1>7, <1>8 DEF IndInv

\* Every step of the cluster, of the agent and of its failures keeps it.
LEMMA IndInvKept ==
    IndInv /\ [Next]_vars => IndInv'
<1> SUFFICES ASSUME IndInv, [Next]_vars PROVE IndInv'
  OBVIOUS
<1>1. Typed'
  BY TypedKept DEF IndInv
<1>2. KeysOwned' /\ PodsApart' /\ ArmedInv'
  BY KeysOwnedKept, PodsApartKept, ArmedKept DEF IndInv
<1>3. NetInv' /\ FileInv'
  BY NetKept, FileKept DEF IndInv
<1>4. ScopeInv' /\ GateInv'
  BY ScopeKept, GateKept DEF IndInv
<1>5. QED
  BY <1>1, <1>2, <1>3, <1>4 DEF IndInv

\* It holds in every reachable state.
LEMMA Inductive ==
    Spec => []IndInv
BY IndInvInitially, IndInvKept, PTL DEF Spec

\* Every reachable state of the agent's loader and of the kernel maps is typed:
\* the agent acts only on pods it listed and on records it built.
THEOREM TypeCorrect ==
    Spec => []TypeOK
<1>1. IndInv => TypeOK
  BY TypedIsTypeOK DEF IndInv
<1>2. QED
  BY <1>1, Inductive, PTL

\* Whenever no operation is under way, the maps of each class hold exactly
\* the entries of the cells that are loaded: no failed arm, retired record,
\* refresh or disarm (Arm, rollbackArm, retire, Refresh, Disarm) leaves an
\* entry behind, for any number of cells, cgroups, addresses, faults and
\* agent restarts.
THEOREM MapsAreClean ==
    Spec => []NothingLeftBehind
<1>1. IndInv => NothingLeftBehind
  <2> SUFFICES ASSUME IndInv, op = NoOp, NEW k \in Classes
               PROVE  LET mine == {c \in Cells : loaded[c] # NotLoaded
                                                 /\ ClassOf(loaded[c]) = k} IN
                      /\ net[k] = UNION {loaded[c].net : c \in mine}
                      /\ file[k] = UNION {loaded[c].file : c \in mine}
                      /\ \A g \in Cgroups :
                          /\ scope[k][g] # None
                             => /\ scope[k][g] \in mine
                                /\ g \in loaded[scope[k][g]].on.cgroups
                          /\ \A c \in mine : /\ g \in loaded[c].on.cgroups
                                             /\ <<c, "unrestored">> \notin mishaps
                                             => scope[k][g] = c
    BY DEF NothingLeftBehind
  <2> DEFINE mine == {c \in Cells : loaded[c] # NotLoaded
                                    /\ ClassOf(loaded[c]) = k}
  <2>1. op.step = "none"
    BY EmptyOp
  <2>2. \A c \in Cells : Holds(c, k) <=> c \in mine
    BY <2>1 DEF Holds
  <2>3. ~Attempt(k) /\ ~Retired(k)
    BY <2>1 DEF Attempt, Retired, ArmSteps
  <2>4. net[k] = UNION {loaded[c].net : c \in mine}
    BY <2>2, <2>3 DEF IndInv, NetInv
  <2>5. file[k] = UNION {loaded[c].file : c \in mine}
    BY <2>2, <2>3 DEF IndInv, FileInv
  <2>6. ASSUME NEW g \in Cgroups, scope[k][g] # None
        PROVE  scope[k][g] \in mine /\ g \in loaded[scope[k][g]].on.cgroups
    <3>1. scope[k][g] \in Cells
      BY <2>6 DEF IndInv, Typed, KernelTypes
    <3>2. QED
      BY <2>1, <2>6, <3>1 DEF IndInv, ScopeInv, Attempting, ArmSteps
  <2>7. ASSUME NEW g \in Cgroups, NEW c \in mine,
               g \in loaded[c].on.cgroups, <<c, "unrestored">> \notin mishaps
        PROVE  scope[k][g] = c
    BY <2>1, <2>7 DEF IndInv, ScopeInv, Unrestored
  <2>8. QED
    BY <2>4, <2>5, <2>6, <2>7
<1>2. QED
  BY <1>1, Inductive, PTL

\* From the commit of its arm to the deletion of its entries a cell under a
\* strict or standard policy is gated: connects only to addresses resolved
\* for it and never to metadata addresses, its denied files stay closed and
\* exec is gated, whatever other cells, faults and re-arms do in between.
THEOREM CellsAreContained ==
    Spec => []Contained
<1>1. IndInv => Contained
  <2> SUFFICES ASSUME IndInv, NEW c \in Cells,
                      loaded[c] # NotLoaded, ClassOf(loaded[c]) # "open",
                      ~(op.cell = c /\ op.step \in {"restore", "disarmScopes"}),
                      <<c, "unrestored">> \notin mishaps,
                      NEW g \in loaded[c].on.cgroups
               PROVE  /\ \A a \in Addresses :
                           ConnectAllowed(g, a)
                           => /\ a \notin Metadata
                              /\ \/ <<g, a>> \in loaded[c].net
                                 \/ /\ op.cell = c
                                    /\ <<g, a>> \in op.next.net \cup op.prev.net
                      /\ \A f \in Files : <<g, f>> \in loaded[c].file
                                          => ~OpenAllowed(g, f)
                      /\ ExecGated(g)
    BY DEF Contained
  <2> DEFINE k == ClassOf(loaded[c])
  <2>1. /\ loaded[c] \in LoadedCell /\ k \in Classes /\ g \in Cgroups
        /\ k \in {"strict", "standard"}
    BY FullRecord DEF IndInv, Typed, AgentTypes, AnyRecord, Classes
  <2>2. scope[k][g] = c /\ Scoped(k, g)
    BY <2>1, NodeAssumption DEF IndInv, ScopeInv, Unrestored, Scoped
  <2>3. /\ lsm[k] = {"exec", "file"} /\ loaded[c].links = Hooks
    BY <2>1 DEF IndInv, GateInv, Typed, KernelTypes, Gates
  <2>4. \A hook \in Hooks : Hooked(k, g, hook)
    BY <2>3 DEF Hooked, Records, IndInv, KeysOwned, OwnKeys, OwnCgroups
  <2>5. Holds(c, k)
    BY DEF Holds
  <2>6. ASSUME NEW a \in Addresses, ConnectAllowed(g, a)
        PROVE  /\ a \notin Metadata
               /\ \/ <<g, a>> \in loaded[c].net
                  \/ /\ op.cell = c
                     /\ <<g, a>> \in op.next.net \cup op.prev.net
    <3>1. ConnectVerdict(k, g, a) = "allow"
      BY <2>1, <2>2, <2>4, <2>6, NodeAssumption DEF ConnectAllowed
    <3>2. a \notin Metadata /\ <<g, a>> \in net[k]
      BY <2>1, <3>1 DEF ConnectVerdict
    <3>3. CASE \E d \in Cells : Holds(d, k) /\ <<g, a>> \in loaded[d].net
      <4>1. PICK d \in Cells : <<g, a>> \in loaded[d].net
        BY <3>3
      <4>2. g \in loaded[d].on.cgroups
        BY <4>1 DEF IndInv, KeysOwned, OwnKeys
      <4>3. d = c
        BY <4>2, KeysApart DEF IndInv
      <4>4. QED
        BY <3>2, <4>1, <4>3
    <3>4. CASE Attempt(k) /\ <<g, a>> \in op.next.net
      <4>1. g \in op.next.on.cgroups
        BY <3>4 DEF IndInv, KeysOwned, OwnKeys
      <4>2. op.cell \in Cells
        BY <3>4 DEF IndInv, Typed, Shape, OpShape, Attempt, ArmSteps
      <4>3. op.cell = c
        BY <4>1, <4>2, KeysApart DEF IndInv
      <4>4. QED
        BY <3>2, <3>4, <4>3
    <3>5. CASE Retired(k) /\ <<g, a>> \in op.prev.net
      <4>1. g \in op.prev.on.cgroups
        BY <3>5 DEF IndInv, KeysOwned, OwnKeys
      <4>2. op.cell \in Cells
        BY <3>5 DEF IndInv, Typed, Shape, OpShape, Retired
      <4>3. op.cell = c
        BY <4>1, <4>2, KeysApart DEF IndInv
      <4>4. QED
        BY <3>2, <3>5, <4>3
    <3>6. QED
      BY <2>1, <3>2, <3>3, <3>4, <3>5 DEF IndInv, NetInv
  <2>7. ASSUME NEW f \in Files, <<g, f>> \in loaded[c].file
        PROVE  ~OpenAllowed(g, f)
    <3>1. <<g, f>> \in file[k]
      BY <2>1, <2>5, <2>7 DEF IndInv, FileInv
    <3>2. QED
      BY <2>1, <2>2, <2>3, <3>1 DEF OpenAllowed
  <2>8. ExecGated(g)
    BY <2>1, <2>2, <2>3 DEF ExecGated
  <2>9. QED
    BY <2>6, <2>7, <2>8
<1>2. QED
  BY <1>1, Inductive, PTL

\* What MarkArmed records: the cell is loaded as listed, every cgroup of it has
\* its scope, every hook and gate of its class is attached, and the maps hold
\* what its record lists.
LEMMA ArmReceiptIsTrue ==
    ASSUME IndInv, ReportArmed, NEW c \in Cells, c = op.cell,
           <<c, "unrestored">> \notin mishaps
    PROVE  Enforced(c, armed[c])'
<1> SUFFICES ASSUME NEW l, l = op.next.on, NEW k, k = Class[l.policy]
             PROVE  Enforced(c, armed[c])'
  OBVIOUS
<1>1. /\ op.next = loaded[c] /\ loaded[c] \in LoadedCell
      /\ op.step = "report"
  BY DEF ReportArmed, IndInv, Typed, Shape, OpShape
<1>2. /\ armed'[c] = l /\ loaded' = loaded /\ op' = NoOp
      /\ UNCHANGED <<scope, net, file, lsm>>
  BY <1>1 DEF ReportArmed, kernel, IndInv, Typed, AgentTypes
<1>3. /\ loaded[c].on = l /\ ClassOf(loaded[c]) = k /\ k \in Classes
      /\ l.cgroups \subseteq Cgroups /\ loaded[c] # NotLoaded
  BY <1>1, FullRecord DEF ClassOf
<1>4. Gates(k) \subseteq lsm[k] /\ loaded[c].links = Hooks
  BY <1>1, <1>3 DEF IndInv, GateInv
<1>5. loaded[c].net \subseteq net[k] /\ loaded[c].file \subseteq file[k]
  BY <1>1, <1>3 DEF IndInv, NetInv, FileInv, Holds
<1>6. ASSUME NEW g \in l.cgroups
      PROVE  scope[k][g] = c /\ PodOf[g] = l.pod
  <2>1. g \in Cgroups /\ ~Unrestored(c)
    BY <1>3 DEF Unrestored
  <2>2. scope[k][g] = c
    BY <1>1, <1>3, <2>1 DEF IndInv, ScopeInv
  <2>3. QED
    BY <1>1, <1>3, <2>2 DEF IndInv, KeysOwned, OwnKeys, OwnCgroups
<1>7. ASSUME NEW g \in l.cgroups, NEW hook \in Hooks
      PROVE  Hooked(k, g, hook)'
  <2>1. loaded'[c] \in Records'
    BY <1>1 DEF Records
  <2>2. /\ loaded'[c] # NotLoaded /\ hook \in loaded'[c].links
        /\ ClassOf(loaded'[c]) = k /\ loaded'[c].on.pod = PodOf[g]
    BY <1>2, <1>3, <1>4, <1>6
  <2>3. QED
    BY <2>1, <2>2 DEF Hooked, ClassOf
<1>8. QED
  BY <1>2, <1>3, <1>4, <1>5, <1>6, <1>7 DEF Enforced

\* What MarkDisarmed records: no map holds an entry for a cgroup that the cell
\* was armed with, and no scope names the cell.
LEMMA DrainReceiptIsTrue ==
    ASSUME IndInv, NEW c \in Cells, FinalizeDisarm, op.cell = c,
           NEW k \in Classes
    PROVE  /\ KeysOf(armed[c].cgroups, net'[k]) = {}
           /\ KeysOf(armed[c].cgroups, file'[k]) = {}
           /\ \A g \in Cgroups : scope'[k][g] # c
<1>1. /\ op.step = "finalize" /\ loaded[c] = NotLoaded
      /\ UNCHANGED <<scope, net, file, lsm>>
  BY DEF FinalizeDisarm, IndInv, Typed, Shape, OpShape, kernel
<1>2. ~Attempt(k) /\ ~Retired(k)
  BY <1>1 DEF Attempt, Retired, ArmSteps
<1>3. ASSUME NEW d \in Cells, NEW g \in loaded[d].on.cgroups
      PROVE  g \notin armed[c].cgroups
  <2>1. loaded[d] \in AnyRecord
    BY DEF IndInv, Typed, AgentTypes
  <2>2. loaded[d].on.pod \in Pods /\ PodOf[g] = loaded[d].on.pod
    BY <1>3, <2>1, EmptyRecord, FullRecord
    DEF AnyRecord, IndInv, KeysOwned, OwnKeys, OwnCgroups
  <2>3. d # c
    BY <1>1, <1>3, EmptyRecord
  <2>4. Claims(d, loaded[d].on.pod)
    BY DEF Claims
  <2>5. armed[c].pod # loaded[d].on.pod
    BY <2>2, <2>3, <2>4 DEF IndInv, ArmedInv
  <2>6. QED
    BY <2>2, <2>5 DEF IndInv, ArmedInv, OwnCgroups
<1>4. KeysOf(armed[c].cgroups, net[k]) = {}
  <2> SUFFICES ASSUME NEW key \in net[k], key[1] \in armed[c].cgroups
               PROVE  FALSE
    BY DEF KeysOf
  <2>1. PICK d \in Cells : key \in loaded[d].net
    BY <1>2 DEF IndInv, NetInv
  <2>2. QED
    BY <1>3, <2>1 DEF IndInv, KeysOwned, OwnKeys
<1>5. KeysOf(armed[c].cgroups, file[k]) = {}
  <2> SUFFICES ASSUME NEW key \in file[k], key[1] \in armed[c].cgroups
               PROVE  FALSE
    BY DEF KeysOf
  <2>1. PICK d \in Cells : key \in loaded[d].file
    BY <1>2 DEF IndInv, FileInv
  <2>2. QED
    BY <1>3, <2>1 DEF IndInv, KeysOwned, OwnKeys
<1>6. ASSUME NEW g \in Cgroups PROVE scope[k][g] # c
  BY <1>1, <1>6, NodeAssumption DEF IndInv, ScopeInv, Attempting, ArmSteps
<1>7. QED
  BY <1>1, <1>4, <1>5, <1>6

\* The receipts of the node are true when they are recorded: Control.Armed is
\* accepted only for a cell that the kernel enforces as it was listed, and a
\* drain receipt (or the end of the agent) only when nothing of the cell is
\* left in the maps - for any number of cells, pods, policies and faults, with
\* the one exception that the code logs nothing of: a scope whose restore
\* failed.
THEOREM ReceiptsHold ==
    Spec => ReceiptsAreTrue
<1>1. IndInv /\ [Next]_vars =>
      [\A c \in Cells :
        /\ armed'[c] # armed[c]
        /\ <<c, "unrestored">> \notin mishaps
        => IF armed'[c] # NotListed THEN Enforced(c, armed[c])'
           ELSE LET gone == armed[c].cgroups IN
                \A k \in Classes : /\ KeysOf(gone, net'[k]) = {}
                                   /\ KeysOf(gone, file'[k]) = {}
                                   /\ \A g \in Cgroups : scope'[k][g] # c
      ]_vars
  <2> SUFFICES ASSUME IndInv, Next, NEW c \in Cells, armed'[c] # armed[c],
                      <<c, "unrestored">> \notin mishaps
               PROVE  IF armed'[c] # NotListed THEN Enforced(c, armed[c])'
                      ELSE \A k \in Classes :
                             /\ KeysOf(armed[c].cgroups, net'[k]) = {}
                             /\ KeysOf(armed[c].cgroups, file'[k]) = {}
                             /\ \A g \in Cgroups : scope'[k][g] # c
    OBVIOUS
  <2>a. Typed /\ armed \in [Cells -> AnyListing]
    BY DEF IndInv, Typed, AgentTypes
  <2>1. CASE ReportArmed
    <3>1. op.cell \in Cells /\ op.next \in LoadedCell
      BY <2>1 DEF ReportArmed, IndInv, Typed, Shape, OpShape
    <3>2. c = op.cell /\ armed'[c] = op.next.on
      BY <2>1, <2>a, <3>1 DEF ReportArmed
    <3>3. armed'[c] # NotListed
      BY <3>1, <3>2, FullRecord, EmptyRecord
    <3>4. Enforced(c, armed[c])'
      BY <2>1, <3>2, ArmReceiptIsTrue
    <3>5. QED
      BY <3>3, <3>4
  <2>2. CASE ~ReportArmed
    <3>1. armed'[c] = NotListed
      BY <2>2, <2>a, ArmedSteps
    <3>2. CASE FinalizeDisarm
      <4>1. c = op.cell
        BY <2>a, <3>2 DEF FinalizeDisarm
      <4>2. QED
        BY <3>1, <3>2, <4>1, DrainReceiptIsTrue
    <3>3. CASE AgentRestarts
      BY <3>1, <3>3, NodeAssumption DEF AgentRestarts, KeysOf
    <3>4. QED
      BY <2>2, <2>a, <3>2, <3>3, ArmedUntouched
  <2>3. QED
    BY <2>1, <2>2
<1>2. QED
  BY <1>1, Inductive, PTL DEF Spec, ReceiptsAreTrue
===========================================================================
