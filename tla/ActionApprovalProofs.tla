------------------------ MODULE ActionApprovalProofs ------------------------
(***************************************************************************)
(* Theorems about ActionApproval, for every bound and every set of faults. *)
(***************************************************************************)
EXTENDS ActionApproval, TLAPS

\* Save keeps a table of requests a table of requests.
LEMMA SaveType ==
    ASSUME requests \in [Asks -> Request], disk \in [Asks -> Request],
           NEW new \in [Asks -> Request], Save(new)
    PROVE  requests' \in [Asks -> Request] /\ disk' \in [Asks -> Request]
BY DEF Save

\* Only the faults that may happen do.
LEMMA FaultsStep == faults \subseteq Faults /\ [Next]_vars => faults' \subseteq Faults
<1> SUFFICES ASSUME faults \subseteq Faults, [Next]_vars
             PROVE  faults' \subseteq Faults
  OBVIOUS
<1> USE DEF Fault
<1>1. CASE Gate \/ ReadEvent
  BY <1>1 DEF Gate, ReadEvent
<1>2. ASSUME NEW n \in Asks, LoseAsk(n) \/ Expire(n)
      PROVE  faults' \subseteq Faults
  BY <1>2 DEF LoseAsk, Expire
<1>3. CASE Ingest \/ Decide
  BY <1>3 DEF Ingest, RequestActionApproval, Decide, DecideActionApproval, Save
<1>4. CASE TakeNodeActionDecisions \/ LoseReply
  BY <1>4 DEF TakeNodeActionDecisions, LoseReply, Save
<1>5. CASE Apply \/ ApplyFails \/ TimerFires
  BY <1>5 DEF Apply, ApplyDecision, ApplyFails, ApplyDecisionFails, TimerFires
<1>6. CASE ControlRestart \/ AgentRestart \/ UNCHANGED vars
  BY <1>6 DEF ControlRestart, AgentRestart, vars
<1> QED BY <1>1, <1>2, <1>3, <1>4, <1>5, <1>6 DEF Next

\* The table after a poll is a table of requests.
TakenTable == [n \in Asks |-> IF n \in Undelivered
                                THEN [status |-> Settled(n), delivered |-> TRUE]
                                ELSE requests[n]]

\* A poll leaves a table of requests.
LEMMA TakenType ==
    ASSUME requests \in [Asks -> Request]
    PROVE  TakenTable \in [Asks -> Request]
BY DEF TakenTable, Request, Settled, Undelivered, Terminal

\* Every step keeps every type.
LEMMA TypeStep == TypeOK /\ [Next]_vars => TypeOK'
<1> SUFFICES ASSUME TypeOK, [Next]_vars
             PROVE  TypeOK'
  OBVIOUS
<1>0. faults' \subseteq Faults
  BY FaultsStep DEF TypeOK
<1> USE <1>0, ApprovalAssumption DEF TypeOK
<1>1. CASE Gate
  <2>1. CASE grant /\ uses < MaxUses
    <3>1. ring' = Append(ring, 0) /\ uses' = uses + 1 /\ UNCHANGED asks
      BY <1>1, <2>1 DEF Gate
    <3>2. ring' \in Seq(Asks \cup {0}) /\ uses' \in 0..MaxUses
      BY <2>1, <3>1
    <3> QED BY <1>1, <3>1, <3>2 DEF Gate, storeVars
  <2>2. CASE ~grant /\ asks < MaxAsks
    <3>1. asks + 1 \in Asks
      BY <2>2 DEF Asks
    <3>2. ring' = Append(ring, asks + 1) /\ asks' = asks + 1 /\ asks' \in 0..MaxAsks
      BY <1>1, <2>2 DEF Gate
    <3>3. ring' \in Seq(Asks \cup {0}) /\ UNCHANGED uses
      BY <1>1, <2>2, <3>1, <3>2 DEF Gate
    <3> QED BY <1>1, <3>2, <3>3 DEF Gate, storeVars
  <2> QED BY <1>1, <2>1, <2>2 DEF Gate
<1>2. CASE ReadEvent
  <2>1. Head(ring) \in Asks \cup {0} /\ Tail(ring) \in Seq(Asks \cup {0})
    BY <1>2 DEF ReadEvent
  <2> QED BY <1>2, <2>1 DEF ReadEvent, storeVars
<1>3. ASSUME NEW n \in Asks, LoseAsk(n) \/ Expire(n)
      PROVE  TypeOK'
  BY <1>3 DEF LoseAsk, Expire, kernelVars, storeVars
<1>4. CASE Ingest
  <2> PICK n \in queued : RequestActionApproval(n)
    BY <1>4 DEF Ingest
  <2>1. [requests EXCEPT ![n].status = "pending"] \in [Asks -> Request]
    BY DEF Request
  <2>2. requests' \in [Asks -> Request] /\ disk' \in [Asks -> Request]
    BY <2>1, SaveType DEF RequestActionApproval
  <2> QED BY <2>2 DEF RequestActionApproval, kernelVars
<1>5. CASE Decide
  <2> PICK n \in Asks, status \in Terminal : DecideActionApproval(n, status)
    BY <1>5 DEF Decide
  <2>1. [requests EXCEPT ![n].status = status] \in [Asks -> Request]
    BY DEF Request, Terminal
  <2>2. requests' \in [Asks -> Request] /\ disk' \in [Asks -> Request]
    BY <2>1, SaveType DEF DecideActionApproval
  <2> QED BY <2>2 DEF DecideActionApproval, kernelVars
<1>6. CASE TakeNodeActionDecisions
  <2>1. requests' \in [Asks -> Request] /\ disk' \in [Asks -> Request]
    BY <1>6, TakenType, SaveType DEF TakeNodeActionDecisions, TakenTable
  <2>2. reply' \subseteq Decision
    BY <1>6 DEF TakeNodeActionDecisions, Undelivered, Decision
  <2> QED BY <1>6, <2>1, <2>2 DEF TakeNodeActionDecisions, kernelVars
<1>7. CASE LoseReply
  BY <1>7 DEF LoseReply, kernelVars, storeVars
<1>8. CASE Apply
  <2> PICK d \in reply : ApplyDecision(d)
    BY <1>8 DEF Apply
  <2>1. d.ask \in Asks
    BY DEF Decision
  <2>2. applied' \in [Asks -> Nat]
    BY <2>1 DEF ApplyDecision
  <2>3. grant' \in BOOLEAN
    BY DEF ApplyDecision
  <2>4. timers' \in Nat
    BY DEF ApplyDecision
  <2> QED BY <2>2, <2>3, <2>4 DEF ApplyDecision, storeVars
<1>9. CASE TimerFires
  <2>1. timers' \in Nat
    BY <1>9 DEF TimerFires
  <2>2. grant' \in BOOLEAN
    BY <1>9 DEF TimerFires
  <2> QED BY <1>9, <2>1, <2>2 DEF TimerFires, storeVars
<1>10. CASE ControlRestart
  BY <1>10 DEF ControlRestart, kernelVars
<1>11. CASE AgentRestart
  <2>1. ring' \in Seq(Asks \cup {0})
    BY <1>11 DEF AgentRestart
  <2>2. grant' \in BOOLEAN
    BY <1>11 DEF AgentRestart
  <2>3. timers' \in Nat /\ restarts' \in 0..MaxRestarts
    BY <1>11 DEF AgentRestart
  <2>4. queued' \subseteq Asks /\ reply' \subseteq Decision
    BY <1>11 DEF AgentRestart
  <2> QED BY <1>11, <2>1, <2>2, <2>3, <2>4 DEF AgentRestart, storeVars
<1>12. CASE UNCHANGED vars
  BY <1>12 DEF vars, kernelVars, storeVars
<1>13. CASE ApplyFails
  <2> PICK d \in reply : ApplyDecisionFails(d)
    BY <1>13 DEF ApplyFails
  <2>1. grant' \in BOOLEAN
    BY DEF ApplyDecisionFails
  <2>2. timers' \in Nat
    BY DEF ApplyDecisionFails
  <2>3. reply' \subseteq Decision
    BY DEF ApplyDecisionFails
  <2> QED BY <2>1, <2>2, <2>3 DEF ApplyDecisionFails, storeVars
<1> QED BY <1>1, <1>2, <1>3, <1>4, <1>5, <1>6, <1>7, <1>8, <1>9, <1>10, <1>11,
          <1>12, <1>13 DEF Next

\* It holds initially,
LEMMA TypeInit == Init => TypeOK
<1> SUFFICES ASSUME Init PROVE TypeOK
  OBVIOUS
<1>1. requests \in [Asks -> Request] /\ disk \in [Asks -> Request]
  BY DEF Init, NoRequests, Request
<1>2. ring \in Seq(Asks \cup {0})
  BY DEF Init
<1>3. asks \in 0..MaxAsks /\ uses \in 0..MaxUses /\ restarts \in 0..MaxRestarts
  BY ApprovalAssumption DEF Init
<1>4. applied \in [Asks -> Nat] /\ timers \in Nat
  BY DEF Init
<1>5. /\ proc \in {"running", "stopped"} /\ grant \in BOOLEAN
      /\ queued \subseteq Asks /\ due \subseteq Asks /\ approved \subseteq Asks
      /\ reply \subseteq Decision /\ faults \subseteq Faults
  BY DEF Init
<1> QED BY <1>1, <1>2, <1>3, <1>4, <1>5 DEF TypeOK

\* and so always: every variable keeps its type (TypeOK).
THEOREM TypeCorrect == Spec => []TypeOK
BY TypeInit, TypeStep, PTL DEF Spec

-----------------------------------------------------------------------------
(* The gate opens for an approval of the operator only.                    *)

\* Every approval in the store, in its checkpoint and on its way to the node
\* is the operator's.
ApprovalsAreReal ==
    /\ \A n \in Asks : requests[n].status = "approved" => n \in approved
    /\ \A n \in Asks : disk[n].status = "approved" => n \in approved
    /\ \A d \in reply : d.status = "approved" => d.ask \in approved

GateInv == ApprovalsAreReal /\ GrantNeedsApproval

\* No step makes an approval that is not the operator's.
LEMMA GateStep == TypeOK /\ GateInv /\ [Next]_vars => GateInv'
<1> SUFFICES ASSUME TypeOK, GateInv, [Next]_vars
             PROVE  GateInv'
  OBVIOUS
<1> USE DEF GateInv, ApprovalsAreReal, GrantNeedsApproval
<1>1. CASE Gate
  BY <1>1 DEF Gate, storeVars, TypeOK
<1>2. CASE ReadEvent
  BY <1>2 DEF ReadEvent, storeVars
<1>3. ASSUME NEW n \in Asks, LoseAsk(n) \/ Expire(n)
      PROVE  GateInv'
  BY <1>3 DEF LoseAsk, Expire, kernelVars, storeVars
<1>4. CASE Ingest
  <2> PICK n \in queued : RequestActionApproval(n)
    BY <1>4 DEF Ingest
  <2>1. \/ requests' = [requests EXCEPT ![n].status = "pending"]
        \/ requests' = requests
    BY DEF RequestActionApproval, Save
  <2>2. \A m \in Asks : requests'[m].status = "approved" => m \in approved
    BY <2>1 DEF TypeOK, Request
  <2>3. disk' \in {disk, requests'} /\ UNCHANGED <<approved, reply, grant, uses>>
    BY DEF RequestActionApproval, Save, kernelVars
  <2> QED BY <2>2, <2>3
<1>5. CASE Decide
  <2> PICK n \in Asks, status \in Terminal : DecideActionApproval(n, status)
    BY <1>5 DEF Decide
  <2>1. approved \subseteq approved'
    BY DEF DecideActionApproval
  <2>2. \A m \in Asks : requests'[m].status = "approved" => m \in approved'
    BY DEF DecideActionApproval, Save, TypeOK, Request
  <2>3. \A m \in Asks : disk'[m].status = "approved" => m \in approved'
    BY <2>1, <2>2 DEF DecideActionApproval, Save
  <2> QED BY <2>1, <2>2, <2>3 DEF DecideActionApproval, kernelVars
<1>6. CASE TakeNodeActionDecisions
  <2>1. \A m \in Asks : Settled(m) = "approved" => m \in approved
    BY DEF Settled
  <2>2. \A m \in Asks : requests'[m].status = "approved" => m \in approved
    BY <1>6, <2>1 DEF TakeNodeActionDecisions, Save
  <2>3. \A d \in reply' : d.status = "approved" => d.ask \in approved
    BY <1>6, <2>1 DEF TakeNodeActionDecisions, Undelivered
  <2>4. \A m \in Asks : disk'[m].status = "approved" => m \in approved
    BY <1>6, <2>2 DEF TakeNodeActionDecisions, Save
  <2> QED BY <1>6, <2>2, <2>3, <2>4 DEF TakeNodeActionDecisions, kernelVars
<1>7. CASE LoseReply
  BY <1>7 DEF LoseReply, kernelVars, storeVars
<1>8. CASE Apply
  BY <1>8 DEF Apply, ApplyDecision, storeVars
<1>9. CASE TimerFires
  BY <1>9 DEF TimerFires, storeVars
<1>10. CASE ControlRestart
  BY <1>10 DEF ControlRestart, kernelVars
<1>11. CASE AgentRestart
  BY <1>11 DEF AgentRestart, storeVars
<1>12. CASE UNCHANGED vars
  BY <1>12 DEF vars, kernelVars, storeVars
<1>13. CASE ApplyFails
  BY <1>13 DEF ApplyFails, ApplyDecisionFails, storeVars
<1> QED BY <1>1, <1>2, <1>3, <1>4, <1>5, <1>6, <1>7, <1>8, <1>9, <1>10, <1>11,
          <1>12, <1>13 DEF Next

\* Neither an expired nor a rejected request ever opens the gate, whatever is
\* lost or restarted (GrantNeedsApproval).
THEOREM GateNeedsOperator == Spec => []GrantNeedsApproval
<1>1. Init => GateInv
  BY DEF Init, GateInv, ApprovalsAreReal, GrantNeedsApproval, NoRequests
<1>2. GateInv => GrantNeedsApproval
  BY DEF GateInv
<1> QED BY <1>1, <1>2, TypeCorrect, GateStep, PTL DEF Spec

\* A grant in the kernel always has a timer that deletes it (GrantHasTimer).
THEOREM GrantIsTimed == Spec => []GrantHasTimer
<1>1. Init => GrantHasTimer
  BY DEF Init, GrantHasTimer
<1>2. TypeOK /\ GrantHasTimer /\ [Next]_vars => GrantHasTimer'
  <2> SUFFICES ASSUME TypeOK, GrantHasTimer, [Next]_vars
               PROVE  GrantHasTimer'
    OBVIOUS
  <2> USE DEF GrantHasTimer
  <2>1. CASE Apply
    <3> PICK d \in reply : ApplyDecision(d)
      BY <2>1 DEF Apply
    <3>1. CASE d.status = "approved"
      BY <3>1 DEF ApplyDecision, TypeOK
    <3>2. CASE d.status # "approved"
      BY <3>2 DEF ApplyDecision
    <3> QED BY <3>1, <3>2
  <2>2. CASE ReadEvent
    BY <2>2 DEF ReadEvent
  <2>3. CASE TimerFires \/ AgentRestart
    BY <2>3 DEF TimerFires, AgentRestart
  <2>4. CASE Ingest \/ Decide
    BY <2>4 DEF Ingest, RequestActionApproval, Decide, DecideActionApproval,
                kernelVars
  <2>5. ASSUME NEW n \in Asks, LoseAsk(n) \/ Expire(n)
        PROVE  GrantHasTimer'
    BY <2>5 DEF LoseAsk, Expire, kernelVars
  <2>6. CASE Gate \/ TakeNodeActionDecisions \/ LoseReply \/ ControlRestart
    BY <2>6 DEF Gate, TakeNodeActionDecisions, LoseReply, ControlRestart,
                kernelVars
  <2>7. CASE ApplyFails
    BY <2>7 DEF ApplyFails, ApplyDecisionFails, TypeOK
  <2>8. CASE UNCHANGED vars
    BY <2>8 DEF vars, kernelVars
  <2> QED BY <2>1, <2>2, <2>3, <2>4, <2>5, <2>6, <2>7, <2>8 DEF Next
<1> QED BY <1>1, <1>2, TypeCorrect, PTL DEF Spec

-----------------------------------------------------------------------------
(* A decision is applied at most once, as long as no checkpoint failed.    *)

\* What is in an answer or was applied is marked delivered in the checkpoint
\* as well, and what is in an answer was not applied yet.
DeliveredInv ==
    /\ disk = requests
    /\ \A n \in Asks : applied[n] > 0 => requests[n].delivered
    /\ \A d \in reply : requests[d.ask].delivered /\ applied[d.ask] = 0
    /\ \A d, e \in reply : d.ask = e.ask => d = e
    /\ \A n \in Asks : applied[n] <= 1

OnceInv == "persist" \notin faults => DeliveredInv

\* No step hands out what is marked delivered.
LEMMA OnceStep == TypeOK /\ OnceInv /\ [Next]_vars => OnceInv'
<1> SUFFICES ASSUME TypeOK, OnceInv, [Next]_vars, "persist" \notin faults'
             PROVE  DeliveredInv'
  BY DEF OnceInv
<1> USE DEF OnceInv, DeliveredInv
<1>1. CASE Gate
  BY <1>1 DEF Gate, storeVars
<1>2. CASE ReadEvent
  <2>1. "persist" \notin faults
    BY <1>2 DEF ReadEvent, Fault
  <2> QED BY <1>2, <2>1 DEF ReadEvent, storeVars
<1>3. ASSUME NEW n \in Asks, LoseAsk(n) \/ Expire(n)
      PROVE  DeliveredInv'
  BY <1>3 DEF LoseAsk, Expire, storeVars, Fault
<1>4. CASE Ingest
  <2> PICK n \in queued : RequestActionApproval(n)
    BY <1>4 DEF Ingest
  <2>1. \A m \in Asks : requests'[m].delivered = requests[m].delivered
    BY DEF RequestActionApproval, Save, TypeOK, Request
  <2>2. DeliveredInv
    BY DEF RequestActionApproval, Save, Fault
  <2>3. disk' = requests' /\ UNCHANGED <<reply, applied>>
    BY <2>2 DEF RequestActionApproval, Save, Fault
  <2> QED BY <2>1, <2>2, <2>3 DEF TypeOK, Decision
<1>5. CASE Decide
  <2> PICK n \in Asks, status \in Terminal : DecideActionApproval(n, status)
    BY <1>5 DEF Decide
  <2>1. \A m \in Asks : requests'[m].delivered = requests[m].delivered
    BY DEF DecideActionApproval, Save, TypeOK, Request
  <2>2. DeliveredInv
    BY DEF DecideActionApproval, Save, Fault
  <2>3. disk' = requests' /\ UNCHANGED <<reply, applied>>
    BY <2>2 DEF DecideActionApproval, Save, Fault
  <2> QED BY <2>1, <2>2, <2>3 DEF TypeOK, Decision
<1>6. CASE TakeNodeActionDecisions
  <2>1. DeliveredInv
    BY <1>6 DEF TakeNodeActionDecisions, Save, Fault
  <2>2. disk' = requests' /\ UNCHANGED applied
    BY <1>6 DEF TakeNodeActionDecisions, Save, Fault
  <2>3. \A m \in Asks : requests'[m].delivered
                          <=> requests[m].delivered \/ m \in Undelivered
    BY <1>6 DEF TakeNodeActionDecisions, Save, TypeOK, Request
  <2>4. \A m \in Undelivered : m \in Asks /\ applied[m] = 0
    BY <2>1 DEF Undelivered, TypeOK
  <2>5. \A d \in reply' : d.ask \in Undelivered
    BY <1>6 DEF TakeNodeActionDecisions
  <2>6. \A d, e \in reply' : d.ask = e.ask => d = e
    BY <1>6 DEF TakeNodeActionDecisions
  <2> QED BY <2>1, <2>2, <2>3, <2>4, <2>5, <2>6
<1>7. CASE LoseReply
  BY <1>7 DEF LoseReply, storeVars, Fault
<1>8. CASE Apply
  <2> PICK d \in reply : ApplyDecision(d)
    BY <1>8 DEF Apply
  <2>1. d.ask \in Asks
    BY DEF TypeOK, Decision
  <2>2. DeliveredInv
    BY DEF ApplyDecision
  <2>3. applied' = [applied EXCEPT ![d.ask] = 1]
    <3>1. applied[d.ask] + 1 = 1
      BY <2>1, <2>2
    <3> QED BY <3>1 DEF ApplyDecision
  <2>4. reply' = reply \ {d} /\ UNCHANGED <<requests, disk>>
    BY DEF ApplyDecision, storeVars
  <2>5. \A e \in reply' : e.ask \in Asks /\ e.ask # d.ask
    BY <2>2, <2>4 DEF TypeOK, Decision
  <2> QED BY <2>1, <2>2, <2>3, <2>4, <2>5 DEF TypeOK
<1>9. CASE TimerFires
  BY <1>9 DEF TimerFires, storeVars
<1>10. CASE ControlRestart
  BY <1>10 DEF ControlRestart
<1>11. CASE AgentRestart
  BY <1>11 DEF AgentRestart, storeVars
<1>12. CASE UNCHANGED vars
  BY <1>12 DEF vars, storeVars
<1>13. CASE ApplyFails
  BY <1>13 DEF ApplyFails, ApplyDecisionFails, storeVars, Fault
<1> QED BY <1>1, <1>2, <1>3, <1>4, <1>5, <1>6, <1>7, <1>8, <1>9, <1>10, <1>11,
          <1>12, <1>13 DEF Next

\* TakeNodeActionDecisions hands every decision out at most once, across
\* restarts too, as long as no checkpoint has failed (AppliedOnce).
THEOREM DecisionAppliedOnce == Spec => []AppliedOnce
<1>1. Init => OnceInv
  BY DEF Init, OnceInv, DeliveredInv, NoRequests
<1>2. OnceInv => AppliedOnce
  BY DEF OnceInv, DeliveredInv, AppliedOnce
<1> QED BY <1>1, <1>2, TypeCorrect, OnceStep, PTL DEF Spec

-----------------------------------------------------------------------------
(* The approvals implement permits.                                        *)

\* A request that is new to the store is new to its checkpoint, and until a
\* checkpoint fails an answer says what the store says.
AnswersInv ==
    /\ \A n \in Asks : requests[n].status = "none" => disk[n].status = "none"
    /\ "persist" \notin faults =>
          \A d \in reply : requests[d.ask].status = d.status

\* A step that leaves store and answers alone, or shortens the answer.
LEMMA AnswersKept ==
    ASSUME AnswersInv, UNCHANGED <<requests, disk>>, reply' \subseteq reply,
           "persist" \in faults => "persist" \in faults'
    PROVE  AnswersInv'
BY DEF AnswersInv

\* Saving a table in which no request is new that was not.
LEMMA NewerSaved ==
    ASSUME AnswersInv, NEW new, Save(new),
           \A n \in Asks : new[n].status = "none" => requests[n].status = "none"
    PROVE  \A n \in Asks : requests'[n].status = "none" => disk'[n].status = "none"
BY DEF AnswersInv, Save

\* No step changes a decision that was taken.
LEMMA AnswersStep == TypeOK /\ OnceInv /\ AnswersInv /\ [Next]_vars => AnswersInv'
<1> SUFFICES ASSUME TypeOK, OnceInv, AnswersInv, [Next]_vars
             PROVE  AnswersInv'
  OBVIOUS
<1>1. CASE Gate
  BY <1>1, AnswersKept DEF Gate, storeVars
<1>2. CASE ReadEvent
  BY <1>2, AnswersKept DEF ReadEvent, storeVars, Fault
<1>3. ASSUME NEW n \in Asks, LoseAsk(n) \/ Expire(n)
      PROVE  AnswersInv'
  BY <1>3, AnswersKept DEF LoseAsk, Expire, storeVars, Fault
<1>4. CASE Ingest
  <2> PICK n \in queued : RequestActionApproval(n)
    BY <1>4 DEF Ingest
  <2>1. CASE requests[n].status = "none"
    <3>1. Save([requests EXCEPT ![n].status = "pending"]) /\ UNCHANGED reply
      BY <2>1 DEF RequestActionApproval
    <3>2. \A m \in Asks : requests'[m].status = "none" => disk'[m].status = "none"
      BY <3>1, NewerSaved DEF TypeOK, Request
    <3>3. \A d \in reply : d.ask \in Asks /\ d.status \in Terminal
      BY DEF TypeOK, Decision
    <3>4. requests' = [requests EXCEPT ![n].status = "pending"]
      BY <3>1 DEF Save
    <3>5. "persist" \notin faults' => "persist" \notin faults
      BY <3>1 DEF Save, Fault
    <3>6. ASSUME "persist" \notin faults', NEW d \in reply
          PROVE  requests'[d.ask].status = d.status
      <4>1. requests[d.ask].status = d.status /\ d.ask # n
        BY <2>1, <3>3, <3>5, <3>6 DEF AnswersInv, Terminal
      <4> QED BY <3>3, <3>4, <4>1 DEF TypeOK, Request
    <3> QED BY <3>1, <3>2, <3>6 DEF AnswersInv
  <2>2. CASE requests[n].status # "none"
    BY <2>2, AnswersKept DEF RequestActionApproval
  <2> QED BY <2>1, <2>2
<1>5. CASE Decide
  <2> PICK n \in Asks, status \in Terminal : DecideActionApproval(n, status)
    BY <1>5 DEF Decide
  <2>1. /\ Save([requests EXCEPT ![n].status = status])
        /\ requests[n].status = "pending" /\ UNCHANGED reply
    BY DEF DecideActionApproval
  <2>2. \A m \in Asks : requests'[m].status = "none" => disk'[m].status = "none"
    BY <2>1, NewerSaved DEF TypeOK, Request, Terminal
  <2>3. \A d \in reply : d.ask \in Asks /\ d.status \in Terminal
    BY DEF TypeOK, Decision
  <2>4. requests' = [requests EXCEPT ![n].status = status]
    BY <2>1 DEF Save
  <2>5. "persist" \notin faults' => "persist" \notin faults
    BY <2>1 DEF Save, Fault
  <2>6. ASSUME "persist" \notin faults', NEW d \in reply
        PROVE  requests'[d.ask].status = d.status
    <3>1. requests[d.ask].status = d.status /\ d.ask # n
      BY <2>1, <2>3, <2>5, <2>6 DEF AnswersInv, Terminal
    <3> QED BY <2>3, <2>4, <3>1 DEF TypeOK, Request
  <2> QED BY <2>1, <2>2, <2>6 DEF AnswersInv
<1>6. CASE TakeNodeActionDecisions
  <2>1. Save(TakenTable) /\ reply' = {[ask |-> n, status |-> Settled(n)] : n \in Undelivered}
    BY <1>6 DEF TakeNodeActionDecisions, TakenTable
  <2>2. \A n \in Asks : TakenTable[n].status = Settled(n) \/ TakenTable[n] = requests[n]
    BY DEF TakenTable
  <2>3. \A n \in Asks : Settled(n) = "none" => requests[n].status = "none"
    BY DEF Settled
  <2>4. \A n \in Asks : TakenTable[n].status = "none" => requests[n].status = "none"
    BY <2>2, <2>3
  <2>5. \A n \in Asks : requests'[n].status = "none" => disk'[n].status = "none"
    BY <2>1, <2>4, NewerSaved
  <2>6. \A n \in Undelivered : n \in Asks /\ requests'[n].status = Settled(n)
    BY <2>1 DEF Save, TakenTable, Undelivered
  <2> QED BY <2>1, <2>5, <2>6 DEF AnswersInv
<1>7. CASE LoseReply
  BY <1>7, AnswersKept DEF LoseReply, storeVars, Fault
<1>8. CASE Apply
  BY <1>8, AnswersKept DEF Apply, ApplyDecision, storeVars
<1>9. CASE TimerFires
  BY <1>9, AnswersKept DEF TimerFires, storeVars
<1>10. CASE ControlRestart
  BY <1>10 DEF ControlRestart, AnswersInv, OnceInv, DeliveredInv
<1>11. CASE AgentRestart
  BY <1>11, AnswersKept DEF AgentRestart, storeVars
<1>12. CASE UNCHANGED vars
  BY <1>12, AnswersKept DEF vars, storeVars
<1>13. CASE ApplyFails
  BY <1>13, AnswersKept DEF ApplyFails, ApplyDecisionFails, storeVars, Fault
<1> QED BY <1>1, <1>2, <1>3, <1>4, <1>5, <1>6, <1>7, <1>8, <1>9, <1>10, <1>11,
          <1>12, <1>13 DEF Next

\* The variables of Permit, as ImplementsPermit maps them.
Reached == {n \in Asks : applied[n] > 0}
Saving == IF "persist" \in faults THEN "missed" ELSE "ok"
Verdicts == <<Verdict(requests), Verdict(disk)>>

\* Whether the store has missed a checkpoint changes with that fault only.
LEMMA SavingKept ==
    ASSUME NEW kind, kind # "persist",
           UNCHANGED faults \/ Fault(kind)
    PROVE  Saving' = Saving
BY DEF Saving, Fault

\* The verdicts depend on the tables and the deadlines alone.
LEMMA VerdictsKept ==
    ASSUME UNCHANGED <<requests, disk, due>>
    PROVE  Verdict(requests)' = Verdict(requests) /\ Verdict(disk)' = Verdict(disk)
BY DEF Verdict

\* The decisions that reached the process depend on "applied" alone.
LEMMA ReachedKept ==
    ASSUME UNCHANGED applied
    PROVE  Reached' = Reached
BY DEF Reached

\* The verdict on a request of a table.
LEMMA VerdictOf ==
    ASSUME NEW table, NEW n \in Asks
    PROVE  Verdict(table)[n] = IF table[n].status = "pending" /\ n \in due
                               THEN "rejected" ELSE table[n].status
BY DEF Verdict

\* One request changes its status and the table is saved.
LEMMA StatusSaved ==
    ASSUME TypeOK, NEW n \in Asks, NEW status, NEW new,
           new = [requests EXCEPT ![n].status = status], Save(new),
           due' \in {due, due \ {n}}, n \notin due',
           n \in due => disk[n].status # "pending"
    PROVE  /\ Verdict(requests)' = [Verdict(requests) EXCEPT ![n] = status]
           /\ \/ Verdict(disk)' = Verdict(requests)' /\ Saving' = Saving
              \/ Verdict(disk)' = Verdict(disk) /\ Saving' = "missed"
<1>1. \A m \in Asks : requests'[m].status = IF m = n THEN status ELSE requests[m].status
  BY DEF Save, TypeOK, Request
<1>2. \A m \in Asks : m # n => (m \in due' <=> m \in due)
  OBVIOUS
<1>3. Verdict(requests)' = [Verdict(requests) EXCEPT ![n] = status]
  BY <1>1, <1>2 DEF Verdict
<1>4. CASE disk' = new /\ UNCHANGED faults
  BY <1>3, <1>4 DEF Verdict, Saving, Save
<1>5. CASE disk' = disk /\ Fault("persist")
  <2>1. Verdict(disk)' = Verdict(disk)
    BY <1>2, <1>5 DEF Verdict
  <2>2. Saving' = "missed"
    BY <1>5 DEF Saving, Fault
  <2> QED BY <1>3, <2>1, <2>2
<1> QED BY <1>4, <1>5 DEF Save

PermitInv == TypeOK /\ GateInv /\ OnceInv /\ AnswersInv

\* Requests, decisions and deadlines: the store's part of a permit.
LEMMA PermitIngest ==
    ASSUME PermitInv, NEW n \in queued, RequestActionApproval(n)
    PROVE  Permits!Ask(n) \/ UNCHANGED Permits!pvars
<1>1. n \in Asks /\ UNCHANGED <<approved, applied, grant, uses>>
  BY DEF PermitInv, TypeOK, RequestActionApproval, kernelVars
<1>2. Reached' = Reached
  BY <1>1, ReachedKept
<1>3. CASE requests[n].status = "none"
  <2> DEFINE new == [requests EXCEPT ![n].status = "pending"]
  <2>1. Save(new) /\ due' = due \ {n}
    BY <1>3 DEF RequestActionApproval
  <2>2. disk[n].status = "none"
    BY <1>1, <1>3 DEF PermitInv, AnswersInv
  <2> HIDE DEF new
  <2>3. /\ Verdict(requests)' = [Verdict(requests) EXCEPT ![n] = "pending"]
        /\ \/ Verdict(disk)' = Verdict(requests)' /\ Saving' = Saving
           \/ Verdict(disk)' = Verdict(disk) /\ Saving' = "missed"
    BY <1>1, <2>1, <2>2, StatusSaved DEF PermitInv, new
  <2>4. Verdict(requests)[n] = "none"
    BY <1>1, <1>3, VerdictOf
  <2> QED BY <1>1, <1>2, <2>3, <2>4
          DEF Permits!Ask, Permits!Becomes, Permits!Written, Reached, Saving
<1>4. CASE requests[n].status # "none"
  <2>1. UNCHANGED <<requests, disk, due, faults>>
    BY <1>4 DEF RequestActionApproval
  <2> QED BY <1>1, <1>2, <2>1, VerdictsKept DEF Permits!pvars, Reached, Saving
<1> QED BY <1>3, <1>4

\* The operator decides a request that is not overdue.
LEMMA PermitDecide ==
    ASSUME PermitInv, NEW n \in Asks, NEW status \in Terminal,
           DecideActionApproval(n, status)
    PROVE  Permits!Approve(n) \/ Permits!Reject(n)
<1>1. UNCHANGED <<applied, grant, uses, due>>
  BY DEF DecideActionApproval, kernelVars
<1>2. Reached' = Reached
  BY <1>1, ReachedKept
<1> DEFINE new == [requests EXCEPT ![n].status = status]
<1>3. Save(new) /\ requests[n].status = "pending" /\ n \notin due
  BY DEF DecideActionApproval
<1> HIDE DEF new
<1>4. /\ Verdict(requests)' = [Verdict(requests) EXCEPT ![n] = status]
      /\ \/ Verdict(disk)' = Verdict(requests)' /\ Saving' = Saving
         \/ Verdict(disk)' = Verdict(disk) /\ Saving' = "missed"
  BY <1>1, <1>3, StatusSaved DEF PermitInv, new
<1>5. Verdict(requests)[n] = "pending"
  BY <1>3, VerdictOf
<1>6. CASE status = "approved"
  <2>1. approved' = approved \cup {n}
    BY <1>6 DEF DecideActionApproval
  <2> QED BY <1>1, <1>2, <1>4, <1>5, <1>6, <2>1
          DEF Permits!Approve, Permits!Becomes, Permits!Written, Reached, Saving
<1>7. CASE status = "rejected"
  <2>1. UNCHANGED approved
    BY <1>7 DEF DecideActionApproval
  <2> QED BY <1>1, <1>2, <1>4, <1>5, <1>7, <2>1
          DEF Permits!Reject, Permits!Becomes, Permits!Written, Reached, Saving
<1> QED BY <1>6, <1>7 DEF Terminal

\* A deadline that passes rejects, in memory and on disk alike.
LEMMA PermitExpire ==
    ASSUME PermitInv, NEW n \in Asks, Expire(n)
    PROVE  Permits!Lapse(n)
<1>1. /\ requests[n].status = "pending" /\ n \notin due /\ due' = due \cup {n}
      /\ UNCHANGED <<requests, disk, approved, applied, grant, uses, faults>>
  BY DEF Expire, kernelVars
<1>2. Reached' = Reached /\ Saving' = Saving
  BY <1>1 DEF Reached, Saving
<1>3. Verdict(requests)[n] = "pending"
  BY <1>1, VerdictOf
<1>4. Verdict(requests)' = [Verdict(requests) EXCEPT ![n] = "rejected"]
  BY <1>1 DEF Verdict
<1>5. Verdict(disk)' = [Verdict(disk) EXCEPT ![n] =
                           IF @ = "pending" THEN "rejected" ELSE @]
  BY <1>1 DEF Verdict
<1> QED BY <1>1, <1>2, <1>3, <1>4, <1>5 DEF Permits!Lapse, Reached, Saving

\* A poll settles what is settled already.
LEMMA PermitTake ==
    ASSUME PermitInv, TakeNodeActionDecisions
    PROVE  Permits!Write
<1>1. Save(TakenTable) /\ UNCHANGED <<due, approved, applied, grant, uses>>
  BY DEF TakeNodeActionDecisions, TakenTable, kernelVars
<1>2. Reached' = Reached
  BY <1>1, ReachedKept
<1>3. \A n \in Asks : TakenTable[n].status = IF n \in Undelivered THEN Settled(n)
                                             ELSE requests[n].status
  BY DEF TakenTable
<1>4. ASSUME NEW n \in Asks
      PROVE  Verdict(TakenTable)[n] = Verdict(requests)[n]
  <2>1. n \in Undelivered => Settled(n) # "pending" /\ Settled(n) = Verdict(requests)[n]
    BY VerdictOf DEF Undelivered, Terminal, Settled
  <2>2. CASE n \in Undelivered
    BY <1>3, <2>1, <2>2, VerdictOf
  <2>3. CASE n \notin Undelivered
    BY <1>3, <2>3, VerdictOf
  <2> QED BY <2>2, <2>3
<1>5. Verdict(TakenTable) = Verdict(requests)
  BY <1>4 DEF Verdict
<1>6. requests' = TakenTable /\ due' = due
  BY <1>1 DEF Save
<1>7. Verdict(requests)' = Verdict(requests)
  BY <1>5, <1>6 DEF Verdict
<1>8. CASE disk' = TakenTable /\ UNCHANGED faults
  <2>1. Verdict(disk)' = Verdict(requests)' /\ Saving' = Saving
    BY <1>6, <1>8 DEF Verdict, Saving
  <2> QED BY <1>1, <1>2, <1>7, <2>1
          DEF Permits!Write, Permits!Written, Reached, Saving
<1>9. CASE disk' = disk /\ Fault("persist")
  <2>1. Verdict(disk)' = Verdict(disk) /\ Saving' = "missed"
    BY <1>6, <1>9 DEF Verdict, Saving, Fault
  <2> QED BY <1>1, <1>2, <1>7, <2>1
          DEF Permits!Write, Permits!Written, Reached, Saving
<1> QED BY <1>1, <1>8, <1>9 DEF Save

\* The node applies the first decision of an answer.
LEMMA PermitApply ==
    ASSUME PermitInv, NEW d \in reply, ApplyDecision(d)
    PROVE  d.ask \in Asks /\ d.status \in Terminal /\ Permits!Reach(d.ask, d.status)
<1>1. /\ d.ask \in Asks /\ d.status \in Terminal
      /\ UNCHANGED <<requests, disk, due, approved, uses, faults>>
      /\ applied' = [applied EXCEPT ![d.ask] = @ + 1]
      /\ grant' = (grant \/ d.status = "approved")
  BY DEF PermitInv, TypeOK, Decision, ApplyDecision, storeVars
<1>2. Verdict(requests)' = Verdict(requests) /\ Verdict(disk)' = Verdict(disk)
  BY <1>1, VerdictsKept
<1>3. Reached' = Reached \cup {d.ask} /\ Saving' = Saving
  BY <1>1 DEF PermitInv, TypeOK, Reached, Saving
<1>4. d.status = "approved" => d.ask \in approved
  BY DEF PermitInv, GateInv, ApprovalsAreReal
<1>5. ASSUME Saving = "ok"
      PROVE  Verdict(requests)[d.ask] = d.status /\ d.ask \notin Reached
  <2>1. "persist" \notin faults
    BY <1>5 DEF Saving
  <2>2. requests[d.ask].status = d.status /\ applied[d.ask] = 0
    BY <2>1 DEF PermitInv, AnswersInv, OnceInv, DeliveredInv
  <2>3. d.status # "pending"
    BY <1>1 DEF Terminal
  <2> QED BY <1>1, <2>2, <2>3, VerdictOf DEF Reached
<1> QED BY <1>1, <1>2, <1>3, <1>4, <1>5 DEF Permits!Reach, Reached, Saving

\* What only shuts the gate, or leaves it as it is.
LEMMA PermitShut ==
    ASSUME UNCHANGED <<requests, disk, due, approved, applied, uses>>,
           Saving' = Saving, grant' \in {grant, FALSE}
    PROVE  Permits!Shut \/ UNCHANGED Permits!pvars
<1>1. /\ Verdict(requests)' = Verdict(requests) /\ Verdict(disk)' = Verdict(disk)
      /\ Reached' = Reached
  BY VerdictsKept, ReachedKept
<1> QED BY <1>1 DEF Permits!Shut, Permits!pvars, Reached, Saving

\* Every step is a step of the permit or none of its business.
LEMMA PermitStep == PermitInv /\ [Next]_vars => [Permits!Next]_(Permits!pvars)
<1> SUFFICES ASSUME PermitInv, [Next]_vars
             PROVE  Permits!Next \/ UNCHANGED Permits!pvars
  OBVIOUS
<1>1. CASE Gate
  <2>1. UNCHANGED <<requests, disk, due, approved, applied, grant, faults>>
    BY <1>1 DEF Gate, storeVars
  <2>2. /\ Verdict(requests)' = Verdict(requests) /\ Verdict(disk)' = Verdict(disk)
        /\ Reached' = Reached /\ Saving' = Saving
    BY <2>1, VerdictsKept, ReachedKept DEF Saving
  <2>3. CASE grant /\ uses' = uses + 1
    BY <2>1, <2>2, <2>3 DEF Permits!Next, Permits!Pass, Reached, Saving
  <2>4. CASE UNCHANGED uses
    BY <2>1, <2>2, <2>4 DEF Permits!pvars, Reached, Saving
  <2> QED BY <1>1, <2>3, <2>4 DEF Gate
<1>2. CASE ReadEvent
  <2>1. /\ UNCHANGED <<requests, disk, due, approved, applied, uses>>
        /\ UNCHANGED faults \/ Fault("node")
    BY <1>2 DEF ReadEvent, storeVars
  <2>2. grant' \in {grant, FALSE}
    BY <1>2 DEF ReadEvent
  <2>3. Saving' = Saving
    BY <2>1, SavingKept
  <2> QED BY <2>1, <2>2, <2>3, PermitShut DEF Permits!Next
<1>3. ASSUME NEW n \in Asks, LoseAsk(n)
      PROVE  UNCHANGED Permits!pvars \/ Permits!Next
  <2>1. /\ UNCHANGED <<requests, disk, due, approved, applied, uses, grant>>
        /\ Fault("ask")
    BY <1>3 DEF LoseAsk, kernelVars, storeVars
  <2>2. Saving' = Saving
    BY <2>1, SavingKept
  <2> QED BY <2>1, <2>2, PermitShut DEF Permits!Next
<1>4. ASSUME NEW n \in Asks, Expire(n)
      PROVE  Permits!Next
  BY <1>4, PermitExpire DEF Permits!Next
<1>5. CASE Ingest
  <2> PICK n \in queued : RequestActionApproval(n)
    BY <1>5 DEF Ingest
  <2>1. n \in Asks
    BY DEF PermitInv, TypeOK
  <2> QED BY <2>1, PermitIngest DEF Permits!Next
<1>6. CASE Decide
  <2> PICK n \in Asks, status \in Terminal : DecideActionApproval(n, status)
    BY <1>6 DEF Decide
  <2> QED BY PermitDecide DEF Permits!Next
<1>7. CASE TakeNodeActionDecisions
  BY <1>7, PermitTake DEF Permits!Next
<1>8. CASE LoseReply
  <2>1. /\ UNCHANGED <<requests, disk, due, approved, applied, uses, grant>>
        /\ Fault("reply")
    BY <1>8 DEF LoseReply, kernelVars, storeVars
  <2>2. Saving' = Saving
    BY <2>1, SavingKept
  <2> QED BY <2>1, <2>2, PermitShut DEF Permits!Next
<1>9. CASE Apply
  <2> PICK d \in reply : ApplyDecision(d)
    BY <1>9 DEF Apply
  <2>1. d.ask \in Asks /\ d.status \in Terminal /\ Permits!Reach(d.ask, d.status)
    BY PermitApply
  <2> QED BY <2>1 DEF Permits!Next, Terminal
<1>10. CASE ApplyFails
  <2> PICK d \in reply : ApplyDecisionFails(d)
    BY <1>10 DEF ApplyFails
  <2>1. /\ UNCHANGED <<requests, disk, due, approved, applied, uses>>
        /\ Fault("node") /\ grant' \in {grant, FALSE}
    BY DEF ApplyDecisionFails, storeVars
  <2>2. Saving' = Saving
    BY <2>1, SavingKept
  <2> QED BY <2>1, <2>2, PermitShut DEF Permits!Next
<1>11. CASE TimerFires \/ AgentRestart
  <2>1. /\ UNCHANGED <<requests, disk, due, approved, applied, uses, faults>>
        /\ grant' = FALSE
    BY <1>11 DEF TimerFires, AgentRestart, storeVars
  <2>2. Saving' = Saving
    BY <2>1 DEF Saving
  <2> QED BY <2>1, <2>2, PermitShut DEF Permits!Next
<1>12. CASE ControlRestart
  <2>1. /\ requests' = disk
        /\ UNCHANGED <<disk, due, approved, applied, uses, grant, faults>>
    BY <1>12 DEF ControlRestart, kernelVars
  <2>2. Verdict(requests)' = Verdict(disk) /\ Verdict(disk)' = Verdict(disk)
    BY <2>1 DEF Verdict
  <2>3. Reached' = Reached /\ Saving' = Saving
    BY <2>1 DEF Reached, Saving
  <2> QED BY <2>1, <2>2, <2>3 DEF Permits!Next, Permits!Restart, Reached, Saving
<1>13. CASE UNCHANGED vars
  <2>1. UNCHANGED <<requests, disk, due, approved, applied, uses, grant, faults>>
    BY <1>13 DEF vars, kernelVars, storeVars
  <2>2. Saving' = Saving
    BY <2>1 DEF Saving
  <2> QED BY <2>1, <2>2, PermitShut DEF Permits!Next
<1> QED BY <1>1, <1>2, <1>3, <1>4, <1>5, <1>6, <1>7, <1>8, <1>9, <1>10, <1>11,
          <1>12, <1>13 DEF Next

\* A request is decided once and never after its deadline, its decision reaches
\* the process at most once, and nothing else opens the gate: RequestActionApproval,
\* DecideActionApproval, TakeNodeActionDecisions and ApplyDecision implement a
\* permit (ImplementsPermit).
THEOREM ApprovalsArePermits == Spec => ImplementsPermit
<1>1. Init => PermitInv /\ Permits!Init
  <2> SUFFICES ASSUME Init PROVE PermitInv /\ Permits!Init
    OBVIOUS
  <2>1. TypeOK
    BY TypeInit
  <2>2. GateInv /\ OnceInv /\ AnswersInv
    BY DEF Init, GateInv, ApprovalsAreReal, GrantNeedsApproval, NoRequests,
           OnceInv, DeliveredInv, AnswersInv
  <2>3. /\ Verdict(requests) = [n \in Asks |-> "none"]
        /\ Verdict(disk) = Verdict(requests)
    BY DEF Init, NoRequests, Verdict
  <2>4. Reached = {} /\ Saving = "ok"
    BY DEF Init, Reached, Saving
  <2>5. approved = {} /\ grant = FALSE /\ uses = 0
    BY DEF Init
  <2> QED BY <2>1, <2>2, <2>3, <2>4, <2>5
          DEF PermitInv, Permits!Init, Reached, Saving
<1>2. PermitInv /\ [Next]_vars => PermitInv'
  BY TypeStep, GateStep, OnceStep, AnswersStep DEF PermitInv
<1> QED BY <1>1, <1>2, PermitStep, PTL DEF Spec, Permits!Spec, ImplementsPermit
=============================================================================
