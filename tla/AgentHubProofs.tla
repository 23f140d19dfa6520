-------------------------- MODULE AgentHubProofs --------------------------
(***************************************************************************)
(* What AgentHub promises for any number of connections, calls and faults: *)
(* the relay implements CommitService, nobody blocks on an answer, and no  *)
(* client that has gone holds the lease.                                   *)
(***************************************************************************)
EXTENDS AgentHub, TLAPS

-----------------------------------------------------------------------------
(* Types.                                                                  *)

CallType == [pc : CallSteps, client : Clients \cup {None},
             answer : Nat \cup {None}]

\* None is not the number of a client.
LEMMA ClientsNotNone == ASSUME NEW c \in Clients PROVE c # None
BY HubAssumption DEF Clients

\* The three ways a call is updated keep its type.
LEMMA CallMove ==
    ASSUME NEW f \in [Requests -> CallType], NEW r \in Requests,
           NEW s \in CallSteps
    PROVE  [f EXCEPT ![r].pc = s] \in [Requests -> CallType]
<1>1. [f[r] EXCEPT !.pc = s] \in CallType
  BY DEF CallType
<1> QED
  BY <1>1

\* A client is found.
LEMMA CallFound ==
    ASSUME NEW f \in [Requests -> CallType], NEW r \in Requests,
           NEW s \in CallSteps, NEW c \in Clients \cup {None}
    PROVE  [f EXCEPT ![r].pc = s, ![r].client = c] \in [Requests -> CallType]
<1>1. [[f[r] EXCEPT !.pc = s] EXCEPT !.client = c] \in CallType
  BY DEF CallType
<1> QED
  BY <1>1

\* An answer is given.
LEMMA CallAnswer ==
    ASSUME NEW f \in [Requests -> CallType], NEW r \in Requests,
           NEW s \in CallSteps, NEW n \in Nat \cup {None}
    PROVE  [f EXCEPT ![r].pc = s, ![r].answer = n] \in [Requests -> CallType]
<1>1. [[f[r] EXCEPT !.pc = s] EXCEPT !.answer = n] \in CallType
  BY DEF CallType
<1> QED
  BY <1>1

\* The type of the calls, by its name here.
LEMMA CallTyped == ASSUME TypeOK PROVE call \in [Requests -> CallType]
BY DEF TypeOK, CallType

\* A call that is answered, or moves on, keeps its type.
LEMMA Answered ==
    ASSUME TypeOK, NEW r \in Requests, NEW n \in Nat, Answer(r, n)
    PROVE  call' \in [Requests -> CallType]
<1>1. "done" \in CallSteps
  BY DEF CallSteps
<1> QED
  BY <1>1, CallTyped, CallAnswer DEF Answer

\* The same for a call that moves on.
LEMMA Called ==
    ASSUME TypeOK, NEW r \in Requests, NEW s \in CallSteps, Call(r, s)
    PROVE  call' \in [Requests -> CallType]
BY CallTyped, CallMove DEF Call

\* What Answer changes, field by field.
LEMMA AnswerFields ==
    ASSUME TypeOK, NEW r \in Requests, NEW n, Answer(r, n)
    PROVE  /\ call'[r].pc = "done" /\ call'[r].answer = n
           /\ call'[r].client = call[r].client
           /\ \A q \in Requests \ {r} : call'[q] = call[q]
<1>1. call \in [Requests -> CallType]
  BY CallTyped
<1>2. call' = [call EXCEPT ![r] =
                   [[@ EXCEPT !.pc = "done"] EXCEPT !.answer = n]]
  BY <1>1 DEF Answer, CallType
<1>3. call'[r] = [[call[r] EXCEPT !.pc = "done"] EXCEPT !.answer = n]
  BY <1>1, <1>2
<1>4. call[r] \in CallType
  BY <1>1
<1>5. /\ call'[r].pc = "done" /\ call'[r].answer = n
      /\ call'[r].client = call[r].client
  BY <1>3, <1>4 DEF CallType
<1> QED
  BY <1>1, <1>2, <1>5

\* What Call changes.
LEMMA CallFields ==
    ASSUME TypeOK, NEW r \in Requests, NEW s, Call(r, s)
    PROVE  /\ call'[r].pc = s /\ call'[r].answer = call[r].answer
           /\ call'[r].client = call[r].client
           /\ \A q \in Requests \ {r} : call'[q] = call[q]
<1>1. call \in [Requests -> CallType]
  BY CallTyped
<1>2. call' = [call EXCEPT ![r] = [@ EXCEPT !.pc = s]]
  BY <1>1 DEF Call
<1>3. call'[r] = [call[r] EXCEPT !.pc = s]
  BY <1>1, <1>2
<1>4. call[r] \in CallType
  BY <1>1
<1>5. /\ call'[r].pc = s /\ call'[r].answer = call[r].answer
      /\ call'[r].client = call[r].client
  BY <1>3, <1>4 DEF CallType
<1> QED
  BY <1>1, <1>2, <1>5

\* What FindAgent changes when there is a client.
LEMMA FoundFields ==
    ASSUME TypeOK, NEW r \in Requests, FindAgent(r), AgentClient # None
    PROVE  /\ call'[r].pc = "found" /\ call'[r].answer = call[r].answer
           /\ call'[r].client = AgentClient
           /\ \A q \in Requests \ {r} : call'[q] = call[q]
<1>1. call \in [Requests -> CallType]
  BY CallTyped
<1>2. call' = [call EXCEPT ![r].pc = "found", ![r].client = AgentClient]
  BY DEF FindAgent
<1>3. call' = [call EXCEPT ![r] =
                   [[@ EXCEPT !.pc = "found"] EXCEPT !.client = AgentClient]]
  BY <1>1, <1>2
<1>4. call'[r] = [[call[r] EXCEPT !.pc = "found"] EXCEPT !.client = AgentClient]
  BY <1>1, <1>3
<1>5. call[r] \in CallType
  BY <1>1
<1>6. /\ call'[r].pc = "found" /\ call'[r].answer = call[r].answer
      /\ call'[r].client = AgentClient
  BY <1>4, <1>5 DEF CallType
<1> QED
  BY <1>1, <1>3, <1>6

\* The initial state has its types.
LEMMA InitType == Init => TypeOK
<1> SUFFICES ASSUME Init PROVE TypeOK
  OBVIOUS
<1>1. call \in [Requests -> [pc : CallSteps, client : Clients \cup {None},
                             answer : Nat \cup {None}]]
  BY DEF Init, NoCall, CallSteps
<1>2. result \in [Requests -> Seq(Nat)] /\ history \in Seq(Requests)
  BY DEF Init
<1>3. stop \in [pc : StopSteps, client : Clients \cup {None}]
  BY DEF Init, NoStop, StopSteps
<1>4. faults \in 0..MaxFaults
  BY HubAssumption DEF Init
<1> QED
  BY <1>1, <1>2, <1>3, <1>4 DEF Init, TypeOK, Readers, Jobs

\* A call that is under way was given a client.
ClientKnown ==
    \A r \in Requests : call[r].pc \notin {"idle", "done"} =>
                            call[r].client \in Clients

\* Every step keeps them.
LEMMA StepType == ASSUME TypeOK, ClientKnown, [Next]_vars PROVE TypeOK'
<1> USE DEF lease, sidecar, relay
<1>1. ASSUME NEW c \in Clients, Connect(c) PROVE TypeOK'
  BY <1>1 DEF TypeOK, Connect, Move, Readers
<1>2. ASSUME NEW c \in Clients, AttachCheck(c) PROVE TypeOK'
  BY <1>2 DEF TypeOK, AttachCheck, Move, Readers
<1>3. ASSUME NEW c \in Clients, AttachStore(c) PROVE TypeOK'
  BY <1>3 DEF TypeOK, AttachStore, Move, Readers
<1>4. ASSUME NEW c \in Clients, AttachRegister(c) PROVE TypeOK'
  BY <1>4 DEF TypeOK, AttachRegister, Move, Readers
<1>5. ASSUME NEW c \in Clients, HeartbeatExpired(c) PROVE TypeOK'
  BY <1>5 DEF TypeOK, HeartbeatExpired
<1>6. ASSUME NEW c \in Clients, Heartbeat(c) PROVE TypeOK'
  BY <1>6 DEF TypeOK, Heartbeat, Move, Readers
<1>7. ASSUME NEW c \in Clients, HeartbeatStore(c) PROVE TypeOK'
  BY <1>7 DEF TypeOK, HeartbeatStore, Move, Readers
<1>8. ASSUME NEW c \in Clients, Refresh(c) PROVE TypeOK'
  BY <1>8, HubAssumption DEF TypeOK, Refresh, Fault
<1>9. ASSUME NEW c \in Clients, LeaveFails(c) PROVE TypeOK'
  BY <1>9 DEF TypeOK, LeaveFails, FailCommits, Move, Readers
<1>10. ASSUME NEW c \in Clients, LeaveRemoves(c) PROVE TypeOK'
  BY <1>10 DEF TypeOK, LeaveRemoves, RemoveAgent, Move, Readers
<1>11. ASSUME NEW c \in Clients, LeaveDetaches(c) PROVE TypeOK'
  BY <1>11 DEF TypeOK, LeaveDetaches, Move, Readers
<1>12. ASSUME NEW m \in inbox, ResultArrives(m) PROVE TypeOK'
  BY <1>12 DEF TypeOK, ResultArrives, Move, Readers, Results
<1>13. ASSUME NEW m \in inbox, TakeResult(m) PROVE TypeOK'
  <2>1. m.client \in Clients /\ m.req \in Requests /\ m.receipt \in Nat
    BY DEF TypeOK, Results
  <2>2. reader' \in [Clients -> Readers]
    BY <1>13, <2>1 DEF TypeOK, TakeResult, Move, Readers
  <2>3. commits' \in [Requests -> Clients \cup {None}]
    BY <1>13, <2>1 DEF TypeOK, TakeResult
  <2>4. result' \in [Requests -> Seq(Nat)]
    <3>1. result[m.req] \in Seq(Nat) /\ result \in [Requests -> Seq(Nat)]
      BY <2>1 DEF TypeOK
    <3>2. Append(result[m.req], m.receipt) \in Seq(Nat)
      BY <2>1, <3>1
    <3>3. \/ result' = result
          \/ result' = [result EXCEPT ![m.req] =
                            Append(result[m.req], m.receipt)]
      BY <1>13 DEF TakeResult
    <3> QED
      BY <2>1, <3>1, <3>2, <3>3
  <2> QED
    BY <1>13, <2>2, <2>3, <2>4 DEF TypeOK, TakeResult
<1>14. ASSUME NEW r \in Requests, FindAgent(r) PROVE TypeOK'
  <2>1. call' \in [Requests -> CallType]
    <3>1. CASE AgentClient = None
      BY <1>14, <3>1, Answered DEF FindAgent
    <3>2. CASE AgentClient # None
      <4>1. AgentClient \in Clients
        BY <3>2 DEF AgentClient, TypeOK
      <4>2. "found" \in CallSteps
        BY DEF CallSteps
      <4>3. call' = [call EXCEPT ![r].pc = "found", ![r].client = AgentClient]
        BY <1>14, <3>2 DEF FindAgent
      <4> QED
        BY <4>1, <4>2, <4>3, CallTyped, CallFound
    <3> QED
      BY <3>1, <3>2
  <2> QED
    BY <1>14, <2>1 DEF TypeOK, FindAgent, CallType
<1>15. ASSUME NEW r \in Requests, AuthorizeAgent(r) PROVE TypeOK'
  <2>1. call' \in [Requests -> CallType]
    <3>1. "allowed" \in CallSteps
      BY DEF CallSteps
    <3> QED
      BY <1>15, <3>1, Answered, Called DEF AuthorizeAgent
  <2> QED
    BY <1>15, <2>1 DEF TypeOK, AuthorizeAgent, CallType
<1>16. ASSUME NEW r \in Requests, RegisterCommit(r) PROVE TypeOK'
  <2>1. "registered" \in CallSteps /\ call[r].client \in Clients \cup {None}
    BY DEF CallSteps, TypeOK
  <2>2. call' \in [Requests -> CallType]
    BY <1>16, <2>1, Called DEF RegisterCommit
  <2> QED
    BY <1>16, <2>1, <2>2 DEF TypeOK, RegisterCommit, CallType
<1>17. ASSUME NEW r \in Requests, SendCommit(r) PROVE TypeOK'
  <2>1. "waiting" \in CallSteps
    BY DEF CallSteps
  <2>2. call' \in [Requests -> CallType]
    BY <1>17, <2>1, Called DEF SendCommit
  <2>3. outbox' \subseteq Clients \X Requests
    <3>1. call[r].client \in Clients
      BY <1>17 DEF SendCommit, ClientKnown
    <3>2. outbox' \subseteq outbox \cup {<<call[r].client, r>>}
      BY <1>17 DEF SendCommit
    <3> QED
      BY <3>1, <3>2 DEF TypeOK
  <2> QED
    BY <1>17, <2>2, <2>3 DEF TypeOK, SendCommit, CallType
<1>18. ASSUME NEW r \in Requests, ReceiveResult(r) PROVE TypeOK'
  <2>1. result[r] \in Seq(Nat) /\ result[r] # << >>
    BY <1>18 DEF TypeOK, ReceiveResult
  <2>2. Head(result[r]) \in Nat /\ Tail(result[r]) \in Seq(Nat)
    BY <2>1
  <2>3. call' \in [Requests -> CallType]
    BY <1>18, <2>2, Answered DEF ReceiveResult
  <2>4. result' \in [Requests -> Seq(Nat)]
    BY <1>18, <2>2 DEF TypeOK, ReceiveResult
  <2> QED
    BY <1>18, <2>3, <2>4 DEF TypeOK, ReceiveResult, CallType
<1>19. ASSUME NEW r \in Requests, TimeOut(r) PROVE TypeOK'
  <2>1. call' \in [Requests -> CallType]
    BY <1>19, Answered DEF TimeOut
  <2> QED
    BY <1>19, <2>1 DEF TypeOK, TimeOut, CallType
<1>20. ASSUME NEW c \in Clients, NEW r \in Requests, StartJob(c, r)
     PROVE  TypeOK'
  BY <1>20 DEF TypeOK, StartJob, Jobs
<1>21. ASSUME NEW r \in Requests, CommitJob(r) PROVE TypeOK'
  BY <1>21 DEF TypeOK, CommitJob, Jobs
<1>22. ASSUME NEW r \in Requests, FailJob(r) PROVE TypeOK'
  BY <1>22, HubAssumption DEF TypeOK, FailJob, Jobs, Fault
<1>23. ASSUME NEW r \in Requests, ReportJob(r) PROVE TypeOK'
  BY <1>23 DEF TypeOK, ReportJob, Jobs, Results, Outcome
<1>24. ASSUME NEW c \in Clients, Rotate(c) PROVE TypeOK'
  BY <1>24 DEF TypeOK, Rotate
<1>25. ASSUME StopFinds PROVE TypeOK'
  BY <1>25, HubAssumption DEF TypeOK, StopFinds, AgentClient, Fault,
     StopSteps
<1>26. ASSUME StopRemoves PROVE TypeOK'
  BY <1>26 DEF TypeOK, StopRemoves, RemoveAgent, StopSteps
<1>27. ASSUME StopFails PROVE TypeOK'
  <2>1. stop' \in [pc : StopSteps, client : Clients \cup {None}]
    BY <1>27 DEF TypeOK, StopFails, StopSteps
  <2>2. result' \in [Requests -> Seq(Nat)]
    BY <1>27 DEF TypeOK, StopFails, FailCommits
  <2>3. commits' \in [Requests -> Clients \cup {None}]
    BY <1>27 DEF TypeOK, StopFails, FailCommits
  <2> QED
    BY <1>27, <2>1, <2>2, <2>3 DEF TypeOK, StopFails
<1>28. ASSUME StopDisconnects PROVE TypeOK'
  BY <1>28 DEF TypeOK, StopDisconnects, NoStop, StopSteps
<1>29. ASSUME NEW c \in Clients, Cut(c) PROVE TypeOK'
  BY <1>29, HubAssumption DEF TypeOK, Cut, Fault
<1>30. ASSUME NEW c \in Clients, Expire(c) PROVE TypeOK'
  BY <1>30, HubAssumption DEF TypeOK, Expire, Fault
<1>31. ASSUME UNCHANGED vars PROVE TypeOK'
  BY <1>31 DEF TypeOK, vars
<1> QED
  BY <1>1, <1>2, <1>3, <1>4, <1>5, <1>6, <1>7, <1>8, <1>9, <1>10, <1>11,
     <1>12, <1>13, <1>14, <1>15, <1>16, <1>17, <1>18, <1>19, <1>20, <1>21,
     <1>22, <1>23, <1>24, <1>25, <1>26, <1>27, <1>28, <1>29, <1>30, <1>31
     DEF Next, ReaderSteps, WaitSteps, JobSteps, DisconnectCell

\* No call is under way at first.
LEMMA InitClient == Init => ClientKnown
BY DEF Init, ClientKnown, NoCall

\* FindAgent gives the client, and only the end of a call outlives it.
LEMMA StepClient ==
    ASSUME TypeOK, ClientKnown, [Next]_vars PROVE ClientKnown'
<1> USE DEF lease, sidecar, relay
<1>1. ASSUME NEW c \in Clients, Connect(c) PROVE ClientKnown'
  BY <1>1 DEF ClientKnown, Connect
<1>2. ASSUME NEW c \in Clients, AttachCheck(c) PROVE ClientKnown'
  BY <1>2 DEF ClientKnown, AttachCheck
<1>3. ASSUME NEW c \in Clients, AttachStore(c) PROVE ClientKnown'
  BY <1>3 DEF ClientKnown, AttachStore
<1>4. ASSUME NEW c \in Clients, AttachRegister(c) PROVE ClientKnown'
  BY <1>4 DEF ClientKnown, AttachRegister
<1>5. ASSUME NEW c \in Clients, HeartbeatExpired(c) PROVE ClientKnown'
  BY <1>5 DEF ClientKnown, HeartbeatExpired
<1>6. ASSUME NEW c \in Clients, Heartbeat(c) PROVE ClientKnown'
  BY <1>6 DEF ClientKnown, Heartbeat
<1>7. ASSUME NEW c \in Clients, HeartbeatStore(c) PROVE ClientKnown'
  BY <1>7 DEF ClientKnown, HeartbeatStore
<1>8. ASSUME NEW c \in Clients, Refresh(c) PROVE ClientKnown'
  BY <1>8 DEF ClientKnown, Refresh
<1>9. ASSUME NEW c \in Clients, LeaveFails(c) PROVE ClientKnown'
  BY <1>9 DEF ClientKnown, LeaveFails
<1>10. ASSUME NEW c \in Clients, LeaveRemoves(c) PROVE ClientKnown'
  BY <1>10 DEF ClientKnown, LeaveRemoves
<1>11. ASSUME NEW c \in Clients, LeaveDetaches(c) PROVE ClientKnown'
  BY <1>11 DEF ClientKnown, LeaveDetaches
<1>12. ASSUME NEW m \in inbox, ResultArrives(m) PROVE ClientKnown'
  BY <1>12 DEF ClientKnown, ResultArrives
<1>13. ASSUME NEW m \in inbox, TakeResult(m) PROVE ClientKnown'
  BY <1>13 DEF ClientKnown, TakeResult
<1>14. ASSUME NEW r \in Requests, FindAgent(r) PROVE ClientKnown'
  <2>1. CASE AgentClient = None
    <3>1. Answer(r, 0)
      BY <1>14, <2>1 DEF FindAgent
    <3> QED
      BY <3>1, AnswerFields DEF ClientKnown
  <2>2. CASE AgentClient # None
    <3>1. AgentClient \in Clients
      BY <2>2 DEF AgentClient, TypeOK
    <3> QED
      BY <1>14, <2>2, <3>1, FoundFields DEF ClientKnown
  <2> QED
    BY <2>1, <2>2
<1>15. ASSUME NEW r \in Requests, AuthorizeAgent(r) PROVE ClientKnown'
  <2>1. CASE Call(r, "allowed")
    BY <1>15, <2>1 DEF TypeOK, ClientKnown, AuthorizeAgent, Call
  <2>2. CASE Answer(r, 0)
    BY <2>2 DEF TypeOK, ClientKnown, Answer
  <2> QED
    BY <1>15, <2>1, <2>2 DEF AuthorizeAgent
<1>16. ASSUME NEW r \in Requests, RegisterCommit(r) PROVE ClientKnown'
  BY <1>16 DEF TypeOK, ClientKnown, RegisterCommit, Call, Answer
<1>17. ASSUME NEW r \in Requests, SendCommit(r) PROVE ClientKnown'
  BY <1>17 DEF TypeOK, ClientKnown, SendCommit, Call, Answer
<1>18. ASSUME NEW r \in Requests, ReceiveResult(r) PROVE ClientKnown'
  BY <1>18 DEF TypeOK, ClientKnown, ReceiveResult, Call, Answer
<1>19. ASSUME NEW r \in Requests, TimeOut(r) PROVE ClientKnown'
  BY <1>19 DEF TypeOK, ClientKnown, TimeOut, Call, Answer
<1>20. ASSUME NEW c \in Clients, NEW r \in Requests, StartJob(c, r)
     PROVE  ClientKnown'
  BY <1>20 DEF ClientKnown, StartJob
<1>21. ASSUME NEW r \in Requests, CommitJob(r) PROVE ClientKnown'
  BY <1>21 DEF ClientKnown, CommitJob
<1>22. ASSUME NEW r \in Requests, FailJob(r) PROVE ClientKnown'
  BY <1>22 DEF ClientKnown, FailJob
<1>23. ASSUME NEW r \in Requests, ReportJob(r) PROVE ClientKnown'
  BY <1>23 DEF ClientKnown, ReportJob
<1>24. ASSUME NEW c \in Clients, Rotate(c) PROVE ClientKnown'
  BY <1>24 DEF ClientKnown, Rotate
<1>25. ASSUME StopFinds PROVE ClientKnown'
  BY <1>25 DEF ClientKnown, StopFinds
<1>26. ASSUME StopRemoves PROVE ClientKnown'
  BY <1>26 DEF ClientKnown, StopRemoves
<1>27. ASSUME StopFails PROVE ClientKnown'
  BY <1>27 DEF ClientKnown, StopFails
<1>28. ASSUME StopDisconnects PROVE ClientKnown'
  BY <1>28 DEF ClientKnown, StopDisconnects
<1>29. ASSUME NEW c \in Clients, Cut(c) PROVE ClientKnown'
  BY <1>29 DEF ClientKnown, Cut
<1>30. ASSUME NEW c \in Clients, Expire(c) PROVE ClientKnown'
  BY <1>30 DEF ClientKnown, Expire
<1>31. ASSUME UNCHANGED vars PROVE ClientKnown'
  BY <1>31 DEF ClientKnown, vars
<1> QED
  BY <1>1, <1>2, <1>3, <1>4, <1>5, <1>6, <1>7, <1>8, <1>9, <1>10, <1>11,
     <1>12, <1>13, <1>14, <1>15, <1>16, <1>17, <1>18, <1>19, <1>20, <1>21,
     <1>22, <1>23, <1>24, <1>25, <1>26, <1>27, <1>28, <1>29, <1>30, <1>31
     DEF Next, ReaderSteps, WaitSteps, JobSteps, DisconnectCell

-----------------------------------------------------------------------------
(* The lease.                                                              *)

\* Inductive form of LeaseIsLive: a reader past RemoveAgent has no session.
LeaseInv ==
    /\ agentByCell # None => agentByCell \in agents
    /\ \A c \in Clients : reader[c] \in {"removed", "left"} => c \notin agents

\* Nobody holds the lease at first.
LEMMA InitLease == Init => LeaseInv
BY DEF Init, LeaseInv

\* Attach registers the lease with the session, RemoveAgent drops both.
LEMMA StepLease == ASSUME TypeOK, LeaseInv, [Next]_vars PROVE LeaseInv'
<1> USE DEF lease, sidecar, relay
<1>1. ASSUME NEW c \in Clients, Connect(c) PROVE LeaseInv'
  BY <1>1 DEF TypeOK, LeaseInv, Connect, Move
<1>2. ASSUME NEW c \in Clients, AttachCheck(c) PROVE LeaseInv'
  BY <1>2 DEF TypeOK, LeaseInv, AttachCheck, Move
<1>3. ASSUME NEW c \in Clients, AttachStore(c) PROVE LeaseInv'
  BY <1>3 DEF TypeOK, LeaseInv, AttachStore, Move
<1>4. ASSUME NEW c \in Clients, AttachRegister(c) PROVE LeaseInv'
  BY <1>4 DEF TypeOK, LeaseInv, AttachRegister, Move
<1>5. ASSUME NEW c \in Clients, HeartbeatExpired(c) PROVE LeaseInv'
  BY <1>5 DEF TypeOK, LeaseInv, HeartbeatExpired
<1>6. ASSUME NEW c \in Clients, Heartbeat(c) PROVE LeaseInv'
  BY <1>6 DEF TypeOK, LeaseInv, Heartbeat, Move
<1>7. ASSUME NEW c \in Clients, HeartbeatStore(c) PROVE LeaseInv'
  BY <1>7 DEF TypeOK, LeaseInv, HeartbeatStore, Move
<1>8. ASSUME NEW c \in Clients, Refresh(c) PROVE LeaseInv'
  BY <1>8 DEF TypeOK, LeaseInv, Refresh
<1>9. ASSUME NEW c \in Clients, LeaveFails(c) PROVE LeaseInv'
  BY <1>9 DEF TypeOK, LeaseInv, LeaveFails, Move
<1>10. ASSUME NEW c \in Clients, LeaveRemoves(c) PROVE LeaseInv'
  BY <1>10 DEF TypeOK, LeaseInv, LeaveRemoves, Move, RemoveAgent
<1>11. ASSUME NEW c \in Clients, LeaveDetaches(c) PROVE LeaseInv'
  BY <1>11 DEF TypeOK, LeaseInv, LeaveDetaches, Move
<1>12. ASSUME NEW m \in inbox, ResultArrives(m) PROVE LeaseInv'
  BY <1>12 DEF TypeOK, LeaseInv, ResultArrives, Move, Results
<1>13. ASSUME NEW m \in inbox, TakeResult(m) PROVE LeaseInv'
  BY <1>13 DEF TypeOK, LeaseInv, TakeResult, Results, Move
<1>14. ASSUME NEW r \in Requests, FindAgent(r) PROVE LeaseInv'
  BY <1>14 DEF TypeOK, LeaseInv, FindAgent
<1>15. ASSUME NEW r \in Requests, AuthorizeAgent(r) PROVE LeaseInv'
  BY <1>15 DEF TypeOK, LeaseInv, AuthorizeAgent
<1>16. ASSUME NEW r \in Requests, RegisterCommit(r) PROVE LeaseInv'
  BY <1>16 DEF TypeOK, LeaseInv, RegisterCommit
<1>17. ASSUME NEW r \in Requests, SendCommit(r) PROVE LeaseInv'
  BY <1>17 DEF TypeOK, LeaseInv, SendCommit
<1>18. ASSUME NEW r \in Requests, ReceiveResult(r) PROVE LeaseInv'
  BY <1>18 DEF TypeOK, LeaseInv, ReceiveResult
<1>19. ASSUME NEW r \in Requests, TimeOut(r) PROVE LeaseInv'
  BY <1>19 DEF TypeOK, LeaseInv, TimeOut
<1>20. ASSUME NEW c \in Clients, NEW r \in Requests, StartJob(c, r)
     PROVE  LeaseInv'
  BY <1>20 DEF TypeOK, LeaseInv, StartJob
<1>21. ASSUME NEW r \in Requests, CommitJob(r) PROVE LeaseInv'
  BY <1>21 DEF TypeOK, LeaseInv, CommitJob
<1>22. ASSUME NEW r \in Requests, FailJob(r) PROVE LeaseInv'
  BY <1>22 DEF TypeOK, LeaseInv, FailJob
<1>23. ASSUME NEW r \in Requests, ReportJob(r) PROVE LeaseInv'
  BY <1>23 DEF TypeOK, LeaseInv, ReportJob
<1>24. ASSUME NEW c \in Clients, Rotate(c) PROVE LeaseInv'
  BY <1>24 DEF TypeOK, LeaseInv, Rotate
<1>25. ASSUME StopFinds PROVE LeaseInv'
  BY <1>25 DEF TypeOK, LeaseInv, StopFinds
<1>26. ASSUME StopRemoves PROVE LeaseInv'
  BY <1>26 DEF TypeOK, LeaseInv, StopRemoves, RemoveAgent
<1>27. ASSUME StopFails PROVE LeaseInv'
  BY <1>27 DEF TypeOK, LeaseInv, StopFails
<1>28. ASSUME StopDisconnects PROVE LeaseInv'
  BY <1>28 DEF TypeOK, LeaseInv, StopDisconnects
<1>29. ASSUME NEW c \in Clients, Cut(c) PROVE LeaseInv'
  BY <1>29 DEF TypeOK, LeaseInv, Cut
<1>30. ASSUME NEW c \in Clients, Expire(c) PROVE LeaseInv'
  BY <1>30 DEF TypeOK, LeaseInv, Expire
<1>31. ASSUME UNCHANGED vars PROVE LeaseInv'
  BY <1>31 DEF LeaseInv, vars
<1> QED
  BY <1>1, <1>2, <1>3, <1>4, <1>5, <1>6, <1>7, <1>8, <1>9, <1>10, <1>11,
     <1>12, <1>13, <1>14, <1>15, <1>16, <1>17, <1>18, <1>19, <1>20, <1>21,
     <1>22, <1>23, <1>24, <1>25, <1>26, <1>27, <1>28, <1>29, <1>30, <1>31
     DEF Next, ReaderSteps, WaitSteps, JobSteps, DisconnectCell

-----------------------------------------------------------------------------
(* The channels.                                                           *)

\* Inductive form of AnswerBuffered: a call in the map has not been answered,
\* and DisconnectCell fails the calls of a client, not those of None.
PendingInv ==
    /\ stop.pc # "none" => stop.client # None
    /\ \A r \in Requests :
        /\ call[r].pc \in {"idle", "found", "allowed"} =>
              commits[r] = None /\ result[r] = << >>
        /\ commits[r] # None => result[r] = << >>
        /\ Len(result[r]) <= 1

\* The map and the channels are empty at first.
LEMMA InitPending == Init => PendingInv
BY DEF Init, PendingInv, NoCall, NoStop

\* FailCommits answers only calls that were in the map.
LEMMA FailedOnce ==
    ASSUME TypeOK, PendingInv, NEW c, c # None, FailCommits(c),
           NEW r \in Requests
    PROVE  /\ commits'[r] # None => result'[r] = << >>
           /\ Len(result'[r]) <= 1
           /\ commits[r] = None => commits'[r] = None /\ result'[r] = result[r]
<1>1. CASE commits[r] = c
  <2>1. result[r] = << >>
    BY <1>1 DEF PendingInv
  <2>2. commits'[r] = None
    BY <1>1 DEF FailCommits
  <2>3. result'[r] = Append(result[r], 0)
    BY <1>1 DEF FailCommits
  <2>4. result'[r] = <<0>>
    BY <2>1, <2>3
  <2>5. Len(result'[r]) = 1
    BY <2>4
  <2> QED
    BY <1>1, <2>2, <2>5
<1>2. CASE commits[r] # c
  BY <1>2 DEF FailCommits, PendingInv
<1> QED
  BY <1>1, <1>2

\* Every answer takes its call out of the map.
LEMMA StepPending == ASSUME TypeOK, PendingInv, [Next]_vars PROVE PendingInv'
<1> USE DEF lease, sidecar, relay
<1>1. ASSUME NEW c \in Clients, Connect(c) PROVE PendingInv'
  BY <1>1 DEF PendingInv, Connect
<1>2. ASSUME NEW c \in Clients, AttachCheck(c) PROVE PendingInv'
  BY <1>2 DEF PendingInv, AttachCheck
<1>3. ASSUME NEW c \in Clients, AttachStore(c) PROVE PendingInv'
  BY <1>3 DEF PendingInv, AttachStore
<1>4. ASSUME NEW c \in Clients, AttachRegister(c) PROVE PendingInv'
  BY <1>4 DEF PendingInv, AttachRegister
<1>5. ASSUME NEW c \in Clients, HeartbeatExpired(c) PROVE PendingInv'
  BY <1>5 DEF PendingInv, HeartbeatExpired
<1>6. ASSUME NEW c \in Clients, Heartbeat(c) PROVE PendingInv'
  BY <1>6 DEF PendingInv, Heartbeat
<1>7. ASSUME NEW c \in Clients, HeartbeatStore(c) PROVE PendingInv'
  BY <1>7 DEF PendingInv, HeartbeatStore
<1>8. ASSUME NEW c \in Clients, Refresh(c) PROVE PendingInv'
  BY <1>8 DEF PendingInv, Refresh
<1>9. ASSUME NEW c \in Clients, LeaveFails(c) PROVE PendingInv'
  BY <1>9, ClientsNotNone, FailedOnce DEF PendingInv, LeaveFails
<1>10. ASSUME NEW c \in Clients, LeaveRemoves(c) PROVE PendingInv'
  BY <1>10 DEF PendingInv, LeaveRemoves
<1>11. ASSUME NEW c \in Clients, LeaveDetaches(c) PROVE PendingInv'
  BY <1>11 DEF PendingInv, LeaveDetaches
<1>12. ASSUME NEW m \in inbox, ResultArrives(m) PROVE PendingInv'
  BY <1>12 DEF PendingInv, ResultArrives
<1>13. ASSUME NEW m \in inbox, TakeResult(m) PROVE PendingInv'
  <2>1. CASE commits[m.req] = m.client
    <3>1. m.req \in Requests /\ m.client \in Clients /\ m.receipt \in Nat
      BY DEF TypeOK, Results
    <3>2. result[m.req] = << >>
      BY <2>1, <3>1, ClientsNotNone DEF PendingInv
    <3>3. commits' = [commits EXCEPT ![m.req] = None]
      BY <1>13, <2>1 DEF TakeResult
    <3>4. result' = [result EXCEPT ![m.req] = <<m.receipt>>]
      BY <1>13, <2>1, <3>1, <3>2 DEF TakeResult, TypeOK
    <3>5. call[m.req].pc \notin {"idle", "found", "allowed"}
      BY <2>1, <3>1, ClientsNotNone DEF PendingInv
    <3>6. call' = call /\ stop' = stop
      BY <1>13 DEF TakeResult
    <3> QED
      BY <3>1, <3>3, <3>4, <3>5, <3>6 DEF PendingInv, TypeOK
  <2>2. CASE commits[m.req] # m.client
    BY <1>13, <2>2 DEF TakeResult, PendingInv
  <2> QED
    BY <2>1, <2>2
<1>14. ASSUME NEW r \in Requests, FindAgent(r) PROVE PendingInv'
  BY <1>14 DEF TypeOK, PendingInv, FindAgent, Call, Answer
<1>15. ASSUME NEW r \in Requests, AuthorizeAgent(r) PROVE PendingInv'
  BY <1>15 DEF TypeOK, PendingInv, AuthorizeAgent, Call, Answer
<1>16. ASSUME NEW r \in Requests, RegisterCommit(r) PROVE PendingInv'
  BY <1>16 DEF TypeOK, PendingInv, RegisterCommit, Call, Answer
<1>17. ASSUME NEW r \in Requests, SendCommit(r) PROVE PendingInv'
  BY <1>17 DEF TypeOK, PendingInv, SendCommit, Call, Answer
<1>18. ASSUME NEW r \in Requests, ReceiveResult(r) PROVE PendingInv'
  <2>1. result[r] \in Seq(Nat) /\ result[r] # << >> /\ Len(result[r]) <= 1
    BY <1>18 DEF ReceiveResult, PendingInv, TypeOK
  <2>2. Tail(result[r]) = << >>
    BY <2>1
  <2>3. commits[r] = None
    BY <2>1 DEF PendingInv
  <2>4. result' = [result EXCEPT ![r] = << >>]
    BY <1>18, <2>2 DEF ReceiveResult
  <2> QED
    BY <1>18, <2>3, <2>4 DEF ReceiveResult, Answer, PendingInv, TypeOK
<1>19. ASSUME NEW r \in Requests, TimeOut(r) PROVE PendingInv'
  BY <1>19 DEF TypeOK, PendingInv, TimeOut, Call, Answer
<1>20. ASSUME NEW c \in Clients, NEW r \in Requests, StartJob(c, r)
     PROVE  PendingInv'
  BY <1>20 DEF PendingInv, StartJob
<1>21. ASSUME NEW r \in Requests, CommitJob(r) PROVE PendingInv'
  BY <1>21 DEF PendingInv, CommitJob
<1>22. ASSUME NEW r \in Requests, FailJob(r) PROVE PendingInv'
  BY <1>22 DEF PendingInv, FailJob
<1>23. ASSUME NEW r \in Requests, ReportJob(r) PROVE PendingInv'
  BY <1>23 DEF PendingInv, ReportJob
<1>24. ASSUME NEW c \in Clients, Rotate(c) PROVE PendingInv'
  BY <1>24 DEF PendingInv, Rotate
<1>25. ASSUME StopFinds PROVE PendingInv'
  BY <1>25 DEF TypeOK, PendingInv, StopFinds
<1>26. ASSUME StopRemoves PROVE PendingInv'
  BY <1>26 DEF TypeOK, PendingInv, StopRemoves
<1>27. ASSUME StopFails PROVE PendingInv'
  <2>1. /\ stop.client # None /\ FailCommits(stop.client)
        /\ stop'.client = stop.client /\ call' = call
    BY <1>27 DEF StopFails, PendingInv, TypeOK
  <2> QED
    BY <2>1, FailedOnce DEF PendingInv
<1>28. ASSUME StopDisconnects PROVE PendingInv'
  BY <1>28 DEF PendingInv, StopDisconnects, NoStop
<1>29. ASSUME NEW c \in Clients, Cut(c) PROVE PendingInv'
  BY <1>29 DEF PendingInv, Cut
<1>30. ASSUME NEW c \in Clients, Expire(c) PROVE PendingInv'
  BY <1>30 DEF PendingInv, Expire
<1>31. ASSUME UNCHANGED vars PROVE PendingInv'
  BY <1>31 DEF PendingInv, vars
<1> QED
  BY <1>1, <1>2, <1>3, <1>4, <1>5, <1>6, <1>7, <1>8, <1>9, <1>10, <1>11,
     <1>12, <1>13, <1>14, <1>15, <1>16, <1>17, <1>18, <1>19, <1>20, <1>21,
     <1>22, <1>23, <1>24, <1>25, <1>26, <1>27, <1>28, <1>29, <1>30, <1>31
     DEF Next, ReaderSteps, WaitSteps, JobSteps, DisconnectCell

-----------------------------------------------------------------------------
(* The relay implements the service.                                       *)

\* Revision n of the branch h contains the commit made for r.
Holds(h, n, r) == n <= Len(h) /\ \E i \in 1..n : h[i] = r

Unsent == {"idle", "found", "allowed", "registered"}

\* How far each request has come: it is sent once, run once and committed at
\* most once, and whatever carries a receipt for it carries a true one.
RequestInv ==
    \A r \in Requests :
        /\ call[r].answer = None <=> call[r].pc # "done"
        /\ call[r].pc \in Unsent => job[r] = "none"
        /\ job[r] \in {"none", "running"} =>
              \A i \in 1..Len(history) : history[i] # r
        /\ job[r] = "committed" => Holds(history, Len(history), r)
        /\ result[r] # << >> =>
              Head(result[r]) = 0 \/ Holds(history, Head(result[r]), r)

MessageInv ==
    /\ \A c \in Clients, r \in Requests : <<c, r>> \in outbox =>
          /\ call[r].pc \notin Unsent /\ job[r] = "none"
          /\ c = call[r].client
    /\ \A m \in inbox : m.receipt = 0 \/ Holds(history, m.receipt, m.req)

ReceiptInv == RequestInv /\ MessageInv

\* Nothing is relayed at first.
LEMMA InitReceipts == Init => ReceiptInv
BY DEF Init, ReceiptInv, RequestInv, MessageInv, NoCall

\* A revision that holds a commit keeps it.
LEMMA HoldsOn ==
    ASSUME TypeOK, NEW n \in Nat, NEW r \in Requests, Holds(history, n, r),
           NEW q \in Requests, history' = Append(history, q)
    PROVE  Holds(history', n, r)
<1>1. history \in Seq(Requests) /\ Len(history) \in Nat
  BY DEF TypeOK
<1>2. PICK i \in 1..n : history[i] = r
  BY DEF Holds
<1>3. n <= Len(history) /\ Len(history') = Len(history) + 1
  BY <1>1 DEF Holds
<1>4. history'[i] = history[i]
  BY <1>1, <1>2, <1>3
<1> QED
  BY <1>1, <1>2, <1>3, <1>4 DEF Holds

relayed == <<call, result, outbox, inbox, job, history>>

\* Sessions, leases and connections do not touch what is relayed.
LEMMA QuietReceipts ==
    ASSUME ReceiptInv, UNCHANGED relayed
    PROVE  ReceiptInv'
BY DEF ReceiptInv, RequestInv, MessageInv, relayed

\* An error in a channel carries no receipt.
LEMMA FailedReceipts ==
    ASSUME TypeOK, PendingInv, ReceiptInv, NEW c, c # None, FailCommits(c),
           UNCHANGED <<call, outbox, inbox, job, history>>
    PROVE  ReceiptInv'
<1>1. ASSUME NEW r \in Requests, result'[r] # << >>
      PROVE  Head(result'[r]) = 0 \/ Holds(history', Head(result'[r]), r)
  <2>1. CASE commits[r] = c
    <3>1. result[r] = << >>
      BY <2>1 DEF PendingInv
    <3>2. result'[r] = Append(result[r], 0)
      BY <2>1 DEF FailCommits
    <3>3. Head(result'[r]) = 0
      BY <3>1, <3>2
    <3> QED
      BY <3>3
  <2>2. CASE commits[r] # c
    <3>1. result'[r] = result[r]
      BY <2>2 DEF FailCommits
    <3> QED
      BY <1>1, <3>1 DEF ReceiptInv, RequestInv
  <2> QED
    BY <2>1, <2>2
<1>2. RequestInv'
  BY <1>1 DEF ReceiptInv, RequestInv
<1>3. MessageInv'
  BY DEF ReceiptInv, MessageInv
<1> QED
  BY <1>2, <1>3 DEF ReceiptInv

\* A call that moves on without a message: before it is sent, or when it ends.
LEMMA CalledReceipts ==
    ASSUME TypeOK, ReceiptInv, NEW r \in Requests,
           \A q \in Requests \ {r} : call'[q] = call[q],
           call'[r].answer = None <=> call'[r].pc # "done",
           \/ call[r].pc \in Unsent
           \/ call'[r].pc \notin Unsent /\ call'[r].client = call[r].client,
           UNCHANGED <<outbox, inbox, job, history>>,
           \A q \in Requests :
               result'[q] = result[q] \/ result'[q] = << >>
    PROVE  ReceiptInv'
<1>1. RequestInv'
  BY DEF ReceiptInv, RequestInv, Unsent
<1>2. ASSUME NEW c \in Clients, NEW q \in Requests, <<c, q>> \in outbox'
      PROVE  call'[q].pc \notin Unsent /\ job'[q] = "none"
             /\ c = call'[q].client
  BY <1>2 DEF ReceiptInv, MessageInv
<1>3. MessageInv'
  BY <1>2 DEF ReceiptInv, MessageInv
<1> QED
  BY <1>1, <1>3 DEF ReceiptInv

\* A receipt is made only by the goroutine whose commit went through.
LEMMA StepReceipts ==
    ASSUME TypeOK, PendingInv, ReceiptInv, [Next]_vars
    PROVE  ReceiptInv'
<1> USE DEF lease, sidecar, relay
<1>1. ASSUME NEW c \in Clients, LeaveFails(c) PROVE ReceiptInv'
  BY <1>1, FailedReceipts, ClientsNotNone DEF LeaveFails
<1>2. ASSUME StopFails PROVE ReceiptInv'
  BY <1>2, FailedReceipts DEF StopFails, PendingInv
<1>3. ASSUME NEW m \in inbox, ResultArrives(m) PROVE ReceiptInv'
  <2>1. /\ UNCHANGED <<call, result, outbox, job, history>>
        /\ inbox' \subseteq inbox
    BY <1>3 DEF ResultArrives
  <2> QED
    BY <2>1 DEF ReceiptInv, RequestInv, MessageInv
<1>4. ASSUME NEW m \in inbox, TakeResult(m) PROVE ReceiptInv'
  <2>1. UNCHANGED <<call, outbox, job, history>> /\ inbox' \subseteq inbox
    BY <1>4 DEF TakeResult
  <2>2. MessageInv'
    BY <2>1 DEF ReceiptInv, MessageInv
  <2>3. m.client \in Clients /\ m.req \in Requests /\ m.receipt \in Nat
    BY DEF TypeOK, Results
  <2>4. CASE commits[m.req] = m.client
    <3>1. result[m.req] = << >>
      BY <2>3, <2>4, ClientsNotNone DEF PendingInv
    <3>2. result' = [result EXCEPT ![m.req] = <<m.receipt>>]
      BY <1>4, <2>3, <2>4, <3>1 DEF TakeResult, TypeOK
    <3>3. m.receipt = 0 \/ Holds(history, m.receipt, m.req)
      BY DEF ReceiptInv, MessageInv
    <3>4. ASSUME NEW r \in Requests, result'[r] # << >>
          PROVE  Head(result'[r]) = 0 \/ Holds(history, Head(result'[r]), r)
      <4>1. CASE r = m.req
        <5>1. Head(result'[r]) = m.receipt
          BY <3>2, <4>1, <2>3 DEF TypeOK
        <5> QED
          BY <3>3, <4>1, <5>1
      <4>2. CASE r # m.req
        BY <3>2, <3>4, <4>2 DEF ReceiptInv, RequestInv, TypeOK
      <4> QED
        BY <4>1, <4>2
    <3>5. RequestInv'
      BY <2>1, <3>4 DEF ReceiptInv, RequestInv
    <3> QED
      BY <2>2, <3>5 DEF ReceiptInv
  <2>5. CASE commits[m.req] # m.client
    <3>1. result' = result
      BY <1>4, <2>5 DEF TakeResult
    <3> QED
      BY <2>1, <2>2, <3>1 DEF ReceiptInv, RequestInv
  <2> QED
    BY <2>4, <2>5
<1>5. ASSUME NEW r \in Requests, FindAgent(r) PROVE ReceiptInv'
  <2>1. /\ UNCHANGED <<outbox, inbox, job, history, result>>
        /\ call[r].pc \in Unsent /\ call[r].answer = None
    BY <1>5 DEF FindAgent, Unsent, ReceiptInv, RequestInv
  <2>2. CASE AgentClient = None
    <3>1. Answer(r, 0)
      BY <1>5, <2>2 DEF FindAgent
    <3> QED
      BY <2>1, <3>1, AnswerFields, CalledReceipts, HubAssumption
  <2>3. CASE AgentClient # None
    <3>1. /\ call'[r].pc = "found" /\ call'[r].answer = call[r].answer
          /\ \A q \in Requests \ {r} : call'[q] = call[q]
      BY <1>5, <2>3, FoundFields
    <3> QED
      BY <2>1, <3>1, CalledReceipts
  <2> QED
    BY <2>2, <2>3
<1>6. ASSUME NEW r \in Requests, AuthorizeAgent(r) PROVE ReceiptInv'
  <2>1. /\ UNCHANGED <<outbox, inbox, job, history, result>>
        /\ call[r].pc \in Unsent /\ call[r].answer = None
        /\ Call(r, "allowed") \/ Answer(r, 0)
    BY <1>6 DEF AuthorizeAgent, Unsent, ReceiptInv, RequestInv
  <2>2. CASE Call(r, "allowed")
    BY <2>1, <2>2, CallFields, CalledReceipts
  <2>3. CASE Answer(r, 0)
    BY <2>1, <2>3, AnswerFields, CalledReceipts, HubAssumption
  <2> QED
    BY <2>1, <2>2, <2>3
<1>7. ASSUME NEW r \in Requests, RegisterCommit(r) PROVE ReceiptInv'
  <2>1. /\ UNCHANGED <<outbox, inbox, job, history, result>>
        /\ call[r].pc \in Unsent /\ call[r].answer = None
        /\ Call(r, "registered")
    BY <1>7 DEF RegisterCommit, Unsent, ReceiptInv, RequestInv
  <2> QED
    BY <2>1, CallFields, CalledReceipts
<1>8. ASSUME NEW r \in Requests, SendCommit(r) PROVE ReceiptInv'
  <2>1. /\ UNCHANGED <<inbox, job, history, result>>
        /\ call[r].pc \in Unsent /\ call[r].answer = None
        /\ outbox' \subseteq outbox \cup {<<call[r].client, r>>}
        /\ Call(r, "waiting")
    BY <1>8 DEF SendCommit, Unsent, ReceiptInv, RequestInv
  <2>2. /\ call'[r].pc = "waiting" /\ call'[r].answer = call[r].answer
        /\ call'[r].client = call[r].client
        /\ \A q \in Requests \ {r} : call'[q] = call[q]
    BY <2>1, CallFields
  <2>3. RequestInv'
    BY <2>1, <2>2 DEF ReceiptInv, RequestInv, Unsent
  <2>4. ASSUME NEW c \in Clients, NEW q \in Requests, <<c, q>> \in outbox'
        PROVE  call'[q].pc \notin Unsent /\ job'[q] = "none"
               /\ c = call'[q].client
    <3>1. CASE q = r
      <4>1. <<c, r>> \notin outbox
        BY <2>1 DEF ReceiptInv, MessageInv
      <4>2. c = call[r].client
        BY <2>1, <2>4, <3>1, <4>1
      <4>3. job[r] = "none"
        BY <2>1 DEF ReceiptInv, RequestInv
      <4> QED
        BY <2>1, <2>2, <3>1, <4>2, <4>3 DEF Unsent
    <3>2. CASE q # r
      <4>1. <<c, q>> \in outbox
        BY <2>1, <2>4, <3>2
      <4> QED
        BY <2>1, <2>2, <3>2, <4>1 DEF ReceiptInv, MessageInv
    <3> QED
      BY <3>1, <3>2
  <2>5. MessageInv'
    BY <2>1, <2>4 DEF ReceiptInv, MessageInv
  <2> QED
    BY <2>3, <2>5 DEF ReceiptInv
<1>9. ASSUME NEW r \in Requests, ReceiveResult(r) PROVE ReceiptInv'
  <2>1. /\ UNCHANGED <<outbox, inbox, job, history>>
        /\ call[r].pc = "waiting" /\ result[r] # << >>
        /\ Answer(r, Head(result[r]))
        /\ result' = [result EXCEPT ![r] = Tail(result[r])]
    BY <1>9 DEF ReceiveResult
  <2>2. result[r] \in Seq(Nat) /\ Len(result[r]) <= 1
    BY DEF TypeOK, PendingInv
  <2>3. Head(result[r]) \in Nat /\ Tail(result[r]) = << >>
    BY <2>1, <2>2
  <2>4. \A q \in Requests : result'[q] = result[q] \/ result'[q] = << >>
    BY <2>1, <2>3 DEF TypeOK
  <2>5. Head(result[r]) # None
    BY <2>3, HubAssumption
  <2> QED
    BY <2>1, <2>4, <2>5, AnswerFields, CalledReceipts DEF Unsent
<1>10. ASSUME NEW r \in Requests, TimeOut(r) PROVE ReceiptInv'
  <2>1. /\ UNCHANGED <<outbox, inbox, job, history, result>>
        /\ Answer(r, 0)
    BY <1>10 DEF TimeOut
  <2> QED
    BY <2>1, AnswerFields, CalledReceipts, HubAssumption DEF Unsent
<1>11. ASSUME NEW c \in Clients, NEW r \in Requests, StartJob(c, r)
       PROVE  ReceiptInv'
  <2>1. /\ UNCHANGED <<call, result, inbox, history>>
        /\ <<c, r>> \in outbox /\ outbox' = outbox \ {<<c, r>>}
        /\ job' = [job EXCEPT ![r] = "running"]
    BY <1>11 DEF StartJob
  <2>2. job[r] = "none" /\ call[r].pc \notin Unsent /\ c = call[r].client
    BY <2>1 DEF ReceiptInv, MessageInv
  <2>3. RequestInv'
    <3>1. \A q \in Requests : job'[q] # job[q] => job'[q] = "running" /\ q = r
      BY <2>1 DEF TypeOK
    <3>2. \A i \in 1..Len(history) : history[i] # r
      BY <2>2 DEF ReceiptInv, RequestInv
    <3>3. job'[r] = "running"
      BY <2>1 DEF TypeOK
    <3> QED
      BY <2>1, <2>2, <3>1, <3>2, <3>3 DEF ReceiptInv, RequestInv
  <2>4. MessageInv'
    BY <2>1, <2>2 DEF ReceiptInv, MessageInv, TypeOK
  <2> QED
    BY <2>3, <2>4 DEF ReceiptInv
<1>12. ASSUME NEW r \in Requests, CommitJob(r) PROVE ReceiptInv'
  <2>1. /\ UNCHANGED <<call, result, outbox, inbox>>
        /\ job[r] = "running" /\ job' = [job EXCEPT ![r] = "committed"]
        /\ history' = Append(history, r)
    BY <1>12 DEF CommitJob
  <2>2. history \in Seq(Requests) /\ Len(history) \in Nat
    BY DEF TypeOK
  <2>3. /\ Len(history') = Len(history) + 1
        /\ history'[Len(history) + 1] = r
        /\ \A i \in 1..Len(history) : history'[i] = history[i]
    BY <2>1, <2>2
  <2>4. Holds(history', Len(history'), r)
    BY <2>2, <2>3 DEF Holds
  <2>5. ASSUME NEW n \in Nat, NEW q \in Requests, Holds(history, n, q)
        PROVE  Holds(history', n, q)
    BY <2>1, <2>5, HoldsOn
  <2>6. ASSUME NEW q \in Requests
        PROVE  /\ job'[q] \in {"none", "running"} =>
                     \A i \in 1..Len(history') : history'[i] # q
               /\ job'[q] = "committed" => Holds(history', Len(history'), q)
    <3>1. CASE q = r
      BY <2>1, <2>4, <3>1 DEF TypeOK
    <3>2. CASE q # r
      <4>1. job'[q] = job[q]
        BY <2>1, <3>2 DEF TypeOK
      <4>2. ASSUME job[q] \in {"none", "running"},
                   NEW i \in 1..Len(history')
            PROVE  history'[i] # q
        <5>1. i \in 1..Len(history) \/ i = Len(history) + 1
          BY <2>2, <2>3
        <5> QED
          BY <2>3, <3>2, <4>2, <5>1 DEF ReceiptInv, RequestInv
      <4>3. ASSUME job[q] = "committed" PROVE Holds(history', Len(history'), q)
        <5>1. Holds(history, Len(history), q)
          BY <4>3 DEF ReceiptInv, RequestInv
        <5>2. PICK i \in 1..Len(history) : history[i] = q
          BY <5>1 DEF Holds
        <5>3. i \in 1..Len(history') /\ history'[i] = q /\ Len(history') \in Nat
          BY <2>2, <2>3, <5>2
        <5> QED
          BY <5>3 DEF Holds
      <4> QED
        BY <4>1, <4>2, <4>3
    <3> QED
      BY <3>1, <3>2
  <2>7. ASSUME NEW q \in Requests
        PROVE  call'[q].pc \in Unsent => job'[q] = "none"
    BY <2>1 DEF ReceiptInv, RequestInv, TypeOK
  <2>8. ASSUME NEW q \in Requests, result'[q] # << >>
        PROVE  Head(result'[q]) = 0 \/ Holds(history', Head(result'[q]), q)
    <3>1. Head(result[q]) \in Nat
      BY <2>1, <2>8 DEF TypeOK
    <3>2. Head(result[q]) = 0 \/ Holds(history, Head(result[q]), q)
      BY <2>1, <2>8 DEF ReceiptInv, RequestInv
    <3> QED
      BY <2>1, <2>5, <3>1, <3>2
  <2>9. RequestInv'
    BY <2>1, <2>6, <2>7, <2>8 DEF ReceiptInv, RequestInv
  <2>10. ASSUME NEW m \in inbox'
         PROVE  m.receipt = 0 \/ Holds(history', m.receipt, m.req)
    <3>1. m.receipt \in Nat /\ m.req \in Requests
      BY <2>1 DEF TypeOK, Results
    <3>2. m.receipt = 0 \/ Holds(history, m.receipt, m.req)
      BY <2>1 DEF ReceiptInv, MessageInv
    <3> QED
      BY <2>5, <3>1, <3>2
  <2>11. ASSUME NEW c \in Clients, NEW q \in Requests, <<c, q>> \in outbox'
         PROVE  call'[q].pc \notin Unsent /\ job'[q] = "none"
                /\ c = call'[q].client
    <3>1. call[q].pc \notin Unsent /\ job[q] = "none" /\ c = call[q].client
      BY <2>1, <2>11 DEF ReceiptInv, MessageInv
    <3> QED
      BY <2>1, <3>1 DEF TypeOK
  <2>12. MessageInv'
    BY <2>10, <2>11 DEF MessageInv
  <2> QED
    BY <2>9, <2>12 DEF ReceiptInv
<1>13. ASSUME NEW r \in Requests, FailJob(r) PROVE ReceiptInv'
  <2>1. /\ UNCHANGED <<call, result, outbox, inbox, history>>
        /\ job[r] \in {"running", "committed"}
        /\ job' = [job EXCEPT ![r] = "failed"]
    BY <1>13 DEF FailJob
  <2>2. RequestInv'
    BY <2>1 DEF ReceiptInv, RequestInv, TypeOK
  <2>3. MessageInv'
    BY <2>1 DEF ReceiptInv, MessageInv, TypeOK
  <2> QED
    BY <2>2, <2>3 DEF ReceiptInv
<1>14. ASSUME NEW r \in Requests, ReportJob(r) PROVE ReceiptInv'
  <2>1. /\ UNCHANGED <<call, result, outbox, history>>
        /\ job[r] \in {"committed", "failed"}
        /\ job' = [job EXCEPT ![r] = "done"]
        /\ inbox' \subseteq inbox \cup
             {[client |-> call[r].client, req |-> r, receipt |-> Outcome(r)]}
    BY <1>14 DEF ReportJob
  <2>2. RequestInv'
    <3>1. \A q \in Requests : job'[q] # job[q] => job'[q] = "done" /\ q = r
      BY <2>1 DEF TypeOK
    <3>2. call[r].pc \notin Unsent
      BY <2>1 DEF ReceiptInv, RequestInv
    <3> QED
      BY <2>1, <3>1, <3>2 DEF ReceiptInv, RequestInv
  <2>3. Outcome(r) = 0 \/ Holds(history, Outcome(r), r)
    BY <2>1 DEF Outcome, ReceiptInv, RequestInv
  <2>4. MessageInv'
    BY <2>1, <2>3 DEF ReceiptInv, MessageInv, TypeOK
  <2> QED
    BY <2>2, <2>4 DEF ReceiptInv
<1>15. ASSUME UNCHANGED relayed PROVE ReceiptInv'
  BY <1>15, QuietReceipts
<1>16. ASSUME NEW c \in Clients,
              \/ Connect(c) \/ AttachCheck(c) \/ AttachStore(c)
              \/ AttachRegister(c) \/ Heartbeat(c) \/ HeartbeatExpired(c)
              \/ HeartbeatStore(c) \/ LeaveRemoves(c) \/ LeaveDetaches(c)
              \/ Refresh(c) \/ Rotate(c) \/ Cut(c) \/ Expire(c)
       PROVE  UNCHANGED relayed
  BY <1>16 DEF relayed, Connect, AttachCheck, AttachStore, AttachRegister,
     Heartbeat, HeartbeatExpired, HeartbeatStore, LeaveRemoves,
     LeaveDetaches, Refresh, Rotate, Cut, Expire
<1>17. ASSUME StopFinds \/ StopRemoves \/ StopDisconnects \/ UNCHANGED vars
       PROVE  UNCHANGED relayed
  BY <1>17 DEF relayed, StopFinds, StopRemoves, StopDisconnects, vars
<1> QED
  BY <1>1, <1>2, <1>3, <1>4, <1>5, <1>6, <1>7, <1>8, <1>9, <1>10, <1>11,
     <1>12, <1>13, <1>14, <1>15, <1>16, <1>17
     DEF Next, ReaderSteps, WaitSteps, JobSteps, DisconnectCell

-----------------------------------------------------------------------------
(* The theorems.                                                           *)

IInv == TypeOK /\ ClientKnown /\ LeaseInv /\ PendingInv /\ ReceiptInv

\* The inductive invariant, kept by every handler, call and job.
LEMMA Invariance == Spec => []IInv
<1>1. Init => IInv
  BY InitType, InitClient, InitLease, InitPending, InitReceipts DEF IInv
<1>2. IInv /\ [Next]_vars => IInv'
  BY StepType, StepClient, StepLease, StepPending, StepReceipts DEF IInv
<1> QED
  BY <1>1, <1>2, PTL DEF Spec

\* Every variable of the hub and of the sidecar stays in its set.
THEOREM TypeCorrect == Spec => []TypeOK
<1>1. IInv => TypeOK
  BY DEF IInv
<1> QED
  BY <1>1, Invariance, PTL

\* No goroutine of the hub ever blocks on the channel of a call: the reader of
\* the result, the reader that leaves and DisconnectCell answer it once at most.
THEOREM AnswersAreBuffered == Spec => []AnswerBuffered
<1>1. IInv => AnswerBuffered
  BY DEF IInv, PendingInv, AnswerBuffered
<1> QED
  BY <1>1, Invariance, PTL

\* The lease always names a session, and no client whose reader ended has one.
THEOREM LeasesAreLive == Spec => []LeaseIsLive
<1>1. IInv => LeaseIsLive
  BY DEF IInv, LeaseInv, LeaseIsLive
<1> QED
  BY <1>1, Invariance, PTL

-----------------------------------------------------------------------------
(* Each step of the relay is a step of CommitService or a stutter.         *)

\* Nothing the service knows of changes.
LEMMA Stutter ==
    ASSUME history' = history,
           \A r \in Requests : /\ call'[r].answer = call[r].answer
                               /\ call'[r].pc = "idle" <=> call[r].pc = "idle"
    PROVE  UNCHANGED Service!svars
BY DEF Service!svars

\* A call gets its answer, an error.
LEMMA FailMaps ==
    ASSUME TypeOK, ReceiptInv, NEW r \in Requests, Answer(r, 0),
           call[r].pc \notin {"idle", "done"}, history' = history
    PROVE  Service!Next
<1>1. /\ call'[r].pc = "done" /\ call'[r].answer = 0
      /\ \A q \in Requests \ {r} : call'[q] = call[q]
  BY AnswerFields
<1>2. call[r].answer = None
  BY DEF ReceiptInv, RequestInv
<1>3. Service!Fail(r)
  BY <1>1, <1>2 DEF Service!Fail
<1> QED
  BY <1>3 DEF Service!Next

\* A step of the hub or of a sidecar is a step of the service or a stutter.
LEMMA StepMaps ==
    ASSUME IInv, [Next]_vars PROVE [Service!Next]_Service!svars
<1> USE DEF lease, sidecar, relay
<1> USE DEF IInv
<1>1. ASSUME UNCHANGED <<call, history>> PROVE UNCHANGED Service!svars
  BY <1>1, Stutter
<1>2. ASSUME NEW r \in Requests, FindAgent(r)
      PROVE  Service!Next
  <2>1. history' = history /\ call[r].pc = "idle" /\ call[r].answer = None
    BY <1>2 DEF FindAgent, ReceiptInv, RequestInv
  <2>2. CASE AgentClient = None
    <3>1. Answer(r, 0)
      BY <1>2, <2>2 DEF FindAgent
    <3>2. /\ call'[r].pc = "done" /\ call'[r].answer = 0
          /\ \A q \in Requests \ {r} : call'[q] = call[q]
      BY <3>1, AnswerFields
    <3>3. Service!Refuse(r)
      BY <2>1, <3>2 DEF Service!Refuse
    <3> QED
      BY <3>3 DEF Service!Next
  <2>3. CASE AgentClient # None
    <3>1. /\ call'[r].pc = "found" /\ call'[r].answer = call[r].answer
          /\ \A q \in Requests \ {r} : call'[q] = call[q]
      BY <1>2, <2>3, FoundFields
    <3>2. Service!Ask(r)
      BY <2>1, <3>1 DEF Service!Ask
    <3> QED
      BY <3>2 DEF Service!Next
  <2> QED
    BY <2>2, <2>3
<1>3. ASSUME NEW r \in Requests, NEW s, s # "idle", Call(r, s),
             call[r].pc # "idle", history' = history
      PROVE  UNCHANGED Service!svars
  BY <1>3, CallFields, Stutter
<1>4. ASSUME NEW r \in Requests, AuthorizeAgent(r)
      PROVE  [Service!Next]_Service!svars
  <2>1. /\ history' = history /\ call[r].pc = "found"
        /\ Call(r, "allowed") \/ Answer(r, 0)
    BY <1>4 DEF AuthorizeAgent
  <2> QED
    BY <2>1, <1>3, FailMaps
<1>5. ASSUME NEW r \in Requests, RegisterCommit(r) \/ SendCommit(r)
      PROVE  UNCHANGED Service!svars
  <2>1. /\ history' = history /\ call[r].pc \in {"allowed", "registered"}
        /\ Call(r, "registered") \/ Call(r, "waiting")
    BY <1>5 DEF RegisterCommit, SendCommit
  <2> QED
    BY <2>1, <1>3
<1>6. ASSUME NEW r \in Requests, ReceiveResult(r) PROVE Service!Next
  <2>1. /\ history' = history /\ call[r].pc = "waiting" /\ result[r] # << >>
        /\ Answer(r, Head(result[r]))
    BY <1>6 DEF ReceiveResult
  <2>2. Head(result[r]) \in Nat /\ call[r].answer = None
    BY <2>1 DEF TypeOK, ReceiptInv, RequestInv
  <2>3. CASE Head(result[r]) = 0
    BY <2>1, <2>3, FailMaps
  <2>4. CASE Head(result[r]) # 0
    <3>1. PICK n \in Nat : n = Head(result[r])
      BY <2>2
    <3>2. Holds(history, n, r)
      BY <2>1, <2>4, <3>1 DEF ReceiptInv, RequestInv
    <3>3. Service!Contains(n, r)
      BY <3>2 DEF Holds, Service!Contains
    <3>4. n \in 1..Len(history)
      <4>1. history \in Seq(Requests)
        BY DEF TypeOK
      <4>2. Len(history) \in Nat /\ n <= Len(history)
        BY <3>2, <4>1 DEF Holds
      <4> QED
        BY <2>4, <3>1, <4>2
    <3>5. /\ call'[r].pc = "done" /\ call'[r].answer = n
          /\ \A q \in Requests \ {r} : call'[q] = call[q]
      BY <2>1, <3>1, AnswerFields
    <3>6. Service!Receipt(r, n)
      BY <2>1, <2>2, <3>3, <3>5 DEF Service!Receipt
    <3> QED
      BY <3>4, <3>6 DEF Service!Next
  <2> QED
    BY <2>3, <2>4
<1>7. ASSUME NEW r \in Requests, TimeOut(r) PROVE Service!Next
  BY <1>7, FailMaps DEF TimeOut
<1>8. ASSUME NEW r \in Requests, CommitJob(r) PROVE Service!Next
  <2>1. /\ call' = call /\ job[r] = "running" /\ history' = Append(history, r)
    BY <1>8 DEF CommitJob
  <2>2. /\ call[r].pc # "idle"
        /\ \A i \in 1..Len(history) : history[i] # r
    BY <2>1 DEF ReceiptInv, RequestInv, Unsent
  <2>3. Service!Commit(r)
    BY <2>1, <2>2 DEF Service!Commit
  <2> QED
    BY <2>3 DEF Service!Next
<1>9. ASSUME NEW c \in Clients,
             \/ Connect(c) \/ AttachCheck(c) \/ AttachStore(c)
             \/ AttachRegister(c) \/ Heartbeat(c) \/ HeartbeatExpired(c)
             \/ HeartbeatStore(c) \/ LeaveFails(c) \/ LeaveRemoves(c)
             \/ LeaveDetaches(c) \/ Refresh(c) \/ Rotate(c) \/ Cut(c)
             \/ Expire(c)
      PROVE  UNCHANGED <<call, history>>
  BY <1>9 DEF Connect, AttachCheck, AttachStore, AttachRegister, Heartbeat,
     HeartbeatExpired, HeartbeatStore, LeaveFails, LeaveRemoves,
     LeaveDetaches, Refresh, Rotate, Cut, Expire
<1>10. ASSUME \/ StopFinds \/ StopRemoves \/ StopFails \/ StopDisconnects
              \/ UNCHANGED vars
       PROVE  UNCHANGED <<call, history>>
  BY <1>10 DEF StopFinds, StopRemoves, StopFails, StopDisconnects, vars
<1>11. ASSUME NEW m \in inbox, ResultArrives(m) \/ TakeResult(m)
       PROVE  UNCHANGED <<call, history>>
  BY <1>11 DEF ResultArrives, TakeResult
<1>12. ASSUME NEW c \in Clients, NEW r \in Requests,
              StartJob(c, r) \/ FailJob(r) \/ ReportJob(r)
       PROVE  UNCHANGED <<call, history>>
  BY <1>12 DEF StartJob, FailJob, ReportJob
<1>13. ASSUME NEW r \in Requests, FailJob(r) \/ ReportJob(r)
       PROVE  UNCHANGED <<call, history>>
  BY <1>13 DEF FailJob, ReportJob
<1> QED
  BY <1>1, <1>2, <1>4, <1>5, <1>6, <1>7, <1>8, <1>9, <1>10, <1>11, <1>12,
     <1>13 DEF Next, ReaderSteps, WaitSteps, JobSteps, DisconnectCell

\* ApproveReview is answered with the receipt of a revision that contains the
\* commit made for its own call, or with an error, and once: for any number of
\* sidecars, overlapping calls, lost messages and faults.
THEOREM RelayImplementsService == Spec => ImplementsService
<1>1. Init => Service!Init
  BY DEF Init, Service!Init, NoCall
<1>2. IInv /\ [Next]_vars => [Service!Next]_Service!svars
  BY StepMaps
<1> QED
  BY <1>1, <1>2, Invariance, PTL DEF Spec, Service!Spec, ImplementsService
=============================================================================
