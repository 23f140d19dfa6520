------------------------------ MODULE AgentHub ------------------------------
(***************************************************************************)
(* The agent side of the hub for one cell (internal/transport/hub.go) with *)
(* the attach sidecar at the other end (cmd/mercutio/attach.go): a sidecar *)
(* connects, takes the lease of the cell and keeps it alive; ApproveReview  *)
(* asks the sidecar that holds it to commit, and waits for the receipt or   *)
(* two minutes; a destroyed cell is cut off from the hub.                   *)
(*                                                                         *)
(* A client is one connection, and one run of the sidecar's program: after *)
(* a rotation of its capability or a restart the sidecar is a new client,   *)
(* while the hub may still be reading from the old one.  The hub reads each *)
(* client in a goroutine of its own: the handlers of one client follow one  *)
(* another, those of two clients, the waiting calls and DisconnectCell      *)
(* overlap.  A handler is cut where it takes or gives up h.mu, h.commitMu   *)
(* or the store's lock.                                                     *)
(***************************************************************************)
EXTENDS Integers, Sequences

CONSTANTS MaxClients,  \* bound: connections
          MaxRequests, \* bound: calls of RequestAgentCommit
          MaxFaults,   \* bound: cut connections, expired and rotated
                       \* capabilities, commits that fail and calls of
                       \* DisconnectCell, all together
          None         \* no client, no answer

ASSUME HubAssumption ==
    /\ MaxClients \in Nat /\ MaxRequests \in Nat /\ MaxFaults \in Nat
    /\ None \notin Nat

\* Clients are numbered as they connect, requests as they are made.
Clients == 1..MaxClients
Requests == 1..MaxRequests

VARIABLES
    reader,      \* the goroutine that reads a client, by where it stands
    link,        \* clients whose connection is up
    expired,     \* clients whose capability has expired
    agents,      \* CellHub.agents: the clients with a session
    agentByCell, \* CellHub.agentByCell of the cell: who holds the lease
    present,     \* the store's Agent.Connected
    commits,     \* CellHub.commits: the client each pending call was sent to
    call,        \* the calls of RequestAgentCommit
    result,      \* the channel each call waits on
    outbox,      \* requests on their way to a client
    inbox,       \* results on their way to the hub
    running,     \* clients whose program has not replaced itself
    rotated,     \* clients that have been sent a new capability
    job,         \* executeCellCommit for each request
    history,     \* the commits of the worktree's branch, by their request
    stop,        \* the call of DisconnectCell in progress
    faults       \* how many of MaxFaults have happened

lease == <<agents, agentByCell>>
sidecar == <<running, rotated, job, history>>
relay == <<commits, call, result, outbox>>
vars == <<reader, link, expired, lease, present, relay, inbox, sidecar, stop,
          faults>>

Readers == {"new", "joined", "checked", "stored", "ready", "beating",
            "taking", "failed", "removed", "left"}
CallSteps == {"idle", "found", "allowed", "registered", "waiting", "done"}
StopSteps == {"none", "found", "removed", "failed"}
Jobs == {"none", "running", "committed", "failed", "done"}

\* A result on the wire: receipt 0 stands for an error.
Results == [client : Clients, req : Requests, receipt : Nat]

NoCall == [pc |-> "idle", client |-> None, answer |-> None]
NoStop == [pc |-> "none", client |-> None]

TypeOK ==
    /\ reader \in [Clients -> Readers]
    /\ link \subseteq Clients /\ expired \subseteq Clients
    /\ agents \subseteq Clients /\ agentByCell \in Clients \cup {None}
    /\ present \in BOOLEAN
    /\ commits \in [Requests -> Clients \cup {None}]
    /\ call \in [Requests -> [pc : CallSteps, client : Clients \cup {None},
                              answer : Nat \cup {None}]]
    /\ result \in [Requests -> Seq(Nat)]
    /\ outbox \subseteq Clients \X Requests /\ inbox \subseteq Results
    /\ running \subseteq Clients /\ rotated \subseteq Clients
    /\ job \in [Requests -> Jobs] /\ history \in Seq(Requests)
    /\ stop \in [pc : StopSteps, client : Clients \cup {None}]
    /\ faults \in 0..MaxFaults

Init ==
    /\ reader = [c \in Clients |-> "new"]
    /\ link = {} /\ expired = {} /\ agents = {} /\ agentByCell = None
    /\ present = FALSE
    /\ commits = [r \in Requests |-> None]
    /\ call = [r \in Requests |-> NoCall]
    /\ result = [r \in Requests |-> << >>]
    /\ outbox = {} /\ inbox = {}
    /\ running = {} /\ rotated = {}
    /\ job = [r \in Requests |-> "none"] /\ history = << >>
    /\ stop = NoStop /\ faults = 0

-----------------------------------------------------------------------------
(* Sessions and the lease.                                                 *)

\* One fault more.
Fault == faults < MaxFaults /\ faults' = faults + 1

Move(c, step) == reader' = [reader EXCEPT ![c] = step]

\* ServeAgentHTTP admits a client whose capability is valid; the sidecar sends
\* agent:attach first.
Connect(c) ==
    /\ reader[c] = "new" /\ \A d \in Clients : d < c => reader[d] # "new"
    /\ Move(c, "joined")
    /\ link' = link \cup {c} /\ running' = running \cup {c}
    /\ UNCHANGED <<expired, lease, present, relay, inbox, rotated, job,
                   history, stop, faults>>

\* agent:attach, up to the read lock: no other client may hold the lease.
AttachCheck(c) ==
    /\ reader[c] = "joined"
    /\ IF c \notin expired /\ agentByCell \in {None, c}
       THEN Move(c, "checked") /\ UNCHANGED link
       ELSE Move(c, "ready") /\ link' = link \ {c}
    /\ UNCHANGED <<expired, lease, present, relay, inbox, sidecar, stop,
                   faults>>

\* store.Attach verifies the capability again; a client it refuses stays
\* connected without a session.
AttachStore(c) ==
    /\ reader[c] = "checked"
    /\ \/ c \notin expired /\ present' = TRUE /\ Move(c, "stored")
       \/ c \in expired /\ UNCHANGED present /\ Move(c, "ready")
    /\ UNCHANGED <<link, expired, lease, relay, inbox, sidecar, stop,
                   faults>>

\* The session is registered, whoever was registered since the check.
AttachRegister(c) ==
    /\ reader[c] = "stored"
    /\ agents' = agents \cup {c} /\ agentByCell' = c
    /\ Move(c, "ready")
    /\ UNCHANGED <<link, expired, present, relay, inbox, sidecar, stop,
                   faults>>

\* agent:heartbeat: an expired client is disconnected, one without a session
\* ignored.
HeartbeatExpired(c) ==
    /\ reader[c] = "ready" /\ c \in link \cap expired
    /\ link' = link \ {c}
    /\ UNCHANGED <<reader, expired, lease, present, relay, inbox, sidecar,
                   stop, faults>>

Heartbeat(c) ==
    /\ reader[c] = "ready" /\ c \in (link \cap agents) \ expired
    /\ Move(c, "beating")
    /\ UNCHANGED <<link, expired, lease, present, relay, inbox, sidecar,
                   stop, faults>>

\* Mutant: the heartbeat only refreshes LastSeen.
HeartbeatStoreSeen(c) ==
    /\ reader[c] = "beating"
    /\ Move(c, "ready")
    /\ UNCHANGED <<link, expired, lease, present, relay, inbox, sidecar,
                   stop, faults>>
\* store.Heartbeat: every client of a cell has the same agent ID.
HeartbeatStore(c) ==
    /\ reader[c] = "beating"
    /\ present' = TRUE
    /\ Move(c, "ready")
    /\ UNCHANGED <<link, expired, lease, relay, inbox, sidecar, stop,
                   faults>>

\* agent:refresh: a session with a valid capability is sent a new one.
Refresh(c) ==
    /\ reader[c] = "ready" /\ c \in (link \cap agents) \ (expired \cup rotated)
    /\ rotated' = rotated \cup {c}
    /\ Fault
    /\ UNCHANGED <<reader, link, expired, lease, present, relay, inbox,
                   running, job, history, stop>>

\* Mutant: the cell's entry is forgotten.
RemoveAgentOnly(c) == agents' = agents \ {c} /\ UNCHANGED agentByCell
\* removeAgent under h.mu.
RemoveAgent(c) ==
    /\ agents' = agents \ {c}
    /\ agentByCell' = IF agentByCell = c /\ c \in agents THEN None
                                                         ELSE agentByCell

\* Mutant: the answered calls stay in the map.
FailCommitsKept(c) ==
    /\ UNCHANGED commits
    /\ result' = [r \in Requests |-> IF commits[r] = c
                                     THEN Append(result[r], 0) ELSE result[r]]
\* failCommitsForClient: what is pending for the client leaves the map and is
\* answered with an error.
FailCommits(c) ==
    LET mine == {r \in Requests : commits[r] = c} IN
    /\ commits' = [r \in Requests |-> IF r \in mine THEN None ELSE commits[r]]
    /\ result' = [r \in Requests |-> IF r \in mine THEN Append(result[r], 0)
                                                   ELSE result[r]]

\* The connection is gone and the reader sees it, in three steps of "leave".
LeaveFails(c) ==
    /\ reader[c] \in {"joined", "ready"} /\ c \notin link
    /\ FailCommits(c)
    /\ Move(c, "failed")
    /\ UNCHANGED <<link, expired, lease, present, call, outbox, inbox,
                   sidecar, stop, faults>>

LeaveRemoves(c) ==
    /\ reader[c] = "failed"
    /\ RemoveAgent(c)
    /\ Move(c, IF c \in agents THEN "removed" ELSE "left")
    /\ UNCHANGED <<link, expired, present, relay, inbox, sidecar, stop,
                   faults>>

\* store.Detach looks at the agent ID only, which another client may share.
LeaveDetaches(c) ==
    /\ reader[c] = "removed"
    /\ present' = FALSE
    /\ Move(c, "left")
    /\ UNCHANGED <<link, expired, lease, relay, inbox, sidecar, stop,
                   faults>>

-----------------------------------------------------------------------------
(* The relay of a commit.                                                  *)

Call(r, step) == call' = [call EXCEPT ![r].pc = step]
Answer(r, n) ==
    call' = [call EXCEPT ![r].pc = "done", ![r].answer = n]

\* AgentClient: the lease, if its session has not expired.
AgentClient == IF agentByCell \in agents \ expired THEN agentByCell ELSE None

\* RequestAgentCommit finds a client, or fails.
FindAgent(r) ==
    /\ call[r].pc = "idle" /\ \A q \in Requests : q < r => call[q].pc # "idle"
    /\ IF AgentClient = None
       THEN Answer(r, 0)
       ELSE call' = [call EXCEPT ![r].pc = "found", ![r].client = AgentClient]
    /\ UNCHANGED <<reader, link, expired, lease, present, commits, result,
                   outbox, inbox, sidecar, stop, faults>>

\* authorizedAgent, under the lock once more.
AuthorizeAgent(r) ==
    /\ call[r].pc = "found"
    /\ IF call[r].client \in agents \ expired THEN Call(r, "allowed")
                                              ELSE Answer(r, 0)
    /\ UNCHANGED <<reader, link, expired, lease, present, commits, result,
                   outbox, inbox, sidecar, stop, faults>>

RegisterCommit(r) ==
    /\ call[r].pc = "allowed"
    /\ commits' = [commits EXCEPT ![r] = call[r].client]
    /\ Call(r, "registered")
    /\ UNCHANGED <<reader, link, expired, lease, present, result, outbox,
                   inbox, sidecar, stop, faults>>

\* Mutant: the request is sent again while it is not answered.
SendCommitAgain(r) ==
    /\ call[r].pc \in {"registered", "waiting"}
    /\ outbox' = outbox \cup {<<call[r].client, r>>}
    /\ Call(r, "waiting")
    /\ UNCHANGED <<reader, link, expired, lease, present, commits, result,
                   inbox, sidecar, stop, faults>>
\* What is sent to a client that has gone is lost.
SendCommit(r) ==
    /\ call[r].pc = "registered"
    /\ \/ outbox' = outbox \cup {<<call[r].client, r>>}
       \/ call[r].client \notin link /\ UNCHANGED outbox
    /\ Call(r, "waiting")
    /\ UNCHANGED <<reader, link, expired, lease, present, commits, result,
                   inbox, sidecar, stop, faults>>

ReceiveResult(r) ==
    /\ call[r].pc = "waiting" /\ result[r] # << >>
    /\ Answer(r, Head(result[r]))
    /\ result' = [result EXCEPT ![r] = Tail(@)]
    /\ UNCHANGED <<reader, link, expired, lease, present, commits, outbox,
                   inbox, sidecar, stop, faults>>

\* Mutant: the wait has no deadline.
TimeOutNever(r) == FALSE /\ r \in Requests /\ UNCHANGED vars
\* ctx.Done: two minutes have passed.
TimeOut(r) ==
    /\ call[r].pc = "waiting"
    /\ commits' = [commits EXCEPT ![r] = None]
    /\ Answer(r, 0)
    /\ UNCHANGED <<reader, link, expired, lease, present, result, outbox,
                   inbox, sidecar, stop, faults>>

\* agent:commit-result, up to h.commitMu: an expired client or one without a
\* session is ignored.
ResultArrives(m) ==
    /\ m \in inbox /\ reader[m.client] = "ready"
    /\ IF m.client \in agents \ expired
       THEN Move(m.client, "taking") /\ UNCHANGED inbox
       ELSE inbox' = inbox \ {m} /\ UNCHANGED reader
    /\ UNCHANGED <<link, expired, lease, present, relay, sidecar, stop,
                   faults>>

\* Under h.commitMu: a call that is pending for this client is answered.
TakeResult(m) ==
    /\ m \in inbox /\ reader[m.client] = "taking"
    /\ inbox' = inbox \ {m}
    /\ IF commits[m.req] = m.client
       THEN /\ commits' = [commits EXCEPT ![m.req] = None]
            /\ result' = [result EXCEPT ![m.req] = Append(@, m.receipt)]
       ELSE UNCHANGED <<commits, result>>
    /\ Move(m.client, "ready")
    /\ UNCHANGED <<link, expired, lease, present, call, outbox, sidecar,
                   stop, faults>>

-----------------------------------------------------------------------------
(* The attach sidecar.                                                     *)

\* agent:commit starts a goroutine for the request, whatever else runs.
StartJob(c, r) ==
    /\ <<c, r>> \in outbox /\ c \in running
    /\ outbox' = outbox \ {<<c, r>>}
    /\ job' = [job EXCEPT ![r] = "running"]
    /\ UNCHANGED <<reader, link, expired, lease, present, commits, call,
                   result, inbox, running, rotated, history, stop, faults>>

\* buckley commits in the worktree; a child that runs survives its parent's
\* exec.
CommitJob(r) ==
    /\ job[r] = "running"
    /\ job' = [job EXCEPT ![r] = "committed"]
    /\ history' = Append(history, r)
    /\ UNCHANGED <<reader, link, expired, lease, present, relay, inbox,
                   running, rotated, stop, faults>>

\* buckley or git rev-parse fails, or is killed after two minutes.
FailJob(r) ==
    /\ job[r] \in {"running", "committed"}
    /\ job' = [job EXCEPT ![r] = "failed"]
    /\ Fault
    /\ UNCHANGED <<reader, link, expired, lease, present, relay, inbox,
                   running, rotated, history, stop>>

\* Mutant: the error of a failed commit is left out of the result.
OutcomeUnset(r) == IF job[r] = "failed" THEN None ELSE Len(history)
\* An error, or git rev-parse HEAD as it is by now.
Outcome(r) == IF job[r] = "failed" THEN 0 ELSE Len(history)

\* The goroutine writes its result, which is lost when the connection is gone.
\* (The agent itself is taken not to write messages of this name.)
ReportJob(r) ==
    LET c == call[r].client IN
    /\ job[r] \in {"committed", "failed"} /\ c \in running
    /\ job' = [job EXCEPT ![r] = "done"]
    /\ \/ inbox' = inbox \cup
                      {[client |-> c, req |-> r, receipt |-> Outcome(r)]}
       \/ c \notin link /\ UNCHANGED inbox
    /\ UNCHANGED <<reader, link, expired, lease, present, relay, running,
                   rotated, history, stop, faults>>

\* agent:capability: the sidecar replaces its own program and dials again.
Rotate(c) ==
    /\ c \in running \cap rotated
    /\ running' = running \ {c} /\ link' = link \ {c}
    /\ UNCHANGED <<reader, expired, lease, present, relay, inbox, rotated,
                   job, history, stop, faults>>

-----------------------------------------------------------------------------
(* DisconnectCell, which Destroy's handlers call.                          *)

StopFinds ==
    /\ stop.pc = "none" /\ AgentClient # None
    /\ stop' = [pc |-> "found", client |-> AgentClient]
    /\ Fault
    /\ UNCHANGED <<reader, link, expired, lease, present, relay, inbox,
                   sidecar>>

StopRemoves ==
    /\ stop.pc = "found"
    /\ RemoveAgent(stop.client)
    /\ stop' = [stop EXCEPT !.pc = "removed"]
    /\ UNCHANGED <<reader, link, expired, present, relay, inbox, sidecar,
                   faults>>

StopFails ==
    /\ stop.pc = "removed"
    /\ FailCommits(stop.client)
    /\ stop' = [stop EXCEPT !.pc = "failed"]
    /\ UNCHANGED <<reader, link, expired, lease, present, call, outbox, inbox,
                   sidecar, faults>>

StopDisconnects ==
    /\ stop.pc = "failed"
    /\ link' = link \ {stop.client}
    /\ stop' = NoStop
    /\ UNCHANGED <<reader, expired, lease, present, relay, inbox, sidecar,
                   faults>>

-----------------------------------------------------------------------------
(* Environment.                                                            *)

\* The network, the pod or the sidecar ends the connection.
Cut(c) ==
    /\ c \in link
    /\ link' = link \ {c}
    /\ Fault
    /\ UNCHANGED <<reader, expired, lease, present, relay, inbox, sidecar,
                   stop>>

Expire(c) ==
    /\ reader[c] # "new" /\ c \notin expired
    /\ expired' = expired \cup {c}
    /\ Fault
    /\ UNCHANGED <<reader, link, lease, present, relay, inbox, sidecar,
                   stop>>

ReaderSteps(c) ==
    \/ \E m \in inbox : m.client = c /\ (ResultArrives(m) \/ TakeResult(m))
    \/ AttachCheck(c) \/ AttachStore(c) \/ AttachRegister(c)
    \/ Heartbeat(c) \/ HeartbeatExpired(c) \/ HeartbeatStore(c)
    \/ LeaveFails(c) \/ LeaveRemoves(c) \/ LeaveDetaches(c)
WaitSteps(r) ==
    \/ AuthorizeAgent(r) \/ RegisterCommit(r) \/ SendCommit(r)
    \/ ReceiveResult(r) \/ TimeOut(r)
JobSteps(r) ==
    \/ CommitJob(r) \/ FailJob(r) \/ ReportJob(r)
    \/ \E c \in Clients : StartJob(c, r)
DisconnectCell == StopFinds \/ StopRemoves \/ StopFails \/ StopDisconnects

Next ==
    \/ \E c \in Clients : \/ ReaderSteps(c) \/ Connect(c) \/ Refresh(c)
                          \/ Rotate(c) \/ Cut(c) \/ Expire(c)
    \/ \E r \in Requests : FindAgent(r) \/ WaitSteps(r) \/ JobSteps(r)
    \/ DisconnectCell

\* A goroutine that reads a client goes on while there is something to read,
\* heartbeats included, and a call of RequestAgentCommit runs to its end.
Fairness ==
    /\ \A c \in Clients : WF_vars(ReaderSteps(c))
    /\ \A r \in Requests : WF_vars(WaitSteps(r))

Spec == Init /\ [][Next]_vars /\ Fairness

-----------------------------------------------------------------------------
(* What the relay is for.                                                  *)

\* CommitService is what ApproveReview relies on: a receipt names a revision
\* that contains the commit made for that very call, whatever was lost, timed
\* out, cut off or overlapped on the way, and no call has two outcomes.
Service == INSTANCE CommitService WITH
    asked <- {r \in Requests : call[r].pc # "idle"},
    log <- history,
    answer <- [r \in Requests |-> call[r].answer]

ImplementsService == Service!Spec

\* Each call has a channel for one answer, which up to three goroutines may
\* send: the reader of the result, the reader that leaves and DisconnectCell.
\* None of them finds it full, which would block the reader for good.
AnswerBuffered == \A r \in Requests : Len(result[r]) <= 1

\* The lease of a cell names a client with a session, and a client whose reader
\* has ended has none: however attach, leave and DisconnectCell overlap, no
\* client that has gone keeps the next sidecar out.
LeaseIsLive ==
    /\ agentByCell # None => agentByCell \in agents
    /\ \A c \in Clients : reader[c] = "left" => c \notin agents

\* A call of RequestAgentCommit ends, also when its client left between the
\* checks and the registration, so that nobody is there to fail it.
CommitsAnswered ==
    []<>(\A r \in Requests : call[r].pc = "idle" \/ call[r].answer # None)

\* A client that lost its connection while it held the lease gives it up.
LeaseFreed == []<>(agentByCell = None \/ agentByCell \in link)

\* While clients with a session stay connected the cell is shown as attached in
\* the end, also when the leave of an older client with the same agent ID
\* marked it as detached after the attach.
PresenceRecovers ==
    <>[]((agents \cap link) \ expired # {}) => <>[]present
=============================================================================
